---------------------------- MODULE ReleaseProofs ----------------------------
(***************************************************************************)
(* Proofs about Promotion, for any number of promotions, versions, seconds *)
(* and edits: no two calls of Promote work on one branch, and along fork,  *)
(* tip and base branch the overrides only ever get newer, which leaves a   *)
(* merge nothing to undo.  About Publish, for any package, any number of   *)
(* processes, edits and commands.  And about Packages: the validators and  *)
(* the lock, for any files of a package.                                   *)
(***************************************************************************)
EXTENDS Promotion, Publish, Packages, Induction, FiniteSetTheorems, SequenceTheorems, TLAPS

-----------------------------------------------------------------------------
(* Promotion. *)

\* Promotion p knows that it has created its branch.
Owns(p) ==
  pc[p] \in {"reading", "writing", "proposing", "success"} \/ pr[p] # "none"

BranchesAreOwned ==
  /\ \A p \in Promotions : Owns(p) => branch[p] \in branches
  /\ \A p, q \in Promotions : Owns(p) /\ Owns(q) /\ p # q => branch[p] # branch[q]

\* What each owner has done to its branch so far.
WorkIsDone ==
  \A p \in Promotions :
    /\ pc[p] = "proposing" \/ pr[p] # "none" =>
         head[branch[p]] = MergeAppVersion(existing[p], request[p])
    /\ pr[p] # "none" => pc[p] \in {"success", Failed}
    /\ pc[p] = "success" => pr[p] # "none"

IInv == TypeOK /\ BranchesAreOwned /\ WorkIsDone

\* The overrides on a branch are no older than at its fork, and nothing that a
\* promotion holds is newer than the base branch.
OverridesGetNewer ==
  /\ \A b \in branches : /\ base[b].overrides <= head[b].overrides
                         /\ head[b].overrides <= main.overrides
  /\ \A p \in Promotions :
       /\ existing[p].overrides <= main.overrides
       /\ pc[p] = "writing" => base[branch[p]].overrides <= existing[p].overrides

-----------------------------------------------------------------------------
(* Promotions do not meet on a branch. *)

\* Before its first request a call of Promote has nothing.
LEMMA InitIInv == Init => IInv
  BY ConstantsAssumption
  DEF Init, IInv, TypeOK, BranchesAreOwned, WorkIsDone, Owns, File, NoFile,
      Points, Failed

\* MergeAppVersion makes a values file of a values file.
LEMMA MergedFile ==
  ASSUME NEW f \in File, NEW v \in Versions
  PROVE  /\ MergeAppVersion(f, v) \in File
         /\ MergeAppVersion(f, v).overrides = f.overrides
  BY DEF MergeAppVersion, File

\* A three-way merge makes a values file of values files.
LEMMA MergeFile ==
  ASSUME NEW o \in File, NEW y \in File, NEW t \in File
  PROVE  [version |-> Merged(o.version, y.version, t.version),
          overrides |-> Merged(o.overrides, y.overrides, t.overrides)] \in File
  BY DEF Merged, File

\* Every step keeps types, ownership and the work done.
LEMMA NextIInv == IInv /\ [Next]_vars => IInv'
<1> SUFFICES ASSUME IInv, [Next]_vars PROVE IInv'
  OBVIOUS
<1> USE DEF IInv, Goto, Failed
<1>1. ASSUME NEW p \in Promotions, NEW v \in Versions, NEW t \in Seconds, Begin(p, v, t)
      PROVE  IInv'
  <2>1. TypeOK'
    BY <1>1 DEF Begin, TypeOK, Points, BranchNames, WorkIsDone
  <2>2. \A q \in Promotions : q # p => /\ (Owns(q)' <=> Owns(q))
                                       /\ branch'[q] = branch[q]
    BY <1>1 DEF Begin, Owns, TypeOK
  <2>3. ~Owns(p)'
    BY <1>1 DEF Begin, Owns, TypeOK, WorkIsDone
  <2>4. BranchesAreOwned'
    BY <1>1, <2>2, <2>3 DEF BranchesAreOwned, Begin
  <2>5. WorkIsDone'
    BY <1>1 DEF Begin, WorkIsDone, TypeOK
  <2>6. QED
    BY <2>1, <2>4, <2>5
<1>2. ASSUME NEW p \in Promotions, CreateBranch(p)
      PROVE  IInv'
  <2>1. branch[p] \in BranchNames /\ existing[p] \in File
    BY <1>2 DEF CreateBranch, TypeOK
  <2>2. TypeOK'
    BY <1>2, <2>1 DEF CreateBranch, Fork, TypeOK, Points
  <2>3. \A q \in Promotions : Owns(q) => branch[q] # branch[p]
    BY <1>2 DEF CreateBranch, BranchesAreOwned
  <2>4. \A q \in Promotions : q # p => (Owns(q)' <=> Owns(q))
    BY <1>2 DEF CreateBranch, Owns, TypeOK
  <2>5. BranchesAreOwned'
    BY <1>2, <2>3, <2>4 DEF CreateBranch, Fork, BranchesAreOwned
  <2>6. \A q \in Promotions : q # p /\ (pc[q] = "proposing" \/ pr[q] # "none") =>
          head'[branch[q]] = head[branch[q]]
    <3>1. \A q \in Promotions : (pc[q] = "proposing" \/ pr[q] # "none") => Owns(q)
      BY DEF Owns
    <3>2. \A q \in Promotions : Owns(q) => branch[q] \in BranchNames
      BY DEF BranchesAreOwned, TypeOK
    <3>3. QED
      BY <1>2, <2>3, <3>1, <3>2 DEF CreateBranch, Fork, TypeOK
  <2>7. WorkIsDone'
    BY <1>2, <2>6 DEF CreateBranch, WorkIsDone, TypeOK
  <2>8. QED
    BY <2>2, <2>5, <2>7
<1>3. ASSUME NEW p \in Promotions,
             CreateBranchFails(p) \/ UpdateFileFails(p) \/ CreatePRFails(p)
      PROVE  IInv'
  <2>1. TypeOK'
    BY <1>3 DEF CreateBranchFails, UpdateFileFails, CreatePRFails, TypeOK, Points
  <2>2. \A q \in Promotions : Owns(q)' => Owns(q)
    BY <1>3 DEF CreateBranchFails, UpdateFileFails, CreatePRFails, TypeOK, Owns
  <2>3. BranchesAreOwned'
    BY <1>3, <2>2 DEF CreateBranchFails, UpdateFileFails, CreatePRFails, BranchesAreOwned
  <2>4. WorkIsDone'
    BY <1>3 DEF CreateBranchFails, UpdateFileFails, CreatePRFails, WorkIsDone, TypeOK
  <2>5. QED
    BY <2>1, <2>3, <2>4
<1>4. ASSUME NEW p \in Promotions, ReadValues(p)
      PROVE  IInv'
  <2>1. TypeOK'
    BY <1>4, ConstantsAssumption DEF ReadValues, TypeOK, Points, File, NoFile
  <2>2. \A q \in Promotions : Owns(q)' <=> Owns(q)
    BY <1>4 DEF ReadValues, TypeOK, Owns
  <2>3. BranchesAreOwned'
    BY <1>4, <2>2 DEF ReadValues, BranchesAreOwned
  <2>4. WorkIsDone'
    BY <1>4 DEF ReadValues, WorkIsDone, TypeOK
  <2>5. QED
    BY <2>1, <2>3, <2>4
<1>5. ASSUME NEW p \in Promotions, UpdateFile(p)
      PROVE  IInv'
  <2>1. /\ branch[p] \in BranchNames
        /\ MergeAppVersion(existing[p], request[p]) \in File
    BY <1>5, MergedFile DEF UpdateFile, TypeOK
  <2>2. TypeOK'
    BY <1>5, <2>1 DEF UpdateFile, TypeOK, Points
  <2>3. \A q \in Promotions : Owns(q)' => Owns(q)
    BY <1>5 DEF UpdateFile, TypeOK, Owns
  <2>4. BranchesAreOwned'
    BY <1>5, <2>3 DEF UpdateFile, BranchesAreOwned
  <2>5. \A q \in Promotions : q # p /\ (pc[q] = "proposing" \/ pr[q] # "none") =>
          head'[branch[q]] = head[branch[q]]
    <3>1. Owns(p)
      BY <1>5 DEF UpdateFile, Owns
    <3>2. \A q \in Promotions : (pc[q] = "proposing" \/ pr[q] # "none") => Owns(q)
      BY DEF Owns
    <3>3. \A q \in Promotions : Owns(q) => branch[q] \in BranchNames
      BY DEF BranchesAreOwned, TypeOK
    <3>4. \A q \in Promotions : q # p /\ Owns(q) => branch[q] # branch[p]
      BY <3>1 DEF BranchesAreOwned
    <3>5. QED
      BY <1>5, <3>2, <3>3, <3>4 DEF UpdateFile, TypeOK
  <2>6. head'[branch[p]] = MergeAppVersion(existing[p], request[p])
    BY <1>5, <2>1 DEF UpdateFile, TypeOK
  <2>7. WorkIsDone'
    BY <1>5, <2>5, <2>6 DEF UpdateFile, WorkIsDone, TypeOK, MergeAppVersion
  <2>8. QED
    BY <2>2, <2>4, <2>7
<1>6. ASSUME NEW p \in Promotions, CreatePR(p)
      PROVE  IInv'
  <2>1. TypeOK'
    BY <1>6 DEF CreatePR, TypeOK, Points, BranchesAreOwned, Owns
  <2>2. \A q \in Promotions : Owns(q)' <=> Owns(q)
    BY <1>6 DEF CreatePR, TypeOK, Owns
  <2>3. BranchesAreOwned'
    BY <1>6, <2>2 DEF CreatePR, BranchesAreOwned
  <2>4. WorkIsDone'
    BY <1>6 DEF CreatePR, WorkIsDone, TypeOK
  <2>5. QED
    BY <2>1, <2>3, <2>4
<1>7. ASSUME NEW p \in Promotions, Merge(p)
      PROVE  IInv'
  <2>1. main' \in File
    <3>1. branch[p] \in BranchNames
      BY <1>7 DEF Merge, TypeOK
    <3>2. QED
      BY <1>7, <3>1, MergeFile DEF Merge, TypeOK
  <2>2. TypeOK'
    BY <1>7, <2>1 DEF Merge, TypeOK
  <2>3. \A q \in Promotions : Owns(q)' <=> Owns(q)
    BY <1>7 DEF Merge, TypeOK, Owns
  <2>4. BranchesAreOwned'
    BY <1>7, <2>3 DEF Merge, BranchesAreOwned
  <2>5. WorkIsDone'
    BY <1>7 DEF Merge, WorkIsDone, TypeOK
  <2>6. QED
    BY <2>2, <2>4, <2>5
<1>8. ASSUME NEW n \in 0 .. MaxEdits, EditOverrides(n)
      PROVE  IInv'
  <2>1. TypeOK'
    BY <1>8, ConstantsAssumption DEF EditOverrides, TypeOK, File
  <2>2. QED
    BY <1>8, <2>1 DEF EditOverrides, BranchesAreOwned, WorkIsDone, Owns
<1>9. CASE UNCHANGED vars
  BY <1>9 DEF vars, TypeOK, BranchesAreOwned, WorkIsDone, Owns
<1>10. QED
  BY <1>1, <1>2, <1>3, <1>4, <1>5, <1>6, <1>7, <1>8, <1>9 DEF Next, Promote

\* The invariant holds in every reachable state.
LEMMA IInvHolds == Spec => []IInv
  BY InitIInv, NextIInv, PTL DEF Spec

\* Promotion is type-correct, whatever requests fail or lose their reply.
THEOREM PromotionTypeCorrect == Spec => []TypeOK
<1>1. IInv => TypeOK
  BY DEF IInv
<1>2. QED
  BY <1>1, IInvHolds, PTL

\* A pull request proposes exactly what its promotion was asked for.
THEOREM ProposalsAreExact == Spec => []ProposalIsExact
<1>1. IInv => ProposalIsExact
  BY DEF IInv, WorkIsDone, ProposalIsExact
<1>2. QED
  BY <1>1, IInvHolds, PTL

-----------------------------------------------------------------------------
(* Merging a promotion leaves the overrides alone, if reads do not fail    *)
(* and users only write new ones.                                          *)

\* A merge that does not conflict takes the newest overrides of the three: those
\* of the base branch.
LEMMA MergeTakesNewest ==
  ASSUME NEW o \in Nat, NEW t \in Nat, NEW y \in Nat,
         o <= t, t <= y, ~Conflict(o, y, t)
  PROVE  Merged(o, y, t) = y
  BY DEF Conflict, Merged

\* Merging a pull request whose branch is in that order changes no overrides.
LEMMA MergeKeepsOverrides ==
  ASSUME IInv, OverridesGetNewer, NEW p \in Promotions, Merge(p)
  PROVE  main'.overrides = main.overrides
<1> DEFINE o == base[branch[p]]
           t == head[branch[p]]
<1>1. branch[p] \in branches /\ branch[p] \in BranchNames
  BY DEF Merge, IInv, TypeOK
<1>2. /\ o \in File /\ t \in File /\ main \in File
      /\ o.overrides <= t.overrides /\ t.overrides <= main.overrides
  BY <1>1 DEF OverridesGetNewer, IInv, TypeOK
<1>3. ~Conflict(o.overrides, main.overrides, t.overrides)
  BY DEF Merge, Mergeable
<1>4. main'.overrides = Merged(o.overrides, main.overrides, t.overrides)
  BY DEF Merge
<1>5. o.overrides \in Nat /\ t.overrides \in Nat /\ main.overrides \in Nat
  BY <1>2, ConstantsAssumption DEF File
<1>6. QED
  BY <1>2, <1>3, <1>4, <1>5, MergeTakesNewest

\* Every step keeps the order of the overrides, on the same terms.
LEMMA NextOverrides ==
  ASSUME ~ReadsFail, ~Reverts, IInv, OverridesGetNewer, [Next]_vars
  PROVE  OverridesGetNewer'
<1> USE DEF OverridesGetNewer, Goto, Failed
<1>1. /\ main \in File /\ main.overrides \in Nat
      /\ \A b \in branches : /\ b \in BranchNames
                             /\ base[b].overrides \in Nat
                             /\ head[b].overrides \in Nat
      /\ \A p \in Promotions : existing[p] \in File /\ existing[p].overrides \in Nat
  BY ConstantsAssumption DEF IInv, TypeOK, File
<1>2. ASSUME NEW p \in Promotions, NEW v \in Versions, NEW t \in Seconds, Begin(p, v, t)
      PROVE  OverridesGetNewer'
  BY <1>1, <1>2 DEF Begin, IInv, TypeOK
<1>3. ASSUME NEW p \in Promotions, CreateBranch(p)
      PROVE  OverridesGetNewer'
  <2>1. branch[p] \in BranchNames /\ branch[p] \notin branches
    BY <1>3 DEF CreateBranch, IInv, TypeOK
  <2>2. \A q \in Promotions : pc'[q] = "writing" =>
          q # p /\ pc[q] = "writing" /\ branch[q] \in branches
    BY <1>3 DEF CreateBranch, IInv, TypeOK, BranchesAreOwned, Owns
  <2>3. \A b \in branches : base'[b] = base[b] /\ head'[b] = head[b]
    BY <1>1, <1>3, <2>1 DEF CreateBranch, Fork, IInv, TypeOK
  <2>4. base'[branch[p]] = existing[p] /\ head'[branch[p]] = existing[p]
    BY <1>3, <2>1 DEF CreateBranch, Fork, IInv, TypeOK
  <2>5. branches' = branches \cup {branch[p]} /\ UNCHANGED <<main, branch, existing>>
    BY <1>3 DEF CreateBranch, Fork
  <2>6. QED
    BY <1>1, <2>2, <2>3, <2>4, <2>5
<1>4. ASSUME NEW p \in Promotions, ReadValues(p)
      PROVE  OverridesGetNewer'
  <2>1. /\ existing' = [existing EXCEPT ![p] = main]
        /\ UNCHANGED <<main, branches, base, head, branch>>
    BY <1>4 DEF ReadValues
  <2>2. branch[p] \in branches
    BY <1>4 DEF ReadValues, IInv, BranchesAreOwned, Owns
  <2>3. base[branch[p]].overrides <= main.overrides
    BY <1>1, <2>2
  <2>4. \A q \in Promotions : q # p => pc'[q] = pc[q]
    BY <1>4 DEF ReadValues, IInv, TypeOK
  <2>5. QED
    BY <1>1, <2>1, <2>3, <2>4 DEF IInv, TypeOK
<1>5. ASSUME NEW p \in Promotions, UpdateFile(p)
      PROVE  OverridesGetNewer'
  <2>1. /\ head' = [head EXCEPT ![branch[p]] = MergeAppVersion(existing[p], request[p])]
        /\ UNCHANGED <<main, branches, base, branch, existing>>
    BY <1>5 DEF UpdateFile
  <2>2. MergeAppVersion(existing[p], request[p]).overrides = existing[p].overrides
    BY <1>5, MergedFile DEF UpdateFile, IInv, TypeOK
  <2>3. base[branch[p]].overrides <= existing[p].overrides
    BY <1>5 DEF UpdateFile
  <2>4. \A q \in Promotions : pc'[q] = "writing" => pc[q] = "writing"
    BY <1>5 DEF UpdateFile, IInv, TypeOK
  <2>5. QED
    BY <1>1, <2>1, <2>2, <2>3, <2>4 DEF IInv, TypeOK
<1>6. ASSUME NEW p \in Promotions,
             \/ CreateBranchFails(p) \/ UpdateFileFails(p)
             \/ CreatePR(p) \/ CreatePRFails(p)
      PROVE  OverridesGetNewer'
  BY <1>6 DEF CreateBranchFails, UpdateFileFails, CreatePR, CreatePRFails, IInv, TypeOK
<1>7. ASSUME NEW p \in Promotions, Merge(p)
      PROVE  OverridesGetNewer'
  <2>1. main'.overrides = main.overrides
    BY <1>7, MergeKeepsOverrides
  <2>2. QED
    BY <1>7, <2>1 DEF Merge
<1>8. ASSUME NEW n \in 0 .. MaxEdits, EditOverrides(n)
      PROVE  OverridesGetNewer'
  <2>1. main'.overrides = n /\ n > main.overrides
    BY <1>1, <1>8 DEF EditOverrides, File
  <2>2. QED
    BY <1>1, <1>8, <2>1 DEF EditOverrides
<1>9. CASE UNCHANGED vars
  BY <1>9 DEF vars
<1>10. QED
  BY <1>2, <1>3, <1>4, <1>5, <1>6, <1>7, <1>8, <1>9 DEF Next, Promote

\* If no request that reads a file fails and nobody goes back to earlier
\* overrides, a promotion that is merged leaves those on the base branch as they
\* are.
THEOREM OverridesArePreserved ==
  ASSUME ~ReadsFail, ~Reverts
  PROVE  Spec => OverridesPreserved
<1> DEFINE Kept == \A p \in Promotions :
              pr[p] # "merged" /\ pr'[p] = "merged" => main'.overrides = main.overrides
<1>1. Init => OverridesGetNewer
  BY ConstantsAssumption DEF Init, OverridesGetNewer, NoFile
<1>2. IInv /\ OverridesGetNewer /\ [Next]_vars => OverridesGetNewer'
  BY NextOverrides
<1>3. IInv /\ OverridesGetNewer /\ [Next]_vars => [Kept]_vars
  <2> SUFFICES ASSUME IInv, OverridesGetNewer, Next, NEW q \in Promotions,
                      pr[q] # "merged", pr'[q] = "merged"
               PROVE  main'.overrides = main.overrides
    OBVIOUS
  <2>1. ASSUME NEW p \in Promotions, Merge(p)
        PROVE  main'.overrides = main.overrides
    BY <2>1, MergeKeepsOverrides
  <2>2. ASSUME NEW p \in Promotions,
               (\E v \in Versions, t \in Seconds : Begin(p, v, t)) \/ Promote(p)
        PROVE  FALSE
    BY <2>2 DEF Begin, Promote, CreateBranch, CreateBranchFails, ReadValues,
                UpdateFile, UpdateFileFails, CreatePR, CreatePRFails, IInv, TypeOK
  <2>3. ~\E n \in 0 .. MaxEdits : EditOverrides(n)
    BY DEF EditOverrides
  <2>4. QED
    BY <2>1, <2>2, <2>3 DEF Next
<1>4. QED
  BY <1>1, <1>2, <1>3, IInvHolds, PTL DEF Spec, OverridesPreserved

-----------------------------------------------------------------------------
(* Publish. *)

Texts == [text : Nat, version : PackageVersions \cup {"none"}, merged : BOOLEAN]
Stamps == Publishers \X Nat
Layers == [dk : Texts, files : SUBSET Files]

\* The artifact grows from Stubs to Artifacts.
Stubs == [stamp : Stamps]
Configured == [stamp : Stamps, config : Texts]
Layered == [stamp : Stamps, config : Texts, manifests : Layers]
Artifacts == [stamp : Stamps, config : Texts, manifests : Layers, content : SUBSET Files]

\* A dk publish with an artifact that far, and what it knows of its tag.
Publishing(points, artifacts, answers) ==
  [command : {"publish"}, pc : points, calm : BOOLEAN, tag : PackageVersions,
   checked : answers, artifact : artifacts]

Running ==
  [command : {"run"}, pc : {"override", "truncate_backup", "backup", "truncate", "merge"},
   calm : BOOLEAN, base : Texts]
Configuring == Publishing({"config"}, Stubs, {"no"})
Layering == Publishing({"manifests"}, Configured, {"no"})
Filling == Publishing({"content"}, Layered, {"no"})
Checking == Publishing({"check"}, Artifacts, {"no"})
Pushing == Publishing({"push"}, Artifacts, {"free", "failed", "overtaken"})

Works == {Idle} \cup Running \cup Configuring \cup Layering \cup Filling \cup Checking
           \cup Pushing

PublishTypeOK ==
  /\ dk \in Texts /\ backup \in Texts
  /\ present \subseteq Files
  /\ edits \in Nat /\ latest \in Nat /\ overrides \in Nat /\ commands \in Nat
  /\ tags \in [PackageVersions -> Artifacts \cup {Empty}]
  /\ work \in [Publishers -> Works]

-----------------------------------------------------------------------------
\* What a process is at tells what it works on.
LEMMA CommandPoints ==
  ASSUME NEW w \in Works
  PROVE  /\ w.pc = "config" => w \in Configuring
         /\ w.pc = "manifests" => w \in Layering
         /\ w.pc = "content" => w \in Filling
         /\ w.pc = "check" => w \in Checking
         /\ w.pc = "push" => w \in Pushing
         /\ w.pc \in {"override", "truncate_backup", "backup", "truncate", "merge"} =>
              w \in Running
  BY DEF Works, Idle, Running, Configuring, Layering, Filling, Checking, Pushing, Publishing

\* A process that has seen the directory change is otherwise as it was.
LEMMA Disturbing ==
  ASSUME NEW w \in Works, w # Idle
  PROVE  LET d == [w EXCEPT !.calm = FALSE]
         IN  /\ d \in Works /\ d # Idle /\ d.calm = FALSE
             /\ d.pc = w.pc /\ d.command = w.command
             /\ w.command = "publish" =>
                  d.tag = w.tag /\ d.checked = w.checked /\ d.artifact = w.artifact
             /\ w.command = "run" => d.base = w.base
<1>1. CASE w \in Running
  BY <1>1 DEF Works, Idle, Running
<1>2. CASE w \in Configuring
  BY <1>2 DEF Works, Idle, Configuring, Publishing
<1>3. CASE w \in Layering
  BY <1>3 DEF Works, Idle, Layering, Publishing
<1>4. CASE w \in Filling
  BY <1>4 DEF Works, Idle, Filling, Publishing
<1>5. CASE w \in Checking
  BY <1>5 DEF Works, Idle, Checking, Publishing
<1>6. CASE w \in Pushing
  BY <1>6 DEF Works, Idle, Pushing, Publishing
<1>7. QED
  BY <1>1, <1>2, <1>3, <1>4, <1>5, <1>6 DEF Works

\* The texts of dk.yaml that are written.
LEMMA EmptyText == Empty \in Texts
  BY DEF Empty, Texts

\* A text of dk.yaml that is merged is a text.
LEMMA MergedText ==
  ASSUME NEW d \in Texts
  PROVE  [d EXCEPT !.merged = TRUE] \in Texts
  BY DEF Texts

\* The developer's first text of dk.yaml is a text.
LEMMA FirstText ==
  ASSUME NEW d \in [text : {1}, version : PackageVersions, merged : {FALSE}]
  PROVE  d \in Texts
<1>1. d = [text |-> d.text, version |-> d.version, merged |-> d.merged]
  OBVIOUS
<1>2. d.text \in Nat /\ d.version \in PackageVersions
  OBVIOUS
<1>3. d.merged \in BOOLEAN
  OBVIOUS
<1>4. QED
  BY <1>1, <1>2, <1>3 DEF Texts

\* The types hold at first.
LEMMA InitPublishTypeOK == PublishInit => PublishTypeOK
<1> SUFFICES ASSUME PublishInit PROVE PublishTypeOK
  OBVIOUS
<1>1. dk \in Texts /\ backup \in Texts
  BY EmptyText, FirstText DEF PublishInit
<1>2. tags \in [PackageVersions -> Artifacts \cup {Empty}]
  BY DEF PublishInit
<1>3. work \in [Publishers -> Works]
  BY DEF PublishInit, Works
<1>4. QED
  BY <1>1, <1>2, <1>3 DEF PublishInit, PublishTypeOK

\* Every step keeps the types.
LEMMA NextPublishTypeOK == PublishTypeOK /\ [PublishNext]_publishVars => PublishTypeOK'
<1> SUFFICES ASSUME PublishTypeOK, [PublishNext]_publishVars PROVE PublishTypeOK'
  OBVIOUS
<1> USE DEF PublishTypeOK
<1>0. Disturbed(work) \in [Publishers -> Works]
  BY Disturbing DEF Disturbed, Works
<1>1. ASSUME NEW v \in PackageVersions, EditManifest(v)
      PROVE  PublishTypeOK'
  <2>1. overrides' \in Nat
    <3>1. IsFiniteSet({p \in Publishers : Runs(p, "run")})
      BY PublishAssumption, FS_Subset
    <3>2. Cardinality({p \in Publishers : Runs(p, "run")}) \in Nat
      BY <3>1, FS_CardinalityType
    <3>3. QED
      BY <1>1, <3>2 DEF EditManifest
  <2>2. QED
    BY <1>0, <1>1, <2>1 DEF EditManifest, Texts
<1>2. ASSUME NEW f \in Files, EditFile(f)
      PROVE  PublishTypeOK'
  BY <1>0, <1>2 DEF EditFile
<1>3. ASSUME NEW p \in Publishers, ParseForRun(p)
      PROVE  PublishTypeOK'
  BY <1>3 DEF ParseForRun, BeginCommand, Works, Running, Texts, Empty, registry
<1>4. ASSUME NEW p \in Publishers, ReadBase(p)
      PROVE  PublishTypeOK'
  BY <1>4, CommandPoints DEF ReadBase, At, Works, Running, registry, directory
<1>5. ASSUME NEW p \in Publishers, TruncateBackup(p)
      PROVE  PublishTypeOK'
  BY <1>5, CommandPoints DEF TruncateBackup, At, GoOn, Works, Running, Empty, Texts, registry
<1>6. ASSUME NEW p \in Publishers, WriteBackup(p)
      PROVE  PublishTypeOK'
  BY <1>6, CommandPoints DEF WriteBackup, At, GoOn, Works, Running, registry
<1>7. ASSUME NEW p \in Publishers, Truncate(p)
      PROVE  PublishTypeOK'
  <2>1. work[p] \in Running
    BY <1>7, CommandPoints DEF Truncate, At
  <2>2. Disturbed(work)[p] \in Running
    BY <2>1 DEF Disturbed, Idle, Running
  <2>3. [Disturbed(work)[p] EXCEPT !.pc = "merge"] \in Works
    BY <2>2 DEF Works, Running
  <2>4. work' \in [Publishers -> Works]
    BY <1>0, <1>7, <2>3 DEF Truncate
  <2>5. QED
    BY <1>7, <2>4 DEF Truncate, Empty, Texts, registry
<1>8. ASSUME NEW p \in Publishers, WriteMerged(p)
      PROVE  PublishTypeOK'
  <2>1. work[p].base \in Texts
    BY <1>8, CommandPoints DEF WriteMerged, At, Running
  <2>2. dk' \in Texts
    BY <1>8, <2>1, EmptyText, MergedText DEF WriteMerged
  <2>3. work' \in [Publishers -> Works]
    BY <1>0, <1>8 DEF WriteMerged, Works
  <2>4. QED
    BY <1>8, <2>2, <2>3 DEF WriteMerged, registry
<1>9. ASSUME NEW p \in Publishers, NEW v \in PackageVersions,
             ParseForPublish(p, v, <<p, commands>>)
      PROVE  PublishTypeOK'
  BY <1>9 DEF ParseForPublish, BeginCommand, Works, Configuring, Publishing, Stubs, Stamps,
     registry, directory
<1>10. ASSUME NEW p \in Publishers, Bundle(p)
       PROVE  PublishTypeOK'
  BY <1>10, CommandPoints DEF Bundle, At, Add, End, Works, Configuring, Layering, Publishing, Stubs,
     Configured, registry, directory
<1>11. ASSUME NEW p \in Publishers, CreateManifestLayer(p)
       PROVE  PublishTypeOK'
  <2> DEFINE value == [dk |-> dk, files |-> InSchemas]
  <2>1. work[p] \in Layering /\ value \in Layers
    BY <1>11, CommandPoints DEF CreateManifestLayer, At, Layers, InSchemas
  <2> HIDE DEF value
  <2>2. PICK a \in Layered : work' = [work EXCEPT ![p].pc = "content", ![p].artifact = a]
    <3>1. work[p].artifact \in Configured
      BY <2>1 DEF Layering, Publishing
    <3>2. [x \in DOMAIN work[p].artifact \cup {"manifests"} |->
             IF x = "manifests" THEN value ELSE work[p].artifact[x]] \in Layered
      BY <2>1, <3>1 DEF Configured, Layered
    <3>3. QED
      BY <1>11, <3>2 DEF CreateManifestLayer, Add, value
  <2>3. work' \in [Publishers -> Works]
    BY <2>1, <2>2 DEF Works, Layering, Filling, Publishing
  <2>4. QED
    BY <1>11, <2>3 DEF CreateManifestLayer, registry, directory
<1>12. ASSUME NEW p \in Publishers, CreateContentLayer(p)
       PROVE  PublishTypeOK'
  <2> DEFINE value == {f \in present : Sort[f] = "source"}
  <2>1. work[p] \in Filling /\ value \in SUBSET Files
    BY <1>12, CommandPoints DEF CreateContentLayer, At
  <2> HIDE DEF value
  <2>2. PICK a \in Artifacts : work' = [work EXCEPT ![p].pc = "check", ![p].artifact = a]
    <3>1. work[p].artifact \in Layered
      BY <2>1 DEF Filling, Publishing
    <3>2. [x \in DOMAIN work[p].artifact \cup {"content"} |->
             IF x = "content" THEN value ELSE work[p].artifact[x]] \in Artifacts
      BY <2>1, <3>1 DEF Layered, Artifacts
    <3>3. QED
      BY <1>12, <3>2 DEF CreateContentLayer, Add, value
  <2>3. work' \in [Publishers -> Works]
    BY <2>1, <2>2 DEF Works, Filling, Checking, Publishing
  <2>4. QED
    BY <1>12, <2>3 DEF CreateContentLayer, registry, directory
<1>13. ASSUME NEW p \in Publishers, CheckTag(p)
       PROVE  PublishTypeOK'
  BY <1>13, CommandPoints DEF CheckTag, At, Exists, End, Works, Checking, Pushing, Publishing,
     registry, directory
<1>14. ASSUME NEW p \in Publishers, StopsShort(p)
       PROVE  PublishTypeOK'
  BY <1>14 DEF StopsShort, End, Works, registry, directory
<1>15. ASSUME NEW p \in Publishers, NEW b, PushBlob(p, b)
       PROVE  PublishTypeOK'
  BY <1>15 DEF PushBlob, directory
<1>16. ASSUME NEW p \in Publishers, PushManifest(p)
       PROVE  PublishTypeOK'
  <2>1. work[p].tag \in PackageVersions /\ work[p].artifact \in Artifacts
    BY <1>16, CommandPoints DEF PushManifest, At, Pushing, Publishing
  <2>2. ASSUME NEW q \in Publishers, Runs(q, "publish"), work[q].checked = "free"
        PROVE  [work[q] EXCEPT !.checked = "overtaken"] \in Works
    <3>1. work[q] \in Pushing
      BY <2>2 DEF Runs, Works, Running, Configuring, Layering, Filling, Checking, Publishing
    <3>2. QED
      BY <3>1 DEF Works, Pushing, Publishing
  <2>3. work' \in [Publishers -> Works]
    BY <1>16, <2>2 DEF PushManifest, Works
  <2>4. QED
    BY <1>16, <2>1, <2>3 DEF PushManifest, directory
<1>17. ASSUME NEW p \in Publishers, InterruptPublish(p)
       PROVE  PublishTypeOK'
  BY <1>17 DEF InterruptPublish, End, Works, registry, directory
<1>18. CASE UNCHANGED publishVars
  BY <1>18 DEF publishVars
<1>19. QED
  BY <1>1, <1>2, <1>3, <1>4, <1>5, <1>6, <1>7, <1>8, <1>9, <1>10, <1>11, <1>12, <1>13, <1>14, <1>15,
     <1>16, <1>17, <1>18
  DEF PublishNext, Developer, Run, PublishPackage

\* The types hold in every reachable state.
LEMMA PublishTypeOKHolds == PublishSpec => []PublishTypeOK
<1>1. PublishInit => PublishTypeOK
  BY InitPublishTypeOK
<1>2. PublishTypeOK /\ [PublishNext]_publishVars => PublishTypeOK'
  BY NextPublishTypeOK
<1>3. QED
  BY <1>1, <1>2, PTL DEF PublishSpec

-----------------------------------------------------------------------------
(* Tags. *)

\* An artifact tells by its stamp who has made it.
OwnStamp(p, w) ==
  w.pc \in {"config", "manifests", "content", "check", "push"} => w.artifact.stamp[1] = p

\* A tag that was free is, unless its publisher has been overtaken.
FreeTag(w, names) == w.pc = "push" /\ w.checked = "free" => names[w.tag] = Empty

\* A tag names no artifact before all of its blobs are there.
WholeTags == \A v \in PackageVersions : tags[v] # Empty => BlobsOf(tags[v]) \subseteq blobs

TagsInv ==
  /\ \A p \in Publishers : OwnStamp(p, work[p]) /\ FreeTag(work[p], tags)
  /\ WholeTags

\* The invariant of tags holds of an empty registry.
LEMMA InitTagsInv == PublishInit => TagsInv
  BY DEF PublishInit, TagsInv, OwnStamp, FreeTag, WholeTags, Idle

\* What a disturbed process knows of its tag.
LEMMA DisturbedTags ==
  ASSUME PublishTypeOK, TagsInv, NEW p \in Publishers
  PROVE  OwnStamp(p, Disturbed(work)[p]) /\ FreeTag(Disturbed(work)[p], tags)
<1>1. work[p] \in Works
  BY DEF PublishTypeOK
<1>2. CASE work[p] = Idle
  BY <1>2 DEF Disturbed, OwnStamp, FreeTag, Idle
<1>3. CASE work[p] # Idle
  <2>1. Disturbed(work)[p] = [work[p] EXCEPT !.calm = FALSE]
    BY <1>3 DEF Disturbed
  <2>2. work[p].command = "publish" \/ work[p] \in Running
    BY <1>1, <1>3
    DEF Works, Running, Configuring, Layering, Filling, Checking, Pushing, Publishing
  <2>3. CASE work[p].command = "publish"
    BY <1>1, <1>3, <2>1, <2>3, Disturbing DEF TagsInv, OwnStamp, FreeTag
  <2>4. CASE work[p] \in Running
    BY <2>1, <2>4 DEF Running, OwnStamp, FreeTag
  <2>5. QED
    BY <2>2, <2>3, <2>4
<1>4. QED
  BY <1>2, <1>3

\* Every step keeps the invariant of tags.
LEMMA NextTagsInv == PublishTypeOK /\ TagsInv /\ [PublishNext]_publishVars => TagsInv'
<1> SUFFICES ASSUME PublishTypeOK, TagsInv, [PublishNext]_publishVars PROVE TagsInv'
  OBVIOUS
<1> USE DEF PublishTypeOK, TagsInv
<1>0. \A p \in Publishers :
        OwnStamp(p, Disturbed(work)[p]) /\ FreeTag(Disturbed(work)[p], tags)
  BY DisturbedTags
<1>w. UNCHANGED <<tags, blobs>> => WholeTags'
  BY DEF WholeTags
<1>1. ASSUME NEW v \in PackageVersions, EditManifest(v)
      PROVE  TagsInv'
  BY <1>0, <1>w, <1>1 DEF EditManifest
<1>2. ASSUME NEW f \in Files, EditFile(f)
      PROVE  TagsInv'
  BY <1>0, <1>w, <1>2 DEF EditFile
<1>3. ASSUME NEW p \in Publishers, ParseForRun(p)
      PROVE  TagsInv'
  BY <1>w, <1>3 DEF ParseForRun, BeginCommand, registry, OwnStamp, FreeTag
<1>4. ASSUME NEW p \in Publishers, ReadBase(p)
      PROVE  TagsInv'
  BY <1>w, <1>4, CommandPoints DEF ReadBase, At, Running, registry, OwnStamp, FreeTag
<1>5. ASSUME NEW p \in Publishers, TruncateBackup(p)
      PROVE  TagsInv'
  BY <1>w, <1>5, CommandPoints DEF TruncateBackup, At, GoOn, Running, registry, OwnStamp, FreeTag
<1>6. ASSUME NEW p \in Publishers, WriteBackup(p)
      PROVE  TagsInv'
  BY <1>w, <1>6, CommandPoints DEF WriteBackup, At, GoOn, Running, registry, OwnStamp, FreeTag
<1>7. ASSUME NEW p \in Publishers, Truncate(p)
      PROVE  TagsInv'
  <2>0. work[p] \in Running
    BY <1>7, CommandPoints DEF Truncate, At
  <2>1. Disturbed(work)[p] \in Running
    BY <2>0 DEF Disturbed, Idle, Running
  <2>2. OwnStamp(p, work'[p]) /\ FreeTag(work'[p], tags)
    BY <1>7, <2>1 DEF Truncate, Disturbed, Running, OwnStamp, FreeTag
  <2>3. \A q \in Publishers \ {p} : work'[q] = Disturbed(work)[q]
    BY <1>7 DEF Truncate, Disturbed
  <2>4. QED
    BY <1>0, <1>w, <1>7, <2>2, <2>3 DEF Truncate, registry
<1>8. ASSUME NEW p \in Publishers, WriteMerged(p)
      PROVE  TagsInv'
  <2>1. \A q \in Publishers : work'[q] = Idle \/ work'[q] = Disturbed(work)[q]
    BY <1>8 DEF WriteMerged, Disturbed
  <2>2. QED
    BY <1>0, <1>w, <1>8, <2>1 DEF WriteMerged, registry, OwnStamp, FreeTag, Idle
<1>9. ASSUME NEW p \in Publishers, NEW v \in PackageVersions,
             ParseForPublish(p, v, <<p, commands>>)
      PROVE  TagsInv'
  BY <1>w, <1>9 DEF ParseForPublish, BeginCommand, registry, OwnStamp, FreeTag
<1>10. ASSUME NEW p \in Publishers, Bundle(p)
       PROVE  TagsInv'
  BY <1>w, <1>10, CommandPoints DEF Bundle, At, Add, End, Idle, Configuring, Publishing, Stubs,
     registry, OwnStamp, FreeTag
<1>11. ASSUME NEW p \in Publishers, CreateManifestLayer(p)
       PROVE  TagsInv'
  BY <1>w, <1>11, CommandPoints DEF CreateManifestLayer, At, Add, Layering, Publishing, Configured,
     registry, OwnStamp, FreeTag
<1>12. ASSUME NEW p \in Publishers, CreateContentLayer(p)
       PROVE  TagsInv'
  BY <1>w, <1>12, CommandPoints DEF CreateContentLayer, At, Add, Filling, Publishing, Layered,
     registry, OwnStamp, FreeTag
<1>13. ASSUME NEW p \in Publishers, CheckTag(p)
       PROVE  TagsInv'
  BY <1>w, <1>13, CommandPoints DEF CheckTag, At, Exists, End, Idle, Checking, Publishing,
     registry, OwnStamp, FreeTag
<1>14. ASSUME NEW p \in Publishers, StopsShort(p)
       PROVE  TagsInv'
  BY <1>w, <1>14 DEF StopsShort, End, Idle, registry, OwnStamp, FreeTag
<1>15. ASSUME NEW p \in Publishers, NEW b, PushBlob(p, b)
       PROVE  TagsInv'
  BY <1>15 DEF PushBlob, WholeTags
<1>16. ASSUME NEW p \in Publishers, PushManifest(p)
       PROVE  TagsInv'
  <2>1. WholeTags'
    BY <1>16 DEF PushManifest, WholeTags
  <2>2. ASSUME NEW q \in Publishers
        PROVE  OwnStamp(q, work'[q]) /\ FreeTag(work'[q], tags')
    <3>1. work[p] \in Pushing /\ work[q] \in Works
      BY <1>16, CommandPoints DEF PushManifest, At
    <3>2. CASE q = p
      BY <1>16, <3>2 DEF PushManifest, Idle, OwnStamp, FreeTag
    <3>3. CASE q # p /\ work[q].pc = "push"
      <4>1. work[q] \in Pushing
        BY <3>1, <3>3, CommandPoints
      <4>2. Runs(q, "publish")
        BY <4>1, <3>3 DEF Runs, Idle, Pushing, Publishing
      <4>3. QED
        BY <1>16, <3>1, <3>3, <4>1, <4>2
        DEF PushManifest, Pushing, Publishing, OwnStamp, FreeTag
    <3>4. CASE q # p /\ work[q].pc # "push"
      <4>1. work'[q] = work[q]
        BY <1>16, <3>1, <3>4
        DEF PushManifest, Runs, Works, Running, Configuring, Layering, Filling, Checking,
            Pushing, Publishing
      <4>2. QED
        BY <3>4, <4>1 DEF OwnStamp, FreeTag
    <3>5. QED
      BY <3>2, <3>3, <3>4
  <2>3. QED
    BY <2>1, <2>2
<1>17. ASSUME NEW p \in Publishers, InterruptPublish(p)
       PROVE  TagsInv'
  BY <1>w, <1>17 DEF InterruptPublish, End, Idle, registry, OwnStamp, FreeTag
<1>18. CASE UNCHANGED publishVars
  BY <1>18 DEF publishVars, WholeTags
<1>19. QED
  BY <1>1, <1>2, <1>3, <1>4, <1>5, <1>6, <1>7, <1>8, <1>9, <1>10, <1>11, <1>12, <1>13, <1>14, <1>15,
     <1>16, <1>17, <1>18
  DEF PublishNext, Developer, Run, PublishPackage

\* Types and the invariant of tags hold in every reachable state.
LEMMA TagsInvHolds == PublishSpec => [](PublishTypeOK /\ TagsInv)
<1>1. PublishInit => PublishTypeOK /\ TagsInv
  BY InitPublishTypeOK, InitTagsInv
<1>2. PublishTypeOK /\ TagsInv /\ [PublishNext]_publishVars => (PublishTypeOK /\ TagsInv)'
  BY NextPublishTypeOK, NextTagsInv
<1>3. QED
  BY <1>1, <1>2, PTL DEF PublishSpec

\* Only the push of a manifest changes what a tag names.
LEMMA OnlyPushesTag ==
  ASSUME [PublishNext]_publishVars, tags' # tags
  PROVE  \E p \in Publishers : PushManifest(p)
  BY DEF PublishNext, publishVars, Developer, EditManifest, EditFile, Run, ParseForRun, ReadBase,
    TruncateBackup, WriteBackup, Truncate, WriteMerged, PublishPackage, ParseForPublish, Bundle,
    CreateManifestLayer, CreateContentLayer, CheckTag, StopsShort, PushBlob, InterruptPublish,
    registry

\* "Tag immutability is enforced", as far as it is: a tag that names an artifact
\* comes to name another only by a publisher that could not ask the registry, or that
\* another one has overtaken since it asked.
THEOREM TagsAreImmutableHolds == PublishSpec => TagsAreImmutable
<1> DEFINE Immutable ==
      \A v \in PackageVersions : tags[v] # Empty /\ tags'[v] # tags[v] =>
        \E p \in Publishers : work[p] # Idle /\ work'[p] = Idle /\ work[p].tag = v
                               /\ work[p].checked \in {"failed", "overtaken"}
<1>1. PublishTypeOK /\ TagsInv /\ [PublishNext]_publishVars => Immutable
  <2> SUFFICES ASSUME PublishTypeOK, TagsInv, [PublishNext]_publishVars,
                      NEW v \in PackageVersions, tags[v] # Empty, tags'[v] # tags[v]
               PROVE  \E p \in Publishers :
                        work[p] # Idle /\ work'[p] = Idle /\ work[p].tag = v
                        /\ work[p].checked \in {"failed", "overtaken"}
    OBVIOUS
  <2>1. PICK p \in Publishers : PushManifest(p)
    BY OnlyPushesTag
  <2>2. work[p] \in Pushing /\ work[p] # Idle /\ work'[p] = Idle
    BY <2>1, CommandPoints DEF PushManifest, At, PublishTypeOK
  <2>3. work[p].tag = v
    BY <2>1, <2>2 DEF PushManifest, PublishTypeOK
  <2>4. work[p].checked # "free"
    BY <2>2, <2>3 DEF TagsInv, FreeTag, Pushing, Publishing
  <2>5. QED
    BY <2>2, <2>3, <2>4 DEF Pushing, Publishing
<1>2. QED
  BY <1>1, TagsInvHolds, PTL DEF PublishSpec, TagsAreImmutable

-----------------------------------------------------------------------------
(* Publishing implements Registry. *)

\* Every tag that names an artifact names it for readers: nothing is missing.
LEMMA NamedIsTags ==
  ASSUME PublishTypeOK, TagsInv
  PROVE  Named = tags
  BY DEF PublishTypeOK, TagsInv, WholeTags, Named

\* After a step, too, every tag names a whole artifact.
LEMMA NamedIsTagsNext ==
  ASSUME PublishTypeOK', TagsInv'
  PROVE  Named' = tags'
  BY DEF PublishTypeOK, TagsInv, WholeTags, Named

\* No two publishers have the same offer.
LEMMA OffersDiffer ==
  ASSUME PublishTypeOK, TagsInv, NEW p \in Publishers, NEW q \in Publishers,
         At(p, "push"), At(q, "push"), work[p].artifact = work[q].artifact
  PROVE  p = q
  BY DEF At, TagsInv, OwnStamp

\* The offers stay as long as those who push go on.
LEMMA OffersStay ==
  ASSUME \A q \in Publishers :
           /\ At(q, "push")' <=> At(q, "push")
           /\ At(q, "push") => work'[q].tag = work[q].tag
                              /\ work'[q].artifact = work[q].artifact
  PROVE  Offers' = Offers
  BY DEF Offers

\* A publisher that leaves the push takes its offer along.
LEMMA OfferLeaves ==
  ASSUME PublishTypeOK, TagsInv, NEW p \in Publishers, At(p, "push"), ~ At(p, "push")',
         \A q \in Publishers \ {p} :
           /\ At(q, "push")' <=> At(q, "push")
           /\ At(q, "push") => work'[q].tag = work[q].tag
                              /\ work'[q].artifact = work[q].artifact
  PROVE  /\ <<work[p].tag, work[p].artifact>> \in Offers
         /\ Offers' = Offers \ {<<work[p].tag, work[p].artifact>>}
<1>1. <<work[p].tag, work[p].artifact>> \in Offers
  BY DEF Offers
<1>2. \A q \in Publishers \ {p} : At(q, "push") =>
        <<work[q].tag, work[q].artifact>> # <<work[p].tag, work[p].artifact>>
  BY OffersDiffer
<1>3. Offers' = Offers \ {<<work[p].tag, work[p].artifact>>}
  BY <1>2 DEF Offers
<1>4. QED
  BY <1>1, <1>3

\* What a step in which one process moves on, without a push, does to the offers.
LEMMA OthersMove ==
  ASSUME PublishTypeOK, NEW p \in Publishers, ~ At(p, "push"), ~ At(p, "push")',
         \A q \in Publishers \ {p} : work'[q] \in {work[q], Disturbed(work)[q]}
  PROVE  Offers' = Offers
<1>1. ASSUME NEW q \in Publishers \ {p}
      PROVE  /\ At(q, "push")' <=> At(q, "push")
             /\ At(q, "push") => work'[q].tag = work[q].tag
                                /\ work'[q].artifact = work[q].artifact
  <2>1. work[q] \in Works
    BY DEF PublishTypeOK
  <2>2. CASE work[q] = Idle
    BY <2>2 DEF Disturbed, At
  <2>3. CASE work[q] # Idle
    <3>1. work[q].pc = "push" => work[q].command = "publish"
      BY <2>1, CommandPoints DEF Pushing, Publishing
    <3>2. QED
      BY <2>1, <2>3, <3>1, Disturbing DEF Disturbed, At
  <2>4. QED
    BY <2>2, <2>3
<1>2. QED
  BY <1>1, OffersStay

\* A new registry is one of the abstract specification.
LEMMA InitRegistry == PublishInit => R!RegistryInit
<1> SUFFICES ASSUME PublishInit PROVE Named = [v \in PackageVersions |-> Empty] /\ Offers = {}
  BY DEF R!RegistryInit
<1>1. Named = [v \in PackageVersions |-> Empty]
  BY DEF PublishInit, Named
<1>2. Offers = {}
  BY DEF PublishInit, Offers, At
<1>3. QED
  BY <1>1, <1>2

\* Each step of publishing is an offer, a withdrawal or a release, or changes neither
\* what readers find nor who offers what.
LEMMA NextRegistry ==
  ASSUME PublishTypeOK, TagsInv, PublishTypeOK', TagsInv', [PublishNext]_publishVars
  PROVE  R!Offer \/ R!Withdraw \/ R!Release \/ UNCHANGED <<Named, Offers>>
<1> DEFINE Step == R!Offer \/ R!Withdraw \/ R!Release \/ UNCHANGED <<Named, Offers>>
<1>0. Named = tags /\ Named' = tags'
  BY NamedIsTags, NamedIsTagsNext
<1>1. ASSUME Developer
      PROVE  Step
  <2>1. work' = Disturbed(work) /\ tags' = tags
    BY <1>1 DEF Developer, EditManifest, EditFile
  <2>2. ASSUME NEW q \in Publishers
        PROVE  /\ At(q, "push")' <=> At(q, "push")
               /\ At(q, "push") => work'[q].tag = work[q].tag
                                  /\ work'[q].artifact = work[q].artifact
    <3>1. work[q] \in Works
      BY DEF PublishTypeOK
    <3>2. CASE work[q] = Idle
      BY <2>1, <3>2 DEF Disturbed, At
    <3>3. CASE work[q] # Idle
      <4>1. work[q].pc = "push" => work[q].command = "publish"
        BY <3>1, CommandPoints DEF Pushing, Publishing
      <4>2. QED
        BY <2>1, <3>1, <3>3, <4>1, Disturbing DEF Disturbed, At
    <3>4. QED
      BY <3>2, <3>3
  <2>3. QED
    BY <1>0, <2>1, <2>2, OffersStay
<1>2. ASSUME NEW p \in Publishers, Run(p)
      PROVE  Step
  <2>1. tags' = tags
    BY <1>2 DEF Run, ParseForRun, ReadBase, TruncateBackup, WriteBackup, Truncate, WriteMerged,
       registry
  <2>2. ~ At(p, "push")
    BY <1>2 DEF Run, ParseForRun, ReadBase, TruncateBackup, WriteBackup, Truncate, WriteMerged,
       At, BeginCommand, Idle
  <2>3. ~ At(p, "push")'
    <3>1. work[p] = Idle \/ work[p] \in Running
      BY <1>2, CommandPoints
      DEF Run, ParseForRun, ReadBase, TruncateBackup, WriteBackup, Truncate, WriteMerged,
         At, BeginCommand, PublishTypeOK
    <3>2. Disturbed(work)[p] = Idle \/ Disturbed(work)[p] \in Running
      BY <3>1 DEF Disturbed, Running
    <3>3. CASE Truncate(p)
      BY <3>1, <3>2, <3>3 DEF Truncate, Disturbed, At, Idle, Running, PublishTypeOK
    <3>4. CASE ~ Truncate(p)
      BY <1>2, <3>1, <3>4
      DEF Run, ParseForRun, ReadBase, TruncateBackup, WriteBackup, WriteMerged,
          At, BeginCommand, GoOn, Idle, Running, PublishTypeOK
    <3>5. QED
      BY <3>3, <3>4
  <2>4. \A q \in Publishers \ {p} : work'[q] \in {work[q], Disturbed(work)[q]}
    BY <1>2 DEF Run, ParseForRun, ReadBase, TruncateBackup, WriteBackup, Truncate, WriteMerged,
       BeginCommand, GoOn, Disturbed, PublishTypeOK
  <2>5. QED
    BY <1>0, <2>1, <2>2, <2>3, <2>4, OthersMove
<1>3. ASSUME NEW p \in Publishers,
             \/ \E v \in PackageVersions : ParseForPublish(p, v, <<p, commands>>)
             \/ Bundle(p) \/ CreateManifestLayer(p) \/ CreateContentLayer(p)
      PROVE  Step
  <2>1. tags' = tags
    BY <1>3 DEF ParseForPublish, Bundle, CreateManifestLayer, CreateContentLayer, registry
  <2>2. ~ At(p, "push") /\ ~ At(p, "push")'
    <3>1. CASE \E v \in PackageVersions : ParseForPublish(p, v, <<p, commands>>)
      BY <3>1 DEF ParseForPublish, BeginCommand, At, PublishTypeOK
    <3>2. CASE Bundle(p)
      <4>1. At(p, "config") /\ work[p] \in Configuring
        BY <3>2, CommandPoints DEF Bundle, At, PublishTypeOK
      <4>2. QED
        BY <3>2, <4>1 DEF Bundle, Add, End, At, Configuring, Publishing, PublishTypeOK
    <3>3. CASE CreateManifestLayer(p)
      <4>1. At(p, "manifests") /\ work[p] \in Layering
        BY <3>3, CommandPoints DEF CreateManifestLayer, At, PublishTypeOK
      <4>2. QED
        BY <3>3, <4>1 DEF CreateManifestLayer, Add, At, Layering, Publishing, PublishTypeOK
    <3>4. CASE CreateContentLayer(p)
      <4>1. At(p, "content") /\ work[p] \in Filling
        BY <3>4, CommandPoints DEF CreateContentLayer, At, PublishTypeOK
      <4>2. QED
        BY <3>4, <4>1 DEF CreateContentLayer, Add, At, Filling, Publishing, PublishTypeOK
    <3>5. QED
      BY <1>3, <3>1, <3>2, <3>3, <3>4
  <2>3. \A q \in Publishers \ {p} : work'[q] = work[q]
    BY <1>3 DEF ParseForPublish, Bundle, CreateManifestLayer, CreateContentLayer, BeginCommand,
       Add, End, PublishTypeOK
  <2>4. QED
    BY <1>0, <2>1, <2>2, <2>3, OthersMove
<1>4. ASSUME NEW p \in Publishers, CheckTag(p)
      PROVE  Step
  <2>1. tags' = tags /\ At(p, "check") /\ work[p] \in Checking
    BY <1>4, CommandPoints DEF CheckTag, registry, At, PublishTypeOK
  <2>2. \A q \in Publishers \ {p} : work'[q] = work[q]
    BY <1>4 DEF CheckTag, End, PublishTypeOK
  <2>3. CASE work'[p] = Idle
    <3>1. ~ At(p, "push") /\ ~ At(p, "push")'
      BY <2>1, <2>3 DEF At
    <3>2. QED
      BY <1>0, <2>1, <2>2, <3>1, OthersMove
  <2>4. CASE work'[p] # Idle
    <3>1. /\ work'[p].pc = "push" /\ work'[p].tag = work[p].tag
          /\ work'[p].artifact = work[p].artifact
      BY <1>4, <2>1, <2>4 DEF CheckTag, End, Checking, Publishing, PublishTypeOK
    <3>2. Offers' = Offers \cup {<<work[p].tag, work[p].artifact>>}
      BY <2>1, <2>2, <2>4, <3>1 DEF Offers, At
    <3>3. work[p].tag \in PackageVersions /\ work[p].artifact # Empty
      BY <2>1 DEF Checking, Publishing, Artifacts, Empty
    <3>4. R!Offer
      <4> DEFINE o == <<work[p].tag, work[p].artifact>>
      <4>1. o \in Offers' /\ o[1] \in PackageVersions /\ o[2] # Empty
        BY <3>2, <3>3
      <4>2. QED
        BY <1>0, <2>1, <3>2, <4>1 DEF R!Offer
    <3>5. QED
      BY <3>4
  <2>5. QED
    BY <2>3, <2>4
<1>5. ASSUME NEW p \in Publishers, StopsShort(p) \/ InterruptPublish(p)
      PROVE  Step
  <2>1. /\ tags' = tags /\ ~ At(p, "push")'
        /\ \A q \in Publishers \ {p} : work'[q] = work[q]
    BY <1>5 DEF StopsShort, InterruptPublish, End, At, registry, PublishTypeOK
  <2>2. CASE At(p, "push")
    <3>1. /\ <<work[p].tag, work[p].artifact>> \in Offers
          /\ Offers' = Offers \ {<<work[p].tag, work[p].artifact>>}
      BY <2>1, <2>2, OfferLeaves DEF At
    <3>2. QED
      BY <1>0, <2>1, <3>1 DEF R!Withdraw
  <2>3. CASE ~ At(p, "push")
    BY <1>0, <2>1, <2>3, OthersMove
  <2>4. QED
    BY <2>2, <2>3
<1>6. ASSUME NEW p \in Publishers, NEW b, PushBlob(p, b)
      PROVE  Step
  BY <1>0, <1>6 DEF PushBlob, Offers, At
<1>7. ASSUME NEW p \in Publishers, PushManifest(p)
      PROVE  Step
  <2>1. At(p, "push") /\ ~ At(p, "push")'
    BY <1>7 DEF PushManifest, At
  <2>2. ASSUME NEW q \in Publishers \ {p}
        PROVE  /\ At(q, "push")' <=> At(q, "push")
               /\ At(q, "push") => work'[q].tag = work[q].tag
                                  /\ work'[q].artifact = work[q].artifact
    <3>1. work[q] \in Works
      BY DEF PublishTypeOK
    <3>2. work'[q] \in {work[q], [work[q] EXCEPT !.checked = "overtaken"]}
      BY <1>7 DEF PushManifest
    <3>3. CASE work[q] \in Pushing
      BY <3>2, <3>3 DEF At, Idle, Pushing, Publishing
    <3>4. CASE work[q] \notin Pushing
      <4>1. work[q].pc # "push"
        BY <3>1, <3>4, CommandPoints
      <4>2. work'[q] = work[q]
        BY <1>7, <3>1, <3>4
        DEF PushManifest, Runs, Works, Running, Configuring, Layering, Filling, Checking,
            Publishing
      <4>3. QED
        BY <4>1, <4>2 DEF At
    <3>5. QED
      BY <3>3, <3>4
  <2>3. /\ <<work[p].tag, work[p].artifact>> \in Offers
        /\ Offers' = Offers \ {<<work[p].tag, work[p].artifact>>}
    BY <2>1, <2>2, OfferLeaves
  <2>4. tags' = [tags EXCEPT ![work[p].tag] = work[p].artifact]
    BY <1>7 DEF PushManifest
  <2>5. R!Release
    BY <1>0, <2>3, <2>4 DEF R!Release
  <2>6. QED
    BY <2>5
<1>8. CASE UNCHANGED publishVars
  BY <1>0, <1>8 DEF publishVars, Offers, At
<1>9. QED
  BY <1>1, <1>2, <1>3, <1>4, <1>5, <1>6, <1>7, <1>8 DEF PublishNext, PublishPackage

\* Publishing implements Registry: a tag names nothing or a whole artifact that was
\* made for it, and goes from one to the other at once.
THEOREM PublishesWholeHolds == PublishSpec => PublishesWhole
<1>1. PublishInit => R!RegistryInit
  BY InitRegistry
<1>2. /\ PublishTypeOK /\ TagsInv /\ (PublishTypeOK /\ TagsInv)'
      /\ [PublishNext]_publishVars
      => [R!Offer \/ R!Withdraw \/ R!Release]_R!registryVars
  BY NextRegistry DEF R!registryVars
<1>3. QED
  BY <1>1, <1>2, TagsInvHolds, PTL DEF PublishSpec, PublishesWhole, R!RegistrySpec

-----------------------------------------------------------------------------
(* Bundles. *)

\* What a publisher that has seen no change has read is what there is.
CalmBundle(w) ==
  w.pc \in {"manifests", "content", "check", "push"} /\ w.calm =>
    /\ w.artifact.config = dk
    /\ w.pc # "manifests" => w.artifact.manifests = [dk |-> dk, files |-> InSchemas]
    /\ w.pc \in {"check", "push"} =>
         w.artifact.content = {f \in present : Sort[f] = "source"}

BundlesInv == \A p \in Publishers : CalmBundle(work[p])

\* The invariant of bundles holds before any bundling.
LEMMA InitBundlesInv == PublishInit => BundlesInv
  BY DEF PublishInit, BundlesInv, CalmBundle, Idle

\* Nobody is calm after a change.
LEMMA NoneCalm ==
  ASSUME PublishTypeOK, NEW p \in Publishers,
         work'[p] = Idle \/ work'[p] = Disturbed(work)[p]
  PROVE  CalmBundle(work[p])'
<1>1. work[p] \in Works
  BY DEF PublishTypeOK
<1>2. CASE work'[p] = Idle
  BY <1>2 DEF CalmBundle, Idle
<1>3. CASE work'[p] # Idle
  <2>1. work'[p] = [work[p] EXCEPT !.calm = FALSE] /\ work[p] # Idle
    BY <1>3 DEF Disturbed
  <2>2. work'[p].calm = FALSE
    BY <1>1, <2>1, Disturbing
  <2>3. QED
    BY <2>2 DEF CalmBundle
<1>4. QED
  BY <1>2, <1>3

\* Every step keeps the invariant of bundles.
LEMMA NextBundlesInv == PublishTypeOK /\ BundlesInv /\ [PublishNext]_publishVars => BundlesInv'
<1> SUFFICES ASSUME PublishTypeOK, BundlesInv, [PublishNext]_publishVars,
                    NEW q \in Publishers
             PROVE  CalmBundle(work[q])'
  BY DEF BundlesInv
<1>0. CalmBundle(work[q]) /\ work[q] \in Works
  BY DEF BundlesInv, PublishTypeOK
<1>s. UNCHANGED <<dk, present>> /\ work'[q] = work[q] => CalmBundle(work[q])'
  BY <1>0 DEF CalmBundle, InSchemas
<1>1. ASSUME Developer
      PROVE  CalmBundle(work[q])'
  BY <1>1, NoneCalm DEF Developer, EditManifest, EditFile
<1>2. ASSUME NEW p \in Publishers, Run(p)
      PROVE  CalmBundle(work[q])'
  <2>1. CASE Truncate(p)
    <3>1. CASE q = p
      <4>1. work[p] \in Running
        BY <1>0, <2>1, <3>1, CommandPoints DEF Truncate, At
      <4>2. Disturbed(work)[p] \in Running
        BY <4>1 DEF Disturbed, Running
      <4>3. work'[p].pc = "merge"
        BY <2>1, <4>2 DEF Truncate, Disturbed, Running
      <4>4. QED
        BY <3>1, <4>3 DEF CalmBundle
    <3>2. CASE q # p
      BY <2>1, <3>2, NoneCalm DEF Truncate, Disturbed
    <3>3. QED
      BY <3>1, <3>2
  <2>2. CASE WriteMerged(p)
    <3>1. work'[q] = Idle \/ work'[q] = Disturbed(work)[q]
      BY <2>2 DEF WriteMerged, Disturbed
    <3>2. QED
      BY <3>1, NoneCalm
  <2>3. CASE ~ Truncate(p) /\ ~ WriteMerged(p)
    <3>1. UNCHANGED <<dk, present>>
      BY <1>2, <2>3 DEF Run, ParseForRun, ReadBase, TruncateBackup, WriteBackup, registry,
         directory
    <3>2. CASE q = p
      <4>1. work[p] = Idle \/ work[p] \in Running
        BY <1>0, <1>2, <2>3, <3>2, CommandPoints
        DEF Run, ParseForRun, ReadBase, TruncateBackup, WriteBackup, At, BeginCommand
      <4>2. work'[p].pc \in {"override", "truncate_backup", "backup", "truncate"}
        BY <1>2, <2>3, <4>1
        DEF Run, ParseForRun, ReadBase, TruncateBackup, WriteBackup, At, BeginCommand,
            GoOn, Idle, Running, PublishTypeOK
      <4>3. QED
        BY <3>2, <4>2 DEF CalmBundle
    <3>3. CASE q # p
      <4>1. work'[q] = work[q]
        BY <1>2, <2>3, <3>3
        DEF Run, ParseForRun, ReadBase, TruncateBackup, WriteBackup, BeginCommand, GoOn,
            PublishTypeOK
      <4>2. QED
        BY <1>s, <3>1, <4>1
    <3>4. QED
      BY <3>2, <3>3
  <2>4. QED
    BY <2>1, <2>2, <2>3
<1>3. ASSUME NEW p \in Publishers, NEW v \in PackageVersions,
             ParseForPublish(p, v, <<p, commands>>)
      PROVE  CalmBundle(work[q])'
  <2>1. CASE q = p
    BY <1>3, <2>1 DEF ParseForPublish, BeginCommand, CalmBundle, PublishTypeOK
  <2>2. CASE q # p
    BY <1>s, <1>3, <2>2 DEF ParseForPublish, BeginCommand, directory, PublishTypeOK
  <2>3. QED
    BY <2>1, <2>2
<1>4. ASSUME NEW p \in Publishers, Bundle(p)
      PROVE  CalmBundle(work[q])'
  <2>1. CASE q = p
    <3>1. work[p] \in Configuring
      BY <1>4, CommandPoints DEF Bundle, At, PublishTypeOK
    <3>2. QED
      BY <1>4, <2>1, <3>1
      DEF Bundle, Add, End, Idle, CalmBundle, Configuring, Publishing, Stubs, directory,
          PublishTypeOK
  <2>2. CASE q # p
    BY <1>s, <1>4, <2>2 DEF Bundle, Add, End, directory, PublishTypeOK
  <2>3. QED
    BY <2>1, <2>2
<1>5. ASSUME NEW p \in Publishers, CreateManifestLayer(p)
      PROVE  CalmBundle(work[q])'
  <2>1. CASE q = p
    <3>1. work[p] \in Layering /\ At(p, "manifests")
      BY <1>5, CommandPoints DEF CreateManifestLayer, At, PublishTypeOK
    <3>2. QED
      BY <1>0, <1>5, <2>1, <3>1
      DEF CreateManifestLayer, Add, At, CalmBundle, Layering, Publishing, Configured, directory,
          InSchemas, PublishTypeOK
  <2>2. CASE q # p
    BY <1>s, <1>5, <2>2 DEF CreateManifestLayer, Add, directory, PublishTypeOK
  <2>3. QED
    BY <2>1, <2>2
<1>6. ASSUME NEW p \in Publishers, CreateContentLayer(p)
      PROVE  CalmBundle(work[q])'
  <2>1. CASE q = p
    <3>1. work[p] \in Filling /\ At(p, "content")
      BY <1>6, CommandPoints DEF CreateContentLayer, At, PublishTypeOK
    <3>2. QED
      BY <1>0, <1>6, <2>1, <3>1
      DEF CreateContentLayer, Add, At, CalmBundle, Filling, Publishing, Layered, directory,
          InSchemas, PublishTypeOK
  <2>2. CASE q # p
    BY <1>s, <1>6, <2>2 DEF CreateContentLayer, Add, directory, PublishTypeOK
  <2>3. QED
    BY <2>1, <2>2
<1>7. ASSUME NEW p \in Publishers, CheckTag(p)
      PROVE  CalmBundle(work[q])'
  <2>1. CASE q = p
    <3>1. work[p] \in Checking /\ At(p, "check")
      BY <1>7, CommandPoints DEF CheckTag, At, PublishTypeOK
    <3>2. QED
      BY <1>0, <1>7, <2>1, <3>1
      DEF CheckTag, End, Idle, At, CalmBundle, Checking, Publishing, directory, InSchemas,
          PublishTypeOK
  <2>2. CASE q # p
    BY <1>s, <1>7, <2>2 DEF CheckTag, End, directory, PublishTypeOK
  <2>3. QED
    BY <2>1, <2>2
<1>8. ASSUME NEW p \in Publishers, StopsShort(p) \/ InterruptPublish(p)
      PROVE  CalmBundle(work[q])'
  <2>1. CASE q = p
    BY <1>8, <2>1
    DEF StopsShort, InterruptPublish, End, Idle, CalmBundle, PublishTypeOK
  <2>2. CASE q # p
    BY <1>s, <1>8, <2>2 DEF StopsShort, InterruptPublish, End, directory, PublishTypeOK
  <2>3. QED
    BY <2>1, <2>2
<1>9. ASSUME NEW p \in Publishers, NEW b, PushBlob(p, b)
      PROVE  CalmBundle(work[q])'
  BY <1>s, <1>9 DEF PushBlob, directory
<1>10. ASSUME NEW p \in Publishers, PushManifest(p)
       PROVE  CalmBundle(work[q])'
  <2>1. work'[q] \in {Idle, work[q], [work[q] EXCEPT !.checked = "overtaken"]}
    BY <1>10 DEF PushManifest
  <2>2. CASE work'[q] \in {Idle, work[q]}
    BY <1>s, <1>10, <2>2 DEF PushManifest, directory, CalmBundle, Idle
  <2>3. CASE work'[q] # work[q] /\ work'[q] # Idle
    <3>1. work[q] \in Pushing
      BY <1>0, <1>10, <2>3
      DEF PushManifest, Runs, Works, Running, Configuring, Layering, Filling, Checking,
          Publishing
    <3>2. QED
      BY <1>0, <1>10, <2>1, <2>3, <3>1
      DEF PushManifest, directory, CalmBundle, InSchemas, Pushing, Publishing
  <2>4. QED
    BY <2>2, <2>3
<1>11. CASE UNCHANGED publishVars
  BY <1>s, <1>11 DEF publishVars
<1>12. QED
  BY <1>1, <1>2, <1>3, <1>4, <1>5, <1>6, <1>7, <1>8, <1>9, <1>10, <1>11
  DEF PublishNext, PublishPackage

\* What is bundled while the directory is at rest is whole: one text of dk.yaml, and
\* every file that is not left out in exactly one layer.
THEOREM CalmBundlesAreWholeHolds == PublishSpec => []CalmBundlesAreWhole
<1>1. PublishTypeOK /\ BundlesInv => CalmBundlesAreWhole
  <2> SUFFICES ASSUME PublishTypeOK, BundlesInv, NEW p \in Publishers, work[p] # Idle,
                      work[p].pc \in {"check", "push"}, work[p].calm
               PROVE  LET a == work[p].artifact
                      IN  /\ a.manifests.dk = a.config
                          /\ a.manifests.files \cap a.content = {}
                          /\ a.manifests.files \cup a.content =
                               {f \in present : Sort[f] \in {"source", "schemas"}}
    BY DEF CalmBundlesAreWhole
  <2>1. /\ work[p].artifact.config = dk
        /\ work[p].artifact.manifests = [dk |-> dk, files |-> InSchemas]
        /\ work[p].artifact.content = {f \in present : Sort[f] = "source"}
    BY DEF BundlesInv, CalmBundle
  <2>2. QED
    BY <2>1 DEF InSchemas
<1>2. PublishInit => BundlesInv
  BY InitBundlesInv
<1>3. PublishTypeOK /\ BundlesInv /\ [PublishNext]_publishVars => BundlesInv'
  BY NextBundlesInv
<1>4. QED
  BY <1>1, <1>2, <1>3, PublishTypeOKHolds, PTL DEF PublishSpec

-----------------------------------------------------------------------------
(* dk.yaml and its backup. *)

Good(file, n) == file.text = n /\ ~file.merged

\* Where the text is, by what a run with overrides is at.
KeepsText(w) ==
  w \in Running =>
    /\ w.pc \in {"override", "truncate_backup", "backup"} => Good(dk, latest)
    /\ w.pc \in {"truncate_backup", "backup", "truncate"} => Good(w.base, latest)
    /\ w.pc \in {"truncate", "merge"} => Good(backup, latest)

NoneRuns == \A p \in Publishers : work[p] \notin Running

\* At most one run with overrides begins, or it does not matter.
TextInv ==
  /\ overrides = 0 => Good(dk, latest) /\ NoneRuns
  /\ overrides = 1 =>
       /\ \A p, q \in Publishers : work[p] \in Running /\ work[q] \in Running => p = q
       /\ \A p \in Publishers : KeepsText(work[p])
       /\ NoneRuns => Good(dk, latest) \/ Good(backup, latest)

\* The processes that run are those in Running, undisturbed or disturbed.
LEMMA WhoRuns ==
  ASSUME PublishTypeOK, NEW p \in Publishers
  PROVE  /\ Runs(p, "run") <=> work[p] \in Running
         /\ Disturbed(work)[p] \in Running <=> work[p] \in Running
         /\ work[p] \in Running => /\ Disturbed(work)[p].pc = work[p].pc
                                  /\ Disturbed(work)[p].base = work[p].base
<1>1. work[p] \in Works
  BY DEF PublishTypeOK
<1>2. Runs(p, "run") <=> work[p] \in Running
  BY <1>1 DEF Runs, Works, Idle, Running, Configuring, Layering, Filling, Checking, Pushing,
     Publishing
<1>3. CASE work[p] = Idle
  BY <1>2, <1>3 DEF Disturbed
<1>4. CASE work[p] # Idle
  <2>1. Disturbed(work)[p] = [work[p] EXCEPT !.calm = FALSE]
    BY <1>4 DEF Disturbed
  <2>2. CASE work[p] \in Running
    BY <1>2, <2>1, <2>2 DEF Running
  <2>3. CASE work[p] \notin Running
    <3>1. work[p].command # "run"
      BY <1>2, <1>4, <2>3 DEF Runs
    <3>2. Disturbed(work)[p].command # "run"
      BY <1>1, <1>4, <2>1, <3>1, Disturbing
    <3>3. QED
      BY <1>2, <2>3, <3>2 DEF Running
  <2>4. QED
    BY <2>2, <2>3
<1>5. QED
  BY <1>2, <1>3, <1>4

\* The invariant of the text holds before any command.
LEMMA InitTextInv == PublishInit => TextInv
<1> SUFFICES ASSUME PublishInit PROVE TextInv
  OBVIOUS
<1>1. Good(dk, latest)
  BY DEF PublishInit, Good
<1>2. NoneRuns
  BY DEF PublishInit, NoneRuns, Idle, Running
<1>3. QED
  BY <1>1, <1>2 DEF PublishInit, TextInv

\* Steps that change neither dk.yaml nor who runs with overrides.
LEMMA TextStays ==
  ASSUME TextInv, UNCHANGED <<dk, backup, latest, overrides>>,
         \A q \in Publishers :
           /\ work'[q] \in Running <=> work[q] \in Running
           /\ work[q] \in Running => work'[q].pc = work[q].pc /\ work'[q].base = work[q].base
  PROVE  TextInv'
  BY DEF TextInv, NoneRuns, KeepsText

\* Every step keeps the invariant of the text.
LEMMA NextTextInv ==
  PublishTypeOK /\ PublishTypeOK' /\ TextInv /\ [PublishNext]_publishVars => TextInv'
<1> SUFFICES ASSUME PublishTypeOK, PublishTypeOK', TextInv, [PublishNext]_publishVars
             PROVE  TextInv'
  OBVIOUS
<1>1. ASSUME NEW v \in PackageVersions, EditManifest(v)
      PROVE  TextInv'
  <2> DEFINE runs == {p \in Publishers : Runs(p, "run")}
  <2>1. IsFiniteSet(runs)
    BY PublishAssumption, FS_Subset
  <2>2. Cardinality(runs) \in Nat /\ (Cardinality(runs) = 0 <=> runs = {})
    BY <2>1, FS_CardinalityType, FS_EmptySet
  <2>3. overrides' # 1
    BY <1>1, <2>2 DEF EditManifest
  <2>4. overrides' = 0 => NoneRuns
    BY <1>1, <2>2, WhoRuns DEF EditManifest, NoneRuns
  <2>5. NoneRuns => NoneRuns'
    BY <1>1, WhoRuns DEF EditManifest, NoneRuns
  <2>6. Good(dk, latest)'
    BY <1>1 DEF EditManifest, Good
  <2>7. QED
    BY <2>3, <2>4, <2>5, <2>6 DEF TextInv
<1>2. ASSUME NEW f \in Files, EditFile(f)
      PROVE  TextInv'
  BY <1>2, WhoRuns, TextStays DEF EditFile
<1>3. ASSUME NEW p \in Publishers, ParseForRun(p)
      PROVE  TextInv'
  <2>1. /\ work[p] = Idle /\ work'[p] \in Running /\ work'[p].pc = "override"
        /\ \A q \in Publishers \ {p} : work'[q] = work[q]
    BY <1>3, EmptyText DEF ParseForRun, BeginCommand, Running, PublishTypeOK
  <2>2. overrides \in Nat /\ overrides' = overrides + 1 /\ UNCHANGED <<dk, backup, latest>>
    BY <1>3 DEF ParseForRun, PublishTypeOK
  <2>3. QED
    BY <2>1, <2>2 DEF TextInv, NoneRuns, KeepsText
<1>4. ASSUME NEW p \in Publishers, work[p] \in Running, UNCHANGED <<latest, overrides>>,
             \A q \in Publishers \ {p} : work'[q] \in {work[q], Disturbed(work)[q]},
             overrides = 1 =>
               \/ work'[p] \in Running /\ KeepsText(work[p])'
               \/ work'[p] \notin Running /\ (Good(dk, latest)' \/ Good(backup, latest)')
      PROVE  TextInv'
  <2>1. overrides # 0
    BY <1>4 DEF TextInv, NoneRuns
  <2>2. CASE overrides = 1
    <3>1. \A q \in Publishers \ {p} : work'[q] \notin Running
      BY <1>4, <2>2, WhoRuns DEF TextInv
    <3>2. QED
      BY <1>4, <2>2, <3>1 DEF TextInv, NoneRuns, KeepsText
  <2>3. CASE overrides # 1
    BY <1>4, <2>1, <2>3 DEF TextInv
  <2>4. QED
    BY <2>2, <2>3
<1>5. ASSUME NEW p \in Publishers, overrides = 1
      PROVE  KeepsText(work[p])
  BY <1>5 DEF TextInv
<1>6. ASSUME NEW p \in Publishers, ReadBase(p)
      PROVE  TextInv'
  <2>1. work[p] \in Running /\ work[p].pc = "override"
    BY <1>6, CommandPoints DEF ReadBase, At, PublishTypeOK
  <2>2. /\ work'[p].pc = "truncate_backup" /\ work'[p].base = dk /\ work'[p] \in Running
        /\ \A q \in Publishers \ {p} : work'[q] = work[q]
    BY <1>6, <2>1 DEF ReadBase, Running, PublishTypeOK
  <2>3. UNCHANGED <<dk, backup, latest, overrides>>
    BY <1>6 DEF ReadBase, directory
  <2>4. overrides = 1 => KeepsText(work[p])'
    BY <1>5, <2>1, <2>2, <2>3 DEF KeepsText
  <2>5. QED
    BY <1>4, <2>1, <2>2, <2>3, <2>4
<1>7. ASSUME NEW p \in Publishers, TruncateBackup(p)
      PROVE  TextInv'
  <2>1. work[p] \in Running /\ work[p].pc = "truncate_backup"
    BY <1>7, CommandPoints DEF TruncateBackup, At, PublishTypeOK
  <2>2. /\ work'[p].pc = "backup" /\ work'[p].base = work[p].base /\ work'[p] \in Running
        /\ \A q \in Publishers \ {p} : work'[q] = work[q]
    BY <1>7, <2>1 DEF TruncateBackup, GoOn, Running, PublishTypeOK
  <2>3. UNCHANGED <<dk, latest, overrides>>
    BY <1>7 DEF TruncateBackup
  <2>4. overrides = 1 => KeepsText(work[p])'
    BY <1>5, <2>1, <2>2, <2>3 DEF KeepsText
  <2>5. QED
    BY <1>4, <2>1, <2>2, <2>3, <2>4
<1>8. ASSUME NEW p \in Publishers, WriteBackup(p)
      PROVE  TextInv'
  <2>1. work[p] \in Running /\ work[p].pc = "backup"
    BY <1>8, CommandPoints DEF WriteBackup, At, PublishTypeOK
  <2>2. /\ work'[p].pc = "truncate" /\ work'[p].base = work[p].base /\ work'[p] \in Running
        /\ \A q \in Publishers \ {p} : work'[q] = work[q]
    BY <1>8, <2>1 DEF WriteBackup, GoOn, Running, PublishTypeOK
  <2>3. UNCHANGED <<dk, latest, overrides>> /\ backup' = work[p].base
    BY <1>8 DEF WriteBackup
  <2>4. overrides = 1 => KeepsText(work[p])'
    BY <1>5, <2>1, <2>2, <2>3 DEF KeepsText
  <2>5. QED
    BY <1>4, <2>1, <2>2, <2>3, <2>4
<1>9. ASSUME NEW p \in Publishers, Truncate(p)
      PROVE  TextInv'
  <2>1. work[p] \in Running /\ work[p].pc = "truncate"
    BY <1>9, CommandPoints DEF Truncate, At, PublishTypeOK
  <2>2. Disturbed(work)[p] \in Running
    BY <2>1, WhoRuns
  <2>3. /\ work'[p].pc = "merge" /\ work'[p] \in Running
        /\ \A q \in Publishers \ {p} : work'[q] = Disturbed(work)[q]
    BY <1>9, <2>2 DEF Truncate, Disturbed, Running
  <2>4. UNCHANGED <<backup, latest, overrides>>
    BY <1>9 DEF Truncate
  <2>5. overrides = 1 => KeepsText(work[p])'
    BY <1>5, <2>1, <2>3, <2>4 DEF KeepsText
  <2>6. QED
    BY <1>4, <2>1, <2>3, <2>4, <2>5
<1>10. ASSUME NEW p \in Publishers, WriteMerged(p)
      PROVE  TextInv'
  <2>1. work[p] \in Running /\ work[p].pc = "merge"
    BY <1>10, CommandPoints DEF WriteMerged, At, PublishTypeOK
  <2>2. /\ work'[p] = Idle
        /\ \A q \in Publishers \ {p} : work'[q] = Disturbed(work)[q]
    BY <1>10 DEF WriteMerged, Disturbed
  <2>3. UNCHANGED <<backup, latest, overrides>>
    BY <1>10 DEF WriteMerged
  <2>4. overrides = 1 => Good(backup, latest)'
    BY <1>5, <2>1, <2>3 DEF KeepsText
  <2>5. QED
    BY <1>4, <2>1, <2>2, <2>3, <2>4 DEF Idle, Running
<1>11. ASSUME NEW p \in Publishers, PublishPackage(p)
       PROVE  TextInv'
  <2>1. UNCHANGED <<dk, backup, latest, overrides>>
    BY <1>11 DEF PublishPackage, ParseForPublish, Bundle, CreateManifestLayer,
       CreateContentLayer, CheckTag, StopsShort, PushBlob, PushManifest, directory
  <2>2. ASSUME NEW q \in Publishers
        PROVE  work'[q] = work[q] \/ (work[q] \notin Running /\ work'[q] \notin Running)
    <3>1. CASE PushManifest(p)
      <4>1. work[p] \in Pushing
        BY <3>1, CommandPoints DEF PushManifest, At, PublishTypeOK
      <4>2. CASE q = p
        BY <3>1, <4>1, <4>2 DEF PushManifest, Idle, Running, Pushing, Publishing
      <4>3. CASE q # p /\ work'[q] # work[q]
        <5>1. Runs(q, "publish") /\ work'[q] = [work[q] EXCEPT !.checked = "overtaken"]
          BY <3>1, <4>3 DEF PushManifest
        <5>2. work[q].command # "run" /\ work'[q].command = work[q].command
          BY <5>1 DEF Runs
        <5>3. QED
          BY <5>2 DEF Running
      <4>4. QED
        BY <4>2, <4>3
    <3>2. CASE ~ PushManifest(p) /\ q # p
      BY <1>11, <3>2
      DEF PublishPackage, ParseForPublish, BeginCommand, Bundle, CreateManifestLayer,
          CreateContentLayer, CheckTag, StopsShort, PushBlob, Add, End, PublishTypeOK
    <3>3. CASE ~ PushManifest(p) /\ q = p
      <4>1. work[p] \notin Running
        BY <1>11, <3>3
        DEF PublishPackage, ParseForPublish, BeginCommand, Bundle, CreateManifestLayer,
            CreateContentLayer, CheckTag, StopsShort, PushBlob, At, Idle, Running
      <4>2. CASE \E v \in PackageVersions : ParseForPublish(p, v, <<p, commands>>)
        BY <3>3, <4>1, <4>2 DEF ParseForPublish, BeginCommand, Running, PublishTypeOK
      <4>3. CASE work'[p].pc \in {"idle", "manifests", "content", "check", "push"}
        BY <3>3, <4>1, <4>3 DEF Running
      <4>4. CASE Bundle(p)
        <5>1. work[p] \in Configuring
          BY <4>4, CommandPoints DEF Bundle, At, PublishTypeOK
        <5>2. QED
          BY <4>3, <4>4, <5>1
          DEF Bundle, Add, End, Idle, Configuring, Publishing, PublishTypeOK
      <4>5. CASE CreateManifestLayer(p)
        <5>1. work[p] \in Layering
          BY <4>5, CommandPoints DEF CreateManifestLayer, At, PublishTypeOK
        <5>2. QED
          BY <4>3, <4>5, <5>1 DEF CreateManifestLayer, Add, Layering, Publishing, PublishTypeOK
      <4>6. CASE CreateContentLayer(p)
        <5>1. work[p] \in Filling
          BY <4>6, CommandPoints DEF CreateContentLayer, At, PublishTypeOK
        <5>2. QED
          BY <4>3, <4>6, <5>1 DEF CreateContentLayer, Add, Filling, Publishing, PublishTypeOK
      <4>7. CASE CheckTag(p)
        <5>1. work[p] \in Checking
          BY <4>7, CommandPoints DEF CheckTag, At, PublishTypeOK
        <5>2. QED
          BY <4>3, <4>7, <5>1 DEF CheckTag, End, Idle, Checking, Publishing, PublishTypeOK
      <4>8. CASE StopsShort(p)
        BY <4>3, <4>8 DEF StopsShort, End, Idle, PublishTypeOK
      <4>9. CASE \E b \in BlobsOf(work[p].artifact) : PushBlob(p, b)
        BY <3>3, <4>9 DEF PushBlob
      <4>10. QED
        BY <1>11, <3>3, <4>2, <4>4, <4>5, <4>6, <4>7, <4>8, <4>9 DEF PublishPackage
    <3>4. QED
      BY <3>1, <3>2, <3>3
  <2>3. QED
    BY <2>1, <2>2, TextStays
<1>12. ASSUME NEW p \in Publishers, InterruptPublish(p)
       PROVE  TextInv'
  <2>1. /\ UNCHANGED <<dk, backup, latest, overrides>>
        /\ work'[p] \notin Running
        /\ \A q \in Publishers \ {p} : work'[q] = work[q]
    BY <1>12 DEF InterruptPublish, End, directory, Idle, Running, PublishTypeOK
  <2>2. CASE work[p] \in Running
    <3>1. overrides = 1 => Good(dk, latest) \/ Good(backup, latest)
      BY <1>5, <2>2 DEF KeepsText, Running
    <3>2. QED
      BY <1>4, <2>1, <2>2, <3>1
  <2>3. CASE work[p] \notin Running
    BY <2>1, <2>3, TextStays
  <2>4. QED
    BY <2>2, <2>3
<1>13. CASE UNCHANGED publishVars
  BY <1>13, TextStays DEF publishVars
<1>14. QED
  BY <1>1, <1>2, <1>3, <1>6, <1>7, <1>8, <1>9, <1>10, <1>11, <1>12, <1>13
  DEF PublishNext, Developer, Run

\* What the developer last wrote is in dk.yaml or in its backup, wherever a first run
\* with overrides is or has ended.
THEOREM TextIsKeptHolds == PublishSpec => []TextIsKept
<1>1. PublishTypeOK /\ TextInv => TextIsKept
  <2> SUFFICES ASSUME PublishTypeOK, TextInv, overrides <= 1
               PROVE  Good(dk, latest) \/ Good(backup, latest)
    BY DEF TextIsKept, Good
  <2>1. overrides \in {0, 1}
    BY DEF PublishTypeOK
  <2>2. CASE overrides = 1 /\ ~ NoneRuns
    <3>1. PICK p \in Publishers : work[p] \in Running
      BY <2>2 DEF NoneRuns
    <3>2. KeepsText(work[p])
      BY <2>2 DEF TextInv
    <3>3. QED
      BY <3>1, <3>2 DEF KeepsText, Running
  <2>3. QED
    BY <2>1, <2>2 DEF TextInv
<1>2. PublishInit => TextInv
  BY InitTextInv
<1>3. PublishTypeOK /\ PublishTypeOK' /\ TextInv /\ [PublishNext]_publishVars => TextInv'
  BY NextTextInv
<1>4. QED
  BY <1>1, <1>2, <1>3, PublishTypeOKHolds, PTL DEF PublishSpec

-----------------------------------------------------------------------------
(* Packages.  Finite sets: the issues of a result are counted.             *)

\* The union of finitely many finite sets, one for each argument of a function.
LEMMA ImagesAreFinite ==
  ASSUME NEW f, IsFiniteSet(DOMAIN f)
  PROVE  IsFiniteSet({f[x] : x \in DOMAIN f})
<1> DEFINE S == DOMAIN f
           T == {f[x] : x \in S}
           g == [x \in S |-> f[x]]
<1>1. g \in Surjection(S, T)
  BY DEF Surjection
<1>2. QED
  BY <1>1, FS_Surjection

\* A union of finitely many finite sets is finite.
LEMMA UnionsAreFinite ==
  ASSUME NEW f, IsFiniteSet(DOMAIN f), \A x \in DOMAIN f : IsFiniteSet(f[x])
  PROVE  IsFiniteSet(UNION {f[x] : x \in DOMAIN f})
<1> DEFINE T == {f[x] : x \in DOMAIN f}
<1>1. IsFiniteSet(T)
  BY ImagesAreFinite
<1>2. \A t \in T : IsFiniteSet(t)
  OBVIOUS
<1> HIDE DEF T
<1>3. QED
  BY <1>1, <1>2, FS_UNION DEF T

\* A list has finitely many elements.
LEMMA ListsAreFinite ==
  ASSUME NEW s, IsList(s)
  PROVE  IsFiniteSet(DOMAIN s) /\ IsFiniteSet(ToSet(s))
<1>1. DOMAIN s = 1 .. Len(s) /\ Len(s) \in Nat
  BY DEF IsList
<1>2. IsFiniteSet(DOMAIN s)
  BY <1>1, FS_Interval
<1>3. QED
  BY <1>2, ImagesAreFinite DEF ToSet

\* Issues of the validators: finitely many, and none is the lock's.
Plain(issues) == IsFiniteSet(issues) /\ \A i \in issues : i[2] # "E312"

\* An issue raised on a condition is plain.
LEMMA WhenIsPlain ==
  \A cond, code, field :
    code # "E312" => Plain(When(cond, Err(code, field))) /\ Plain(When(cond, Warn(code, field)))
<1> SUFFICES ASSUME NEW cond, NEW code, NEW field, code # "E312"
             PROVE  /\ Plain(When(cond, Err(code, field)))
                    /\ Plain(When(cond, Warn(code, field)))
  OBVIOUS
<1>1. \A issue : issue[2] # "E312" => Plain(When(cond, issue))
  BY FS_EmptySet, FS_Singleton, Zenon DEF When, Plain
<1>2. Err(code, field)[2] = code /\ Warn(code, field)[2] = code
  BY DEF Err, Warn
<1>3. QED
  BY <1>1, <1>2

\* Plain issues together are plain.
LEMMA CupIsPlain == \A S, T : Plain(S) /\ Plain(T) => Plain(S \cup T)
BY FS_Union DEF Plain

\* The plain issues of finitely many things are plain together.
LEMMA UnionIsPlain ==
  ASSUME NEW f, IsFiniteSet(DOMAIN f), \A x \in DOMAIN f : Plain(f[x])
  PROVE  Plain(UNION {f[x] : x \in DOMAIN f})
<1>1. IsFiniteSet(UNION {f[x] : x \in DOMAIN f})
  BY UnionsAreFinite DEF Plain
<1>2. QED
  BY <1>1 DEF Plain

\* The issues of the fields of a schema are plain.
LEMMA FieldIssuesArePlain ==
  ASSUME NEW fields, NEW incomplete, NEW duplicate, IsList(fields),
         incomplete # "E312", duplicate # "E312"
  PROVE  Plain(FieldIssues(fields, incomplete, duplicate))
<1> DEFINE of(i) == When(fields[i].name = "", Err(incomplete, "spec.schema.name"))
             \cup When(/\ fields[i].name # ""
                       /\ \E j \in 1..(i - 1) : fields[j].name = fields[i].name,
                       Err(duplicate, "spec.schema.name"))
             \cup When(fields[i].type = "", Err(incomplete, "spec.schema.type"))
           f == [i \in DOMAIN fields |-> of(i)]
<1>1. \A i : Plain(of(i))
  BY WhenIsPlain, CupIsPlain
<1>2. FieldIssues(fields, incomplete, duplicate) = UNION {of(i) : i \in DOMAIN fields}
  BY DEF FieldIssues
<1> HIDE DEF of
<1>3. /\ DOMAIN f = DOMAIN fields /\ \A i \in DOMAIN f : f[i] = of(i)
      /\ {of(i) : i \in DOMAIN fields} = {f[i] : i \in DOMAIN f}
  OBVIOUS
<1>4. IsFiniteSet(DOMAIN f) /\ \A i \in DOMAIN f : Plain(f[i])
  BY <1>1, <1>3, ListsAreFinite
<1> HIDE DEF f
<1>5. QED
  BY <1>2, <1>3, <1>4, UnionIsPlain

\* The issues of validateCommonFields are plain.
LEMMA CommonIsPlain == \A m : Plain(validateCommonFields(m))
BY WhenIsPlain, CupIsPlain DEF validateCommonFields

\* The issues of validateConnector are plain.
LEMMA ConnectorIsPlain == \A m : Plain(validateConnector(m))
BY WhenIsPlain, CupIsPlain DEF validateConnector

\* The issues of validateStore are plain.
LEMMA StoreIsPlain == \A m : Plain(validateStore(m))
BY WhenIsPlain, CupIsPlain DEF validateStore

\* The issues of validateDataSetGroup are plain.
LEMMA GroupIsPlain == \A m : Plain(validateDataSetGroup(m))
BY WhenIsPlain, CupIsPlain DEF validateDataSetGroup

\* The issues of validateDataSetRef are plain.
LEMMA RefIsPlain == \A ref, path : Plain(validateDataSetRef(ref, path))
BY WhenIsPlain, CupIsPlain DEF validateDataSetRef

\* The issues of validateDataSet are plain.
LEMMA DataSetIsPlain == ASSUME NEW a, IsList(a.schema) PROVE Plain(validateDataSet(a))
<1>1. Plain(FieldIssues(a.schema, "E222", "E043"))
  BY FieldIssuesArePlain
<1>2. QED
  BY <1>1, WhenIsPlain, CupIsPlain DEF validateDataSet

\* The issues of validateStructure are plain.
LEMMA StructureIsPlain == ASSUME NEW a, IsList(a.schema) PROVE Plain(validateStructure(a))
<1>1. Plain(FieldIssues(a.schema, "E070", "E002"))
  BY FieldIssuesArePlain
<1> DEFINE first == When(a.apiVersion = "", Err("E070", "apiVersion"))
                      \cup When(a.kind = "", Err("E070", "kind"))
                      \cup When(a.kind \notin {"", "DataSet"}, Err("E002", "kind"))
                      \cup When(a.name = "", Err("E070", "metadata.name"))
                      \cup When(Malformed(a.name), Err("E002", "metadata.name"))
<1>2. Plain(first)
  BY WhenIsPlain, CupIsPlain
<1>3. \A S : Plain(S) =>
        Plain(S \cup When(a.store = "", Err("E070", "spec.store"))
                \cup When(~a.located, Warn("E070", "spec"))
                \cup When(a.classification \notin Classifications,
                          Err("E002", "spec.classification"))
                \cup FieldIssues(a.schema, "E070", "E002"))
  BY <1>1, WhenIsPlain, CupIsPlain
<1>4. QED
  BY <1>2, <1>3, Zenon DEF validateStructure

\* The issues of a transform's triggers are plain.
LEMMA TriggerIsPlain == ASSUME NEW trigger, IsList(trigger) PROVE Plain(triggerIssues(trigger))
<1> DEFINE of(t) == When(t.policy \notin Policies \cup {"composite"},
                       Err("E002", "spec.trigger.policy"))
             \cup When(t.policy = "schedule" /\ ~t.schedule,
                       Err("E001", "spec.trigger.schedule"))
             \cup When(t.policy = "composite" /\ t.policies = {},
                       Err("E001", "spec.trigger.policies"))
             \cup When(t.policy = "composite" /\ ~(t.policies \subseteq Policies),
                       Err("E002", "spec.trigger.policies"))
           f == [t \in ToSet(trigger) |-> of(t)]
<1>1. \A t : Plain(of(t))
  BY WhenIsPlain, CupIsPlain
<1>2. triggerIssues(trigger) = UNION {of(t) : t \in ToSet(trigger)}
  BY Zenon DEF triggerIssues
<1> HIDE DEF of
<1>3. /\ DOMAIN f = ToSet(trigger) /\ \A t \in DOMAIN f : f[t] = of(t)
      /\ {of(t) : t \in ToSet(trigger)} = {f[t] : t \in DOMAIN f}
  OBVIOUS
<1>4. IsFiniteSet(DOMAIN f) /\ \A t \in DOMAIN f : Plain(f[t])
  BY <1>1, <1>3, ListsAreFinite
<1> HIDE DEF f
<1>5. QED
  BY <1>2, <1>3, <1>4, UnionIsPlain

\* The issues of a transform's inputs or outputs are plain.
LEMMA RefsArePlain ==
  ASSUME NEW refs, NEW path, IsList(refs)
  PROVE  Plain(refIssues(refs, path))
<1> DEFINE f == [r \in ToSet(refs) |-> validateDataSetRef(r, path)]
<1>1. /\ DOMAIN f = ToSet(refs) /\ \A r \in DOMAIN f : f[r] = validateDataSetRef(r, path)
      /\ refIssues(refs, path) = UNION {f[r] : r \in DOMAIN f}
  BY DEF refIssues
<1>2. IsFiniteSet(DOMAIN f) /\ \A r \in DOMAIN f : Plain(f[r])
  BY <1>1, ListsAreFinite, RefIsPlain
<1> HIDE DEF f
<1>3. QED
  BY <1>1, <1>2, UnionIsPlain

\* The issues of validateTransform are plain.
LEMMA TransformIsPlain ==
  ASSUME NEW tr, IsList(tr.inputs), IsList(tr.outputs), IsList(tr.trigger)
  PROVE  Plain(validateTransform(tr))
<1>1. /\ Plain(refIssues(tr.inputs, "spec.inputs"))
      /\ Plain(refIssues(tr.outputs, "spec.outputs"))
      /\ Plain(triggerIssues(tr.trigger))
  BY RefsArePlain, TriggerIsPlain
<1> DEFINE first ==
      When(tr.runtime \notin {"cloudquery", "generic-go", "generic-python", "dbt"},
           Err("E002", "spec.runtime"))
        \cup When(tr.mode \notin {"", "batch", "streaming"}, Err("E002", "spec.mode"))
        \cup When(tr.inputs = <<>>, Err("E230", "spec.inputs"))
        \cup When(tr.outputs = <<>>, Err("E231", "spec.outputs"))
        \cup When(tr.runtime \in {"generic-go", "generic-python", "dbt"} /\ tr.image = "",
                  Err("E232", "spec.image"))
        \cup When(tr.mode \in {"", "batch"} /\ tr.trigger = <<>>, Warn("W209", "spec.trigger"))
<1>2. Plain(first)
  BY WhenIsPlain, CupIsPlain
<1>3. \A S : Plain(S) =>
        Plain(S \cup triggerIssues(tr.trigger)
                \cup When(Malformed(tr.timeout), Err("E031", "spec.timeout"))
                \cup refIssues(tr.inputs, "spec.inputs")
                \cup refIssues(tr.outputs, "spec.outputs"))
  BY <1>1, WhenIsPlain, CupIsPlain
<1>4. QED
  BY <1>2, <1>3, Zenon DEF validateTransform

\* The issues of a manifest that can be parsed are plain.
LEMMA ManifestIsPlain == ASSUME NEW m \in Manifests, ParseManifest(m) PROVE Plain(ManifestIssues(m))
<1>1. /\ m.kind = "Transform" => IsList(m.inputs) /\ IsList(m.outputs) /\ IsList(m.trigger)
      /\ m.kind = "DataSet" => IsList(m.schema)
      /\ m.kind \in {"Connector", "Store", "DataSet", "DataSetGroup", "Transform"}
  BY FilesAssumption DEF ParseManifest, Kinds
<1> DEFINE issues ==
      (CASE m.kind = "Connector" -> validateConnector(m)
         [] m.kind = "Store" -> validateStore(m)
         [] m.kind = "DataSet" -> validateDataSet(m)
         [] m.kind = "DataSetGroup" -> validateDataSetGroup(m)
         [] m.kind = "Transform" -> validateTransform(m))
<1>2. Plain(issues)
  BY <1>1, ConnectorIsPlain, StoreIsPlain, GroupIsPlain, DataSetIsPlain, TransformIsPlain
<1> HIDE DEF issues
<1>3. QED
  BY <1>2, CommonIsPlain, CupIsPlain DEF ManifestIssues, issues

-----------------------------------------------------------------------------
(* References are sequences.                                               *)

\* A function on the first numbers is a list.
LEMMA FunctionsAreLists ==
  ASSUME NEW f, NEW n \in Nat, f \in [1..n -> ToSet(f)]
  PROVE  IsList(f)
BY SeqDef, Zenon DEF IsList

\* Two lists make a list of the elements of both.
LEMMA ConcatIsList ==
  ASSUME NEW s, NEW t, IsList(s), IsList(t)
  PROVE  IsList(s \o t) /\ ToSet(s \o t) = ToSet(s) \cup ToSet(t)
<1> DEFINE S == ToSet(s) \cup ToSet(t)
<1>1. s \in Seq(S) /\ t \in Seq(S)
  <2>1. s \in Seq(ToSet(s)) /\ t \in Seq(ToSet(t)) /\ ToSet(s) \subseteq S /\ ToSet(t) \subseteq S
    BY DEF IsList
  <2> HIDE DEF S
  <2>2. QED
    BY <2>1, SeqMonotonic
<1>2. /\ s \o t \in Seq(S) /\ Len(s \o t) = Len(s) + Len(t)
      /\ \A i \in 1 .. Len(s) + Len(t) :
           (s \o t)[i] = IF i <= Len(s) THEN s[i] ELSE t[i - Len(s)]
  <2> HIDE DEF S
  <2> QED
    BY <1>1, ConcatProperties
<1>3. /\ DOMAIN s = 1..Len(s) /\ DOMAIN t = 1..Len(t) /\ Len(s) \in Nat /\ Len(t) \in Nat
      /\ DOMAIN (s \o t) = 1 .. Len(s) + Len(t)
  <2> HIDE DEF S
  <2> QED
    BY <1>1, <1>2, LenProperties
<1>4. ASSUME NEW x \in ToSet(s \o t) PROVE x \in S
  <2>1. PICK i \in 1 .. Len(s) + Len(t) : x = (s \o t)[i]
    BY <1>3 DEF ToSet
  <2>2. CASE i <= Len(s)
    BY <1>2, <1>3, <2>1, <2>2 DEF ToSet
  <2>3. CASE ~(i <= Len(s))
    <3>1. i - Len(s) \in 1..Len(t)
      BY <1>3, <2>3
    <3>2. QED
      BY <1>2, <1>3, <2>1, <2>3, <3>1 DEF ToSet
  <2>4. QED
    BY <2>2, <2>3
<1>5. ASSUME NEW x \in ToSet(s) PROVE x \in ToSet(s \o t)
  <2>1. PICK i \in 1..Len(s) : x = s[i]
    BY <1>3 DEF ToSet
  <2>2. i \in 1 .. Len(s) + Len(t) /\ (s \o t)[i] = x
    BY <1>2, <1>3, <2>1
  <2>3. QED
    BY <1>3, <2>2 DEF ToSet
<1>6. ASSUME NEW x \in ToSet(t) PROVE x \in ToSet(s \o t)
  <2>1. PICK i \in 1..Len(t) : x = t[i]
    BY <1>3 DEF ToSet
  <2>2. i + Len(s) \in 1 .. Len(s) + Len(t) /\ (s \o t)[i + Len(s)] = x
    BY <1>2, <1>3, <2>1
  <2>3. QED
    BY <1>3, <2>2 DEF ToSet
<1>7. ToSet(s \o t) = S
  BY <1>4, <1>5, <1>6
<1>8. QED
  BY <1>2, <1>7 DEF IsList

\* The empty sequence is a list.
LEMMA EmptyIsList == IsList(<<>>)
BY EmptySeq DEF IsList

\* The schema references of a transform are a list.
LEMMA SchemaRefsAreList ==
  ASSUME dkYaml \in Manifests \cup {AbsentFile}
  PROVE  IsList(extractTransformSchemaRefs)
<1>1. CASE dkYaml.kind # "Transform" \/ ~ParseManifest(dkYaml)
  BY <1>1, EmptyIsList DEF extractTransformSchemaRefs
<1>2. CASE ~(dkYaml.kind # "Transform" \/ ~ParseManifest(dkYaml))
  <2>1. IsList(dkYaml.inputs) /\ IsList(dkYaml.outputs)
    BY <1>2, FilesAssumption DEF AbsentFile
  <2> DEFINE refs == dkYaml.inputs \o dkYaml.outputs
             f == [i \in DOMAIN refs |-> refs[i].schema]
  <2>2. IsList(refs)
    BY <2>1, ConcatIsList
  <2>3. extractTransformSchemaRefs = f
    BY <1>2 DEF extractTransformSchemaRefs
  <2> HIDE DEF refs
  <2>4. DOMAIN refs = 1..Len(refs) /\ Len(refs) \in Nat
    BY <2>2, LenProperties DEF IsList
  <2>5. f \in [1..Len(refs) -> ToSet(f)]
    BY <2>4 DEF ToSet
  <2> HIDE DEF f
  <2>6. QED
    BY <2>3, <2>4, <2>5, FunctionsAreLists
<1>3. QED
  BY <1>1, <1>2

\* The references of dk lock: those of datasets that load are among them.
LEMMA CollectedRefs ==
  ASSUME dkYaml \in Manifests \cup {AbsentFile}, DOMAIN datasets = ToSet(DatasetDirs)
  PROVE  /\ IsList(collectSchemaRefs)
         /\ DataSetsLoad => SchemaRefs \subseteq Refs(collectSchemaRefs)
<1> DEFINE refOf(d) ==
             IF DataSetsLoad /\ datasets[d] # AbsentFile THEN datasets[d].ref ELSE <<>>
           f == [i \in DOMAIN DatasetDirs |-> refOf(DatasetDirs[i])]
<1>1. DOMAIN DatasetDirs = 1..Len(DatasetDirs) /\ Len(DatasetDirs) \in Nat
  BY PackagesAssumption, LenProperties
<1>2. f \in [1..Len(DatasetDirs) -> ToSet(f)]
  <2> HIDE DEF refOf
  <2> QED
    BY <1>1 DEF ToSet
<1>3. collectSchemaRefs = f \o extractTransformSchemaRefs
  BY DEF collectSchemaRefs
<1>4. \A d \in ToSet(DatasetDirs) : refOf(d) \in ToSet(f)
  <2> HIDE DEF refOf
  <2> QED
    BY DEF ToSet
<1> HIDE DEF f
<1>5. IsList(f)
  BY <1>1, <1>2, FunctionsAreLists
<1>6. IsList(collectSchemaRefs) /\ ToSet(f) \subseteq ToSet(collectSchemaRefs)
  BY <1>3, <1>5, SchemaRefsAreList, ConcatIsList
<1>7. ASSUME DataSetsLoad, NEW r \in SchemaRefs PROVE r \in Refs(collectSchemaRefs)
  <2>1. PICK d \in ToSet(DatasetDirs) : /\ datasets[d] # AbsentFile /\ r = datasets[d].ref
                                       /\ r # <<>>
    BY DEF SchemaRefs, LoadAllDataSets
  <2>2. r = refOf(d)
    BY <1>7, <2>1
  <2>3. QED
    BY <1>4, <1>6, <2>1, <2>2 DEF Refs
<1>8. QED
  BY <1>6, <1>7

-----------------------------------------------------------------------------
(* The lock.                                                               *)

\* The lock built of references has each module, at a version that one of them names.
LEMMA BuiltLock ==
  ASSUME NEW refs, IsList(refs), NEW r \in Refs(refs)
  PROVE  /\ ParseSchemaRef(r).module \in DOMAIN buildLockFromRefs(refs)
         /\ \E q \in Refs(refs) :
              /\ ParseSchemaRef(q).module = ParseSchemaRef(r).module
              /\ buildLockFromRefs(refs)[ParseSchemaRef(r).module] = lockedVersion(q)
<1> DEFINE places(m) == {i \in DOMAIN refs : refs[i] # <<>> /\ ParseSchemaRef(refs[i]).module = m}
           modules == {ParseSchemaRef(q).module : q \in Refs(refs)}
           m == ParseSchemaRef(r).module
           P == places(m)
<1>1. buildLockFromRefs(refs) = [n \in modules |-> lockedVersion(refs[Min(places(n))])]
  BY Zenon DEF buildLockFromRefs
<1>2. m \in modules
  OBVIOUS
<1>3. P \subseteq Nat /\ P # {}
  <2>1. DOMAIN refs = 1..Len(refs) /\ Len(refs) \in Nat
    BY LenProperties DEF IsList
  <2>2. PICK i \in DOMAIN refs : refs[i] = r /\ r # <<>>
    BY DEF Refs, ToSet
  <2>3. QED
    BY <2>1, <2>2
<1>4. Min(P) \in P
  <2> HIDE DEF P
  <2>1. PICK n \in P : \A k \in P : n <= k
    BY <1>3, LeastNat
  <2>2. QED
    BY <2>1 DEF Min
<1>5. refs[Min(P)] \in Refs(refs) /\ ParseSchemaRef(refs[Min(P)]).module = m
  BY <1>4 DEF Refs, ToSet
<1>6. /\ m \in DOMAIN buildLockFromRefs(refs)
      /\ buildLockFromRefs(refs)[m] = lockedVersion(refs[Min(P)])
  <2> HIDE DEF modules, places, m
  <2> QED
    BY <1>1, <1>2 DEF P
<1> HIDE DEF P, m
<1>7. QED
  BY <1>5, <1>6 DEF m

-----------------------------------------------------------------------------
(* The files of the package.                                               *)

Readable(file) == file \in {AbsentFile, BrokenFile} \/ IsList(file.schema)

FilesInv ==
  /\ dkYaml \in Manifests \cup {AbsentFile}
  /\ DOMAIN datasets = ToSet(DatasetDirs)
  /\ \A d \in ToSet(DatasetDirs) : Readable(datasets[d])
  /\ IsFiniteSet(schemas)
  /\ lock.state \in {"absent", "garbled", "present"}

\* What dk dataset create writes can be read.
LEMMA NewIsReadable == \A name, store, ref : Readable(NewDataSet(name, store, ref))
BY EmptyIsList DEF Readable, NewDataSet

\* Writing a readable dataset file leaves all of them readable.
LEMMA WithDataset ==
  ASSUME DOMAIN datasets = ToSet(DatasetDirs), NEW name, NEW file, Readable(file),
         \A d \in ToSet(DatasetDirs) : Readable(datasets[d]),
         datasets' = [datasets EXCEPT ![name] = file]
  PROVE  /\ DOMAIN datasets' = ToSet(DatasetDirs)
         /\ \A d \in ToSet(DatasetDirs) : Readable(datasets'[d])
OBVIOUS

\* The files are as they can be at first.
LEMMA InitFiles == PackagesInit => FilesInv
BY FS_EmptySet DEF PackagesInit, FilesInv, Readable, NoLock

\* Every step leaves the files as they can be.
LEMMA NextFiles == FilesInv /\ [PackagesNext]_packageVars => FilesInv'
<1> SUFFICES ASSUME FilesInv, [PackagesNext]_packageVars PROVE FilesInv'
  OBVIOUS
<1> USE DEF FilesInv
<1>1. ASSUME NEW l \in Lockers, CollectRefs(l) PROVE FilesInv'
  BY <1>1 DEF CollectRefs
<1>2. ASSUME NEW l \in Lockers, TruncateLock(l) PROVE FilesInv'
  BY <1>2 DEF TruncateLock, Lock
<1>3. ASSUME NEW l \in Lockers, WriteLockFile(l) PROVE FilesInv'
  BY <1>3 DEF WriteLockFile, Lock, GarbledLock
<1>4. ASSUME NEW l \in Lockers, LockKilled(l) PROVE FilesInv'
  BY <1>4 DEF LockKilled
<1>5. ASSUME NEW d \in ToSet(DatasetDirs), NEW store, NEW force, Scaffold(d, store, force)
      PROVE  FilesInv'
  BY <1>5, NewIsReadable, WithDataset DEF Scaffold, Changed
<1>6. ASSUME NEW d \in ToSet(DatasetDirs), NEW store, NEW force, NEW c,
             runDataSetAdd(d, c, store, force)
      PROVE  FilesInv'
  BY <1>6, NewIsReadable, WithDataset DEF runDataSetAdd, Changed
<1>7. ASSUME NEW m \in Manifests \cup {AbsentFile}, EditDkYaml(m) PROVE FilesInv'
  BY <1>7 DEF EditDkYaml
<1>8. ASSUME NEW d \in ToSet(DatasetDirs), NEW f \in DatasetFiles \cup {AbsentFile},
             EditDataset(d, f)
      PROVE  FilesInv'
  <2>1. Readable(f)
    BY FilesAssumption DEF Readable
  <2>2. QED
    BY <1>8, <2>1, WithDataset DEF EditDataset
<1>9. ASSUME NEW files \in SchemaDirs, EditSchemas(files) PROVE FilesInv'
  BY <1>9, FilesAssumption DEF EditSchemas
<1>10. CASE EditLock
  BY <1>10 DEF EditLock, NoLock, GarbledLock
<1>11. CASE UNCHANGED packageVars
  BY <1>11 DEF packageVars
<1>12. QED
  BY <1>1, <1>2, <1>3, <1>4, <1>5, <1>6, <1>7, <1>8, <1>9, <1>10, <1>11 DEF PackagesNext

-----------------------------------------------------------------------------
(* What each validator returns: finitely many issues, and a verdict that   *)
(* is good unless one of them is an error.                                 *)

Sound(r) ==
  /\ r.valid \in BOOLEAN /\ IsFiniteSet(r.errors) /\ IsFiniteSet(r.warnings)
  /\ r.valid <=> ~HasErrors(r.errors)

\* An error has its severity and its code.
LEMMA ErrorIs == \A code, field : Err(code, field)[1] = "error" /\ Err(code, field)[2] = code
BY DEF Err

\* A result with one error is sound.
LEMMA OneErrorIsSound ==
  \A code, field :
    LET r == AddError(code, field) IN
    Sound(r) /\ HasErrors(r.errors) /\ r.warnings = {} /\ \A i \in r.errors : i[2] = code
<1> TAKE code, field
<1>1. /\ AddError(code, field).valid = FALSE /\ AddError(code, field).warnings = {}
      /\ AddError(code, field).errors = {Err(code, field)}
  BY DEF AddError
<1>2. HasErrors(AddError(code, field).errors)
  <2>1. Err(code, field) \in AddError(code, field).errors /\ Err(code, field)[1] # "warning"
    BY <1>1, ErrorIs
  <2>2. QED
    BY <2>1, Zenon DEF HasErrors
<1>3. IsFiniteSet(AddError(code, field).errors) /\ IsFiniteSet(AddError(code, field).warnings)
  BY <1>1, FS_Singleton, FS_EmptySet
<1>4. Sound(AddError(code, field))
  BY <1>1, <1>2, <1>3 DEF Sound
<1>5. \A i \in AddError(code, field).errors : i[2] = code
  BY <1>1, ErrorIs
<1>6. QED
  BY <1>1, <1>2, <1>4, <1>5, Zenon

\* A result with one warning is sound.
LEMMA OneWarningIsSound == \A msg : Sound(AddWarning(msg))
BY FS_Singleton, FS_EmptySet DEF Sound, AddWarning, HasErrors

\* A result without issues is sound.
LEMMA ValidIsSound == Sound(Valid)
BY FS_EmptySet DEF Sound, Valid, HasErrors

\* MergeResults of sound results is sound.
LEMMA MergedIsSound == \A r, s : Sound(r) /\ Sound(s) => Sound(MergeResults(r, s))
<1> SUFFICES ASSUME NEW r, NEW s, Sound(r), Sound(s) PROVE Sound(MergeResults(r, s))
  OBVIOUS
<1>1. HasErrors(r.errors \cup s.errors) <=> HasErrors(r.errors) \/ HasErrors(s.errors)
  BY DEF HasErrors
<1>2. IsFiniteSet(r.errors \cup s.errors) /\ IsFiniteSet(r.warnings \cup s.warnings)
  BY FS_Union DEF Sound
<1>3. QED
  BY <1>1, <1>2 DEF Sound, MergeResults

ManifestResult == IF dkYaml = AbsentFile THEN AddError("E040", "dk.yaml") ELSE validateManifest

\* The result of the manifest validator is sound and has no E312.
LEMMA ManifestIsSound ==
  ASSUME FilesInv
  PROVE  /\ Sound(ManifestResult) /\ \A i \in ManifestResult.errors : i[2] # "E312"
         /\ ManifestResult.warnings = {}
         /\ dkYaml = AbsentFile \/ ~ParseManifest(dkYaml) => HasErrors(ManifestResult.errors)
<1>1. CASE dkYaml = AbsentFile
  BY <1>1, OneErrorIsSound DEF ManifestResult
<1>2. CASE dkYaml # AbsentFile /\ ~ParseManifest(dkYaml)
  BY <1>2, OneErrorIsSound DEF ManifestResult, validateManifest
<1>3. CASE dkYaml # AbsentFile /\ ParseManifest(dkYaml)
  <2>1. Plain(ManifestIssues(dkYaml))
    BY <1>3, ManifestIsPlain DEF FilesInv
  <2> DEFINE issues == ManifestIssues(dkYaml)
  <2>2. ManifestResult = IF HasErrors(issues)
                           THEN [valid |-> FALSE, errors |-> issues, warnings |-> {}] ELSE Valid
    BY <1>3 DEF ManifestResult, validateManifest
  <2> HIDE DEF issues
  <2>3. Plain(issues)
    BY <2>1 DEF issues
  <2>4. QED
    BY <1>3, <2>2, <2>3, ValidIsSound, FS_EmptySet DEF Plain, Sound, Valid
<1>4. QED
  BY <1>1, <1>2, <1>3

\* The result of the schema validator is sound and has no E312.
LEMMA SchemasAreSound ==
  ASSUME FilesInv
  PROVE  /\ Sound(validateSchemas) /\ \A i \in validateSchemas.errors : i[2] # "E312"
         /\ "dk.lock not found" \notin validateSchemas.warnings
<1> DEFINE bad == {f \in schemas : f[1] \in {".avsc", ".json", ".proto"} /\ f[2] = "bad"}
           unread == {f \in schemas : f[1] \in {".avsc", ".json", ".proto"} /\ f[2] = "unreadable"}
           e == [f \in bad |-> Err("E042", f[1])]
           w == [f \in unread |-> f[1]]
<1>1. /\ validateSchemas.valid = (bad = {})
      /\ validateSchemas.errors = {e[f] : f \in DOMAIN e}
      /\ validateSchemas.warnings = {w[f] : f \in DOMAIN w}
  BY DEF validateSchemas
<1>2. IsFiniteSet(bad) /\ IsFiniteSet(unread)
  BY FS_Subset DEF FilesInv
<1>3. IsFiniteSet({e[f] : f \in DOMAIN e}) /\ IsFiniteSet({w[f] : f \in DOMAIN w})
  <2>1. DOMAIN e = bad /\ DOMAIN w = unread
    OBVIOUS
  <2> HIDE DEF e, w, bad, unread
  <2>2. QED
    BY <1>2, <2>1, ImagesAreFinite
<1>4. \A i \in validateSchemas.errors : i[1] = "error" /\ i[2] = "E042"
  <2>1. \A i \in validateSchemas.errors : \E f \in bad : i = Err("E042", f[1])
    BY <1>1
  <2>2. QED
    BY <2>1, ErrorIs
<1>5. HasErrors(validateSchemas.errors) <=> bad # {}
  <2>1. validateSchemas.errors = {} <=> bad = {}
    <3>1. DOMAIN e = bad /\ validateSchemas.errors = {e[f] : f \in DOMAIN e}
      BY <1>1
    <3> HIDE DEF e, bad
    <3>2. QED
      BY <3>1
  <2> HIDE DEF bad
  <2>2. QED
    BY <1>4, <2>1 DEF HasErrors
<1>6. "dk.lock not found" \notin validateSchemas.warnings
  BY <1>1
<1> HIDE DEF bad, unread, e, w
<1>7. QED
  BY <1>1, <1>3, <1>4, <1>5, <1>6 DEF Sound

\* Datasets that load are finitely many, with lists of fields.
LEMMA LoadedAreReadable ==
  ASSUME FilesInv, DataSetsLoad
  PROVE  IsFiniteSet(LoadAllDataSets) /\ \A ds \in LoadAllDataSets : IsList(ds.schema)
<1> DEFINE f == [d \in ToSet(DatasetDirs) |-> datasets[d]]
<1>1. IsList(DatasetDirs)
  BY PackagesAssumption, SeqOfRange, Zenon DEF IsList, ToSet, Range
<1>2. LoadAllDataSets \subseteq {f[d] : d \in DOMAIN f} /\ DOMAIN f = ToSet(DatasetDirs)
  BY DEF LoadAllDataSets
<1>3. \A ds \in LoadAllDataSets : IsList(ds.schema)
  BY DEF LoadAllDataSets, FilesInv, Readable, DataSetsLoad
<1> HIDE DEF f
<1>4. IsFiniteSet({f[d] : d \in DOMAIN f})
  BY <1>1, <1>2, ListsAreFinite, ImagesAreFinite
<1>5. QED
  BY <1>2, <1>3, <1>4, FS_Subset

\* The result of the dataset validator is sound and has no E312.
LEMMA DataSetsAreSound ==
  ASSUME FilesInv
  PROVE  /\ Sound(validateDataSets) /\ \A i \in validateDataSets.errors : i[2] # "E312"
         /\ "dk.lock not found" \notin validateDataSets.warnings
<1>1. CASE ~DataSetsLoad
  BY <1>1, OneWarningIsSound DEF validateDataSets, AddWarning
<1>2. CASE DataSetsLoad
  <2> DEFINE issues == UNION {validateStructure(ds) : ds \in LoadAllDataSets}
             f == [ds \in LoadAllDataSets |-> validateStructure(ds)]
  <2>1. validateDataSets = [valid |-> ~HasErrors(issues), errors |-> issues, warnings |-> {}]
    BY <1>2 DEF validateDataSets
  <2>2. /\ DOMAIN f = LoadAllDataSets /\ \A ds \in DOMAIN f : f[ds] = validateStructure(ds)
        /\ issues = UNION {f[ds] : ds \in DOMAIN f}
    OBVIOUS
  <2> HIDE DEF issues, f
  <2>3. IsFiniteSet(DOMAIN f) /\ \A ds \in DOMAIN f : Plain(f[ds])
    BY <1>2, <2>2, LoadedAreReadable, StructureIsPlain
  <2>4. Plain(issues)
    BY <2>2, <2>3, UnionIsPlain
  <2>5. QED
    BY <2>1, <2>4, FS_EmptySet DEF Plain, Sound, HasErrors
<1>3. QED
  BY <1>1, <1>2

\* The result of the lock validator is sound, and an E312 names a missing module.
LEMMA LockIsSound ==
  ASSUME FilesInv
  PROVE  /\ Sound(validateSchemaLock)
         /\ (\E i \in validateSchemaLock.errors : i[2] = "E312") =>
              /\ lock.state = "present" /\ DataSetsLoad
              /\ \E r \in SchemaRefs : ParseSchemaRef(r).module \notin DOMAIN lock.schemas
         /\ "dk.lock not found" \in validateSchemaLock.warnings =>
              lock.state = "absent" /\ DataSetsLoad /\ SchemaRefs # {}
<1> DEFINE missing == {r \in SchemaRefs : ParseSchemaRef(r).module \notin DOMAIN lock.schemas}
           e == [r \in missing |-> Err("E312", ParseSchemaRef(r).module)]
<1>1. CASE lock.state = "garbled"
  <2>1. validateSchemaLock = AddWarning("dk.lock")
    BY <1>1 DEF validateSchemaLock
  <2>2. QED
    BY <2>1, OneWarningIsSound DEF AddWarning
<1>2. CASE lock.state # "garbled" /\ ~DataSetsLoad
  <2>1. validateSchemaLock = Valid
    BY <1>2 DEF validateSchemaLock
  <2>2. QED
    BY <2>1, ValidIsSound DEF Valid
<1>3. CASE lock.state = "absent" /\ DataSetsLoad
  <2>1. validateSchemaLock = IF SchemaRefs # {} THEN AddWarning("dk.lock not found") ELSE Valid
    BY <1>3 DEF validateSchemaLock
  <2>2. QED
    BY <1>3, <2>1, OneWarningIsSound, ValidIsSound DEF AddWarning, Valid
<1>4. CASE lock.state = "present" /\ DataSetsLoad
  <2>1. /\ validateSchemaLock.valid = (missing = {}) /\ validateSchemaLock.warnings = {}
        /\ validateSchemaLock.errors = {e[r] : r \in DOMAIN e}
    BY <1>4 DEF validateSchemaLock
  <2>2. DOMAIN e = missing /\ \A r \in missing : e[r][1] = "error"
    BY ErrorIs
  <2>3. missing # {} => \E r \in SchemaRefs : ParseSchemaRef(r).module \notin DOMAIN lock.schemas
    OBVIOUS
  <2>4. IsFiniteSet(missing)
    <3> DEFINE f == [ds \in LoadAllDataSets |-> ds.ref]
    <3>1. missing \subseteq {f[ds] : ds \in DOMAIN f} /\ DOMAIN f = LoadAllDataSets
      BY DEF SchemaRefs
    <3> HIDE DEF f, missing
    <3>2. IsFiniteSet(DOMAIN f)
      BY <1>4, <3>1, LoadedAreReadable
    <3>3. IsFiniteSet({f[ds] : ds \in DOMAIN f})
      BY <3>2, ImagesAreFinite
    <3>4. QED
      BY <3>1, <3>3, FS_Subset
  <2> HIDE DEF e, missing
  <2>5. IsFiniteSet(validateSchemaLock.errors)
    BY <2>1, <2>2, <2>4, ImagesAreFinite
  <2>6. HasErrors(validateSchemaLock.errors) <=> missing # {}
    BY <2>1, <2>2 DEF HasErrors
  <2>7. QED
    BY <1>4, <2>1, <2>2, <2>3, <2>5, <2>6, FS_EmptySet DEF Sound
<1>5. QED
  BY <1>1, <1>2, <1>3, <1>4 DEF FilesInv

\* What Validate puts together.
LEMMA ValidateIs ==
  /\ Validate = MergeResults(MergeResults(ManifestResult, validateSchemas),
                            MergeResults(validateDataSets, validateSchemaLock))
  /\ Validate.errors = (ManifestResult.errors \cup validateSchemas.errors)
                       \cup (validateDataSets.errors \cup validateSchemaLock.errors)
  /\ Validate.warnings = (ManifestResult.warnings \cup validateSchemas.warnings)
                         \cup (validateDataSets.warnings \cup validateSchemaLock.warnings)
<1>1. Validate = MergeResults(MergeResults(ManifestResult, validateSchemas),
                              MergeResults(validateDataSets, validateSchemaLock))
  BY Zenon DEF Validate, ManifestResult
<1>2. \A r, s : /\ MergeResults(r, s).errors = r.errors \cup s.errors
                /\ MergeResults(r, s).warnings = r.warnings \cup s.warnings
  BY DEF MergeResults
<1> DEFINE first == MergeResults(ManifestResult, validateSchemas)
           second == MergeResults(validateDataSets, validateSchemaLock)
<1>3. /\ first.errors = ManifestResult.errors \cup validateSchemas.errors
      /\ first.warnings = ManifestResult.warnings \cup validateSchemas.warnings
      /\ second.errors = validateDataSets.errors \cup validateSchemaLock.errors
      /\ second.warnings = validateDataSets.warnings \cup validateSchemaLock.warnings
  BY <1>2
<1>4. Validate = MergeResults(first, second)
  BY <1>1
<1> HIDE DEF first, second
<1>5. /\ Validate.errors = first.errors \cup second.errors
      /\ Validate.warnings = first.warnings \cup second.warnings
  BY <1>2, <1>4
<1>6. QED
  BY <1>1, <1>3, <1>5

\* The result of Validate is sound.
LEMMA ValidateIsSound == FilesInv => Sound(Validate)
BY ManifestIsSound, SchemasAreSound, DataSetsAreSound, LockIsSound, MergedIsSound, ValidateIs

-----------------------------------------------------------------------------
(* The verdicts of the commands.                                           *)

\* A finite set has elements when their number is positive.
LEMMA CountsAgree == \A S : IsFiniteSet(S) => (Cardinality(S) > 0 <=> S # {})
BY FS_CardinalityType, FS_EmptySet

\* The commands' verdicts agree on all files there can be.
LEMMA FilesMeanAgreement == FilesInv => LintsAgree
<1> SUFFICES ASSUME FilesInv PROVE LintsAgree
  OBVIOUS
<1> DEFINE r == Validate
           bad == HasErrors(r.errors)
<1>1. Sound(r)
  BY ValidateIsSound
<1>2. dkYaml = AbsentFile \/ ~ParseManifest(dkYaml) => bad
  BY ManifestIsSound, ValidateIs DEF HasErrors
<1>3. ~DataSetValidateFails => validateDataSets = Valid
  <2>1. ASSUME DataSetsLoad, \A ds \in LoadAllDataSets : validateStructure(ds) = {}
        PROVE  UNION {validateStructure(ds) : ds \in LoadAllDataSets} = {}
    BY <2>1
  <2>2. ~HasErrors({})
    BY DEF HasErrors
  <2>3. QED
    BY <2>1, <2>2 DEF DataSetValidateFails, validateDataSets, Valid
<1> HIDE DEF r
<1>4. BuildFails(r) <=> bad
  BY <1>1, <1>2 DEF BuildFails, Sound
<1>5. LintFails(r, FALSE) <=> bad
  BY <1>1 DEF LintFails, Sound
<1>6. ASSUME NEW strict \in BOOLEAN, dkYaml.kind = "Transform"
      PROVE  ProjectLintFails(r, strict) <=> LintFails(r, strict)
  <2> DEFINE passed == r.valid /\ r.warnings = {}
             errors == IF ~passed /\ HasErrors(r.errors) THEN Cardinality(r.errors) ELSE 0
             warnings == IF passed THEN 0 ELSE Cardinality(r.warnings)
  <2>1. ProjectLintFails(r, strict) <=> errors > 0 \/ (strict /\ warnings > 0)
    BY <1>6 DEF ProjectLintFails
  <2>2. errors > 0 <=> ~passed /\ HasErrors(r.errors)
    <3>1. HasErrors(r.errors) => r.errors # {}
      BY DEF HasErrors
    <3>2. QED
      BY <1>1, <3>1, CountsAgree DEF Sound
  <2>3. warnings > 0 <=> ~passed /\ r.warnings # {}
    BY <1>1, CountsAgree DEF Sound
  <2> HIDE DEF errors, warnings
  <2>4. QED
    BY <2>1, <2>2, <2>3 DEF LintFails
<1>7. QED
  BY <1>3, <1>4, <1>5, <1>6, Zenon DEF LintsAgree, r

\* The commands agree in every package: the verdict of a result, its issues and their
\* number always say the same, since it is so for the result of each validator and
\* MergeResults keeps it.
THEOREM LintsAgreeHolds == PackagesSpec => []LintsAgree
<1>1. PackagesSpec => []FilesInv
  BY InitFiles, NextFiles, PTL DEF PackagesSpec
<1>2. QED
  BY <1>1, FilesMeanAgreement, PTL

-----------------------------------------------------------------------------
(* dk lock: what a process holds, and what is in dk.lock once one ended.   *)

NoneWrites == \A l \in Lockers : lockers[l].pc # "truncated"

\* Between two changes of the package, the processes that started after the first
\* hold what is to be locked, and the last that ended left it.
LockInv ==
  /\ DOMAIN lockers = Lockers /\ \A l \in Lockers : "current" \in DOMAIN lockers[l]
  /\ \A l \in Lockers : lockers[l].pc # "idle" /\ lockers[l].current =>
       lockers[l].schemas = buildLockFromRefs(collectSchemaRefs)
  /\ locked /\ NoneWrites =>
       Refs(collectSchemaRefs) = {} \/ lock = Lock(buildLockFromRefs(collectSchemaRefs))

\* The references change only with the package.
LEMMA RefsStay ==
  dkYaml' = dkYaml /\ datasets' = datasets => collectSchemaRefs' = collectSchemaRefs
BY DEF collectSchemaRefs, extractTransformSchemaRefs, DataSetsLoad

\* What is to be locked changes only with the package.
LEMMA BuiltStays ==
  dkYaml' = dkYaml /\ datasets' = datasets =>
    /\ Refs(collectSchemaRefs)' = Refs(collectSchemaRefs)
    /\ buildLockFromRefs(collectSchemaRefs)' = buildLockFromRefs(collectSchemaRefs)
BY RefsStay DEF Refs, buildLockFromRefs, lockedVersion, ParseSchemaRef

\* The invariant of the lock holds before any dk lock.
LEMMA InitLock == PackagesInit => LockInv
BY DEF PackagesInit, LockInv, IdleLocker

\* Every edit and every step of dk lock keeps the invariant of the lock.
LEMMA NextLock == LockInv /\ [PackagesNext]_packageVars => LockInv'
<1> SUFFICES ASSUME LockInv, [PackagesNext]_packageVars PROVE LockInv'
  OBVIOUS
<1> DEFINE built == buildLockFromRefs(collectSchemaRefs)
           refs == Refs(collectSchemaRefs)
<1>1. dkYaml' = dkYaml /\ datasets' = datasets => built' = built /\ refs' = refs
  BY BuiltStays
<1>2. /\ DOMAIN lockers = Lockers /\ \A l \in Lockers : "current" \in DOMAIN lockers[l]
      /\ \A l \in Lockers : lockers[l].pc # "idle" /\ lockers[l].current =>
           lockers[l].schemas = built
      /\ locked /\ NoneWrites => refs = {} \/ lock = Lock(built)
  BY DEF LockInv
<1> DEFINE Inv == /\ DOMAIN lockers' = Lockers
                  /\ \A l \in Lockers : "current" \in DOMAIN lockers'[l]
                  /\ \A l \in Lockers : lockers'[l].pc # "idle" /\ lockers'[l].current =>
                       lockers'[l].schemas = built'
                  /\ locked' /\ NoneWrites' => refs' = {} \/ lock' = Lock(built)'
<1>3. SUFFICES Inv
  BY DEF LockInv
<1>4. ASSUME NEW l \in Lockers, CollectRefs(l) PROVE Inv
  <2>1. built' = built /\ refs' = refs /\ lock' = lock
    BY <1>1, <1>4 DEF CollectRefs
  <2>2. CASE refs = {}
    <3>1. lockers' = lockers
      BY <1>4, <2>2 DEF CollectRefs
    <3> HIDE DEF built, refs
    <3>2. QED
      BY <1>2, <2>1, <2>2, <3>1
  <2>3. CASE refs # {}
    <3>1. /\ lockers' = [lockers EXCEPT ![l] =
                [pc |-> "collected", schemas |-> built, current |-> TRUE]]
          /\ locked' = locked /\ lockers[l].pc = "idle"
      BY <1>4, <2>3 DEF CollectRefs
    <3> HIDE DEF built, refs
    <3>2. NoneWrites' => NoneWrites
      BY <1>2, <3>1 DEF NoneWrites
    <3>3. QED
      BY <1>2, <2>1, <3>1, <3>2 DEF Lock
  <2>4. QED
    BY <2>2, <2>3
<1>5. ASSUME NEW l \in Lockers, TruncateLock(l) PROVE Inv
  <2>1. built' = built /\ refs' = refs
    BY <1>1, <1>5 DEF TruncateLock
  <2> HIDE DEF built, refs
  <2>2. ~NoneWrites'
    BY <1>2, <1>5 DEF TruncateLock, NoneWrites
  <2>3. QED
    BY <1>2, <1>5, <2>1, <2>2 DEF TruncateLock
<1>6. ASSUME NEW l \in Lockers, WriteLockFile(l) PROVE Inv
  <2>1. built' = built /\ refs' = refs
    BY <1>1, <1>6 DEF WriteLockFile
  <2> HIDE DEF built, refs
  <2>2. locked' => lockers[l].current /\ lock' = Lock(lockers[l].schemas)
    BY <1>6 DEF WriteLockFile
  <2>3. locked' => lock' = Lock(built)'
    BY <1>2, <1>6, <2>1, <2>2 DEF WriteLockFile, Lock
  <2>4. QED
    BY <1>2, <1>6, <2>1, <2>3 DEF WriteLockFile, IdleLocker
<1>7. ASSUME NEW l \in Lockers, LockKilled(l) PROVE Inv
  <2>1. built' = built /\ refs' = refs /\ lock' = lock
    BY <1>1, <1>7 DEF LockKilled
  <2> HIDE DEF built, refs
  <2>2. locked' /\ NoneWrites' => locked /\ NoneWrites
    BY <1>2, <1>7 DEF LockKilled, NoneWrites, IdleLocker
  <2>3. QED
    BY <1>2, <1>7, <2>1, <2>2 DEF LockKilled, IdleLocker, Lock
<1>8. ASSUME Changed PROVE Inv
  <2> HIDE DEF built, refs
  <2> QED
    BY <1>2, <1>8 DEF Changed
<1>9. ASSUME NEW d, NEW store, NEW force, Scaffold(d, store, force) PROVE Inv
  BY <1>8, <1>9, Zenon DEF Scaffold
<1>10. ASSUME NEW d, NEW store, NEW force, NEW c, runDataSetAdd(d, c, store, force) PROVE Inv
  BY <1>8, <1>10, Zenon DEF runDataSetAdd
<1>11. ASSUME NEW m, EditDkYaml(m) PROVE Inv
  BY <1>8, <1>11, Zenon DEF EditDkYaml
<1>12. ASSUME NEW d, NEW f, EditDataset(d, f) PROVE Inv
  BY <1>8, <1>12, Zenon DEF EditDataset
<1>13. ASSUME NEW files, EditSchemas(files) PROVE Inv
  BY <1>8, <1>13, Zenon DEF EditSchemas
<1>14. CASE EditLock
  <2>1. built' = built
    BY <1>1, <1>14 DEF EditLock
  <2> HIDE DEF built, refs
  <2>2. QED
    BY <1>2, <1>14, <2>1 DEF EditLock
<1>15. CASE UNCHANGED packageVars
  <2>1. built' = built /\ refs' = refs
    BY <1>1, <1>15 DEF packageVars
  <2> HIDE DEF built, refs
  <2>2. QED
    BY <1>2, <1>15, <2>1 DEF packageVars, NoneWrites, Lock
<1>16. QED
  <2> HIDE DEF Inv
  <2> QED
    BY <1>4, <1>5, <1>6, <1>7, <1>9, <1>10, <1>11, <1>12, <1>13, <1>14, <1>15, Zenon
       DEF PackagesNext

\* The invariants mean that what is verified lints.
LEMMA LockMeansLint == FilesInv /\ LockInv => VerifiedLints
<1> SUFFICES ASSUME FilesInv, LockInv PROVE VerifiedLints
  OBVIOUS
<1> DEFINE refs == Refs(collectSchemaRefs)
           built == buildLockFromRefs(collectSchemaRefs)
<1>1. IsList(collectSchemaRefs) /\ (DataSetsLoad => SchemaRefs \subseteq refs)
  BY CollectedRefs DEF FilesInv
<1>2. ASSUME ~VerifyFails, NEW i \in Validate.errors PROVE i[2] # "E312"
  <2>1. ASSUME i \in validateSchemaLock.errors, i[2] = "E312" PROVE FALSE
    BY <1>1, <1>2, <2>1, LockIsSound DEF VerifyFails
  <2>2. QED
    BY <2>1, ManifestIsSound, SchemasAreSound, DataSetsAreSound, ValidateIs
<1>3. ASSUME ~VerifyFails PROVE "dk.lock not found" \notin Validate.warnings
  <2>1. ASSUME "dk.lock not found" \in validateSchemaLock.warnings PROVE FALSE
    BY <1>1, <1>3, <2>1, LockIsSound DEF VerifyFails
  <2>2. QED
    BY <2>1, ManifestIsSound, SchemasAreSound, DataSetsAreSound, ValidateIs
<1>4. ASSUME locked, NoneWrites
      PROVE  /\ ~VerifyFails
             /\ \A r \in refs : LET m == ParseSchemaRef(r).module IN
                  \E q \in refs : /\ ParseSchemaRef(q).module = m
                                /\ lock.schemas[m] = lockedVersion(q)
  <2>1. refs = {} \/ (lock.state = "present" /\ lock.schemas = built)
    BY <1>4 DEF LockInv, Lock
  <2>2. ASSUME NEW r \in refs, lock.schemas = built
        PROVE  /\ ParseSchemaRef(r).module \in DOMAIN lock.schemas
               /\ \E q \in refs : /\ ParseSchemaRef(q).module = ParseSchemaRef(r).module
                                 /\ lock.schemas[ParseSchemaRef(r).module] = lockedVersion(q)
    BY <1>1, <2>2, BuiltLock
  <2> HIDE DEF built
  <2>3. QED
    BY <2>1, <2>2 DEF VerifyFails
<1>5. QED
  BY <1>2, <1>3, <1>4, Zenon DEF VerifiedLints, NoneWrites

\* Lint follows lock in every package: dk lock takes the references of all datasets that
\* load and of dk.yaml, which are more than those that lint looks for, and of the
\* processes that end without a change of the package since they started, one that
\* wrote dk.lock alone left the versions of just these references in it.
THEOREM VerifiedLintsHolds == PackagesSpec => []VerifiedLints
<1>1. PackagesSpec => [](FilesInv /\ LockInv)
  BY InitFiles, NextFiles, InitLock, NextLock, PTL DEF PackagesSpec
<1>2. QED
  BY <1>1, LockMeansLint, PTL
=============================================================================
