--------------------------- MODULE WorktreesProofs ----------------------------
(***************************************************************************)
(* What holds of Worktrees for every set of runs and paths, however the    *)
(* paths nest, unless a theorem says otherwise.                            *)
(***************************************************************************)
EXTENDS Worktrees, TLAPS

USE NoneAssumption

(* mkdir -p makes directories and no worktrees; rm -rf makes nothing.       *)
LEMMA ParentsLemma ==
  ASSUME TypeOK, NEW p \in Paths
  PROVE  /\ WithParents(tree, p) \in [Paths -> {"absent", "empty", "occupied", "made"}]
         /\ \A q \in Paths : WithParents(tree, p)[q] = "made" <=> tree[q] = "made"
BY DEF TypeOK, WithParents

(* Removing a directory makes none.  *)
LEMMA WithoutLemma ==
  ASSUME TypeOK, NEW p \in Paths
  PROVE  /\ Without(tree, p) \in [Paths -> {"absent", "empty", "occupied", "made"}]
         /\ \A q \in Paths : Without(tree, p)[q] = "made" => tree[q] = "made"
BY DEF TypeOK, Without

(* What Add may do to the directory and to git's list. *)
LEMMA AddLemma ==
  ASSUME TypeOK, NEW r \in Runs, Add(r)
  PROVE  /\ Step(r, "add", "describe") \/ Step(r, "add", "prove")
         /\ UNCHANGED <<holder, facts, worked, path, keep>>
         /\ tree' \in [Paths -> {"absent", "empty", "occupied", "made"}]
         /\ listed' \subseteq listed \cup {path[r]}
         /\ \A q \in Paths : tree'[q] = "made" => tree[q] = "made" \/ q = path[r]
<1> DEFINE p == path[r]
<1>1. p \in Paths
  BY DEF TypeOK
<1>2. CASE UNCHANGED <<tree, listed>>
  BY <1>2 DEF Add, TypeOK
<1>3. CASE tree' = [WithParents(tree, p) EXCEPT ![p] = "made"] /\ listed' = listed \cup {p}
  <2> DEFINE t == WithParents(tree, p)
  <2>1. t \in [Paths -> {"absent", "empty", "occupied", "made"}]
        /\ \A q \in Paths : t[q] = "made" <=> tree[q] = "made"
    BY <1>1, ParentsLemma
  <2>2. tree' = [t EXCEPT ![p] = "made"]
    BY <1>3
  <2> HIDE DEF t
  <2>3. /\ tree' \in [Paths -> {"absent", "empty", "occupied", "made"}]
        /\ \A q \in Paths : tree'[q] = "made" => tree[q] = "made" \/ q = p
    BY <1>1, <2>1, <2>2
  <2> QED BY <1>3, <2>3 DEF Add
<1> QED BY <1>2, <1>3 DEF Add

(* Every variable keeps its type: one lemma per half of a run's life, which *)
(* touch each variable only through these operations.                       *)
LEMMA ProvisionType ==
  ASSUME TypeOK, NEW r \in Runs, provision(r)
  PROVE  TypeOK'
<1>1. CASE Begin(r)
  BY <1>1 DEF Begin, Step, TypeOK, Provisioning, Releasing, Placed, files
<1>2. CASE Claim(r)
  BY <1>2 DEF Claim, Step, TypeOK, Provisioning, Releasing, Placed
<1>3. CASE MakeParent(r)
  BY <1>3 DEF MakeParent, WithParents, Step, TypeOK, Provisioning, Releasing, Placed
<1>4. CASE Add(r)
  BY <1>4, AddLemma DEF Step, TypeOK, Provisioning, Releasing, Placed
<1>5. CASE Describe(r)
  BY <1>5 DEF Describe, Step, TypeOK, Provisioning, Releasing, Placed, files
<1>6. CASE MarkCreated(r)
  BY <1>6 DEF MarkCreated, Step, TypeOK, Provisioning, Releasing, Placed
<1> QED BY <1>1, <1>2, <1>3, <1>4, <1>5, <1>6 DEF provision

(* The same for release. *)
LEMMA ReleaseType ==
  ASSUME TypeOK, NEW r \in Runs, release(r)
  PROVE  TypeOK'
<1>1. CASE ProveOwnership(r)
  BY <1>1 DEF ProveOwnership, Step, TypeOK, Provisioning, Releasing, Placed, files
<1>2. CASE CheckListed(r)
  BY <1>2 DEF CheckListed, Step, TypeOK, Provisioning, Releasing, Placed, files
<1>3. CASE Remove(r)
  BY <1>3 DEF Remove, Without, Step, TypeOK, Provisioning, Releasing, Placed
<1>4. CASE Prune(r)
  BY <1>4 DEF Prune, Step, TypeOK, Provisioning, Releasing, Placed
<1>5. CASE Sweep(r)
  BY <1>5 DEF Sweep, Without, Step, TypeOK, Provisioning, Releasing, Placed
<1>6. CASE Close(r)
  BY <1>6 DEF Close, ReleasedFacts, Step, TypeOK, Provisioning, Releasing, Placed
<1> QED BY <1>1, <1>2, <1>3, <1>4, <1>5, <1>6 DEF release

(* Type correctness of the worktree manager, its records and git.  *)
THEOREM WorktreesTypeCorrect == Spec => []TypeOK
<1>1. Init => TypeOK
  BY DEF Init, TypeOK
<1>2. TypeOK /\ [Next]_vars => TypeOK'
  <2> SUFFICES ASSUME TypeOK, [Next]_vars PROVE TypeOK'
    OBVIOUS
  <2>1. CASE \E r \in Runs : provision(r) \/ release(r)
    BY <2>1, ProvisionType, ReleaseType
  <2>2. ASSUME NEW r \in Runs, Launch(r) \/ Finish(r) PROVE TypeOK'
    BY <2>2 DEF Launch, Finish, Step, TypeOK, Provisioning, Releasing, Placed, files
  <2>3. CASE Crash
    BY <2>3 DEF Crash, TypeOK
  <2>4. CASE UNCHANGED vars
    BY <2>4 DEF vars, files, TypeOK
  <2> QED BY <2>1, <2>2, <2>3, <2>4 DEF Next
<1> QED BY <1>1, <1>2, PTL DEF Spec

-----------------------------------------------------------------------------
(* ExclusivePaths and EvidenceFirst, made inductive.  A run past its claim  *)
(* is its path's holder, and so is one past #proveOwnership; a record has   *)
(* no facts before it is a run's, and gets them only from its holder.       *)
Unmarked == {"parent", "add", "describe", "mark"}
Proven == {"check", "remove", "prune", "sweep", "close"}

Claims ==
  /\ \A r \in Runs : pc[r] \in Unmarked \cup Placed \cup Proven => holder[path[r]] = r
  /\ \A r \in Runs : pc[r] \in Unmarked => facts[path[r]] = {}
  /\ \A r \in Runs : pc[r] \in Placed => facts[path[r]] = {"createdAt"}
  /\ \A p \in Paths : holder[p] \notin Runs => facts[p] = {}
  /\ EvidenceFirst

(* Nothing is claimed at first. *)
LEMMA ClaimsInit == Init => Claims
BY DEF Init, Claims, EvidenceFirst, Unmarked, Placed, Proven

(* Provisioning keeps the claims apart. *)
LEMMA ProvisionClaims ==
  ASSUME TypeOK, Claims, NEW r \in Runs, provision(r)
  PROVE  Claims'
<1>1. CASE Begin(r)
  BY <1>1 DEF Begin, Step, TypeOK, Claims, EvidenceFirst, Unmarked, Placed, Proven, files
<1>2. CASE Claim(r)
  BY <1>2 DEF Claim, Step, TypeOK, Claims, EvidenceFirst, Unmarked, Placed, Proven
<1>3. CASE MakeParent(r)
  <2>1. /\ UNCHANGED <<holder, facts, listed, worked, path, keep>>
        /\ \A p \in Paths : tree'[p] = "made" <=> tree[p] = "made"
    BY <1>3, ParentsLemma DEF MakeParent, TypeOK
  <2>2. Step(r, "parent", "add") \/ Step(r, "parent", "prove")
    BY <1>3 DEF MakeParent
  <2> QED BY <2>1, <2>2 DEF Step, TypeOK, Claims, EvidenceFirst, Unmarked, Placed, Proven
<1>4. CASE Add(r)
  <2>1. holder[path[r]] = r
    BY <1>4, AddLemma DEF Step, Claims, Unmarked
  <2>2. EvidenceFirst'
    BY <1>4, <2>1, AddLemma DEF Claims, EvidenceFirst
  <2> QED BY <1>4, <2>2, AddLemma DEF Step, TypeOK, Claims, Unmarked, Placed, Proven
<1>5. CASE Describe(r)
  BY <1>5 DEF Describe, Step, TypeOK, Claims, EvidenceFirst, Unmarked, Placed, Proven, files
<1>6. CASE MarkCreated(r)
  BY <1>6 DEF MarkCreated, Step, TypeOK, Claims, EvidenceFirst, Unmarked, Placed, Proven
<1> QED BY <1>1, <1>2, <1>3, <1>4, <1>5, <1>6 DEF provision

(* So does release: it acts for the holder only. *)
LEMMA ReleaseClaims ==
  ASSUME TypeOK, Claims, NEW r \in Runs, release(r)
  PROVE  Claims'
<1>1. CASE ProveOwnership(r)
  BY <1>1 DEF ProveOwnership, Step, TypeOK, Claims, EvidenceFirst, Unmarked, Placed, Proven, files
<1>2. CASE CheckListed(r)
  BY <1>2 DEF CheckListed, Step, TypeOK, Claims, EvidenceFirst, Unmarked, Placed, Proven, files
<1>3. CASE Remove(r)
  <2>1. /\ UNCHANGED <<holder, facts, worked, path, keep>>
        /\ listed' \subseteq listed
        /\ \A p \in Paths : tree'[p] = "made" => tree[p] = "made"
    BY <1>3, WithoutLemma DEF Remove, TypeOK
  <2>2. Step(r, "remove", "prune") \/ Step(r, "remove", "done")
    BY <1>3 DEF Remove
  <2>3. EvidenceFirst'
    BY <2>1 DEF Claims, EvidenceFirst
  <2> QED BY <2>1, <2>2, <2>3 DEF Step, TypeOK, Claims, Unmarked, Placed, Proven
<1>4. CASE Prune(r)
  BY <1>4 DEF Prune, Step, TypeOK, Claims, EvidenceFirst, Unmarked, Placed, Proven
<1>5. CASE Sweep(r)
  <2>1. /\ UNCHANGED <<holder, facts, worked, path, keep>>
        /\ listed' \subseteq listed
        /\ \A p \in Paths : tree'[p] = "made" => tree[p] = "made"
    BY <1>5, WithoutLemma DEF Sweep, TypeOK
  <2>2. Step(r, "sweep", "close")
    BY <1>5 DEF Sweep
  <2>3. EvidenceFirst'
    BY <2>1 DEF Claims, EvidenceFirst
  <2> QED BY <2>1, <2>2, <2>3 DEF Step, TypeOK, Claims, Unmarked, Placed, Proven
<1>6. CASE Close(r)
  BY <1>6 DEF Close, ReleasedFacts, Step, TypeOK, Claims, EvidenceFirst, Unmarked, Placed, Proven
<1> QED BY <1>1, <1>2, <1>3, <1>4, <1>5, <1>6 DEF release

(* Every step keeps the claims apart. *)
LEMMA ClaimsStep ==
  ASSUME TypeOK, Claims, [Next]_vars
  PROVE  Claims'
<1>1. CASE \E r \in Runs : provision(r) \/ release(r)
  BY <1>1, ProvisionClaims, ReleaseClaims
<1>2. ASSUME NEW r \in Runs, Launch(r)
      PROVE  Claims'
  BY <1>2 DEF Launch, Step, TypeOK, Claims, EvidenceFirst, Unmarked, Placed, Proven, files
<1>3. ASSUME NEW r \in Runs, Finish(r)
      PROVE  Claims'
  BY <1>3 DEF Finish, Step, TypeOK, Claims, EvidenceFirst, Unmarked, Placed, Proven, files
<1>4. CASE Crash
  BY <1>4 DEF Crash, TypeOK, Claims, EvidenceFirst, Unmarked, Placed, Proven
<1>5. CASE UNCHANGED vars
  BY <1>5 DEF vars, files, Claims, EvidenceFirst
<1> QED BY <1>1, <1>2, <1>3, <1>4, <1>5 DEF Next

(* The inductive invariant. *)
LEMMA ClaimsHold == Spec => [](TypeOK /\ Claims)
<1>1. TypeOK /\ Claims /\ [Next]_vars => Claims'
  BY ClaimsStep
<1> QED BY <1>1, ClaimsInit, WorktreesTypeCorrect, PTL DEF Spec

(* No two runs ever have the same workspace, and each workspace is backed   *)
(* by the claim of its run (RecordStore.claim).                             *)
THEOREM PathsAreExclusive == Spec => []ExclusivePaths
<1>1. Claims => ExclusivePaths
  BY DEF Claims, ExclusivePaths
<1> QED BY <1>1, ClaimsHold, PTL

(* No crash leaves a worktree that nothing claims (provision's order).      *)
THEOREM EveryWorktreeIsClaimed == Spec => []EvidenceFirst
<1>1. Claims => EvidenceFirst
  BY DEF Claims
<1> QED BY <1>1, ClaimsHold, PTL

-----------------------------------------------------------------------------
(* Once a worker was started in a path, the holder of the path is past the  *)
(* launch and only ever releases it with remove: false.                     *)
Kept ==
  \A r \in Runs : holder[path[r]] = r /\ path[r] \in worked =>
    \/ pc[r] \in {"work", "done"}
    \/ keep[r] /\ pc[r] \in {"prove", "check", "close"}

(* Every step keeps it so. *)
LEMMA KeptStep ==
  ASSUME TypeOK, Claims, Kept, [Next]_vars
  PROVE  Kept'
<1>1. ASSUME NEW r \in Runs, provision(r)
      PROVE  Kept'
  <2>1. CASE Begin(r)
    BY <2>1 DEF Begin, Step, TypeOK, Kept, files
  <2>2. CASE Claim(r)
    BY <2>2 DEF Claim, Step, TypeOK, Claims, EvidenceFirst, Kept
  <2>3. CASE MakeParent(r) \/ Add(r) \/ Describe(r) \/ MarkCreated(r)
    <3>1. holder[path[r]] = r /\ path[r] \notin worked
      BY <2>3 DEF MakeParent, Add, Describe, MarkCreated, Step, Claims, Unmarked, Kept
    <3> QED BY <2>3, <3>1 DEF MakeParent, Add, Describe, MarkCreated, Step, TypeOK, Kept, files
  <2> QED BY <1>1, <2>1, <2>2, <2>3 DEF provision
<1>2. ASSUME NEW r \in Runs, release(r)
      PROVE  Kept'
  <2>1. CASE ProveOwnership(r)
    BY <2>1 DEF ProveOwnership, Step, TypeOK, Kept, files
  <2>2. CASE CheckListed(r)
    BY <2>2 DEF CheckListed, Step, TypeOK, Kept, files
  <2>3. CASE Remove(r) \/ Prune(r) \/ Sweep(r) \/ Close(r)
    BY <2>3 DEF Remove, Prune, Sweep, Close, Step, TypeOK, Kept
  <2> QED BY <1>2, <2>1, <2>2, <2>3 DEF release
<1>3. ASSUME NEW r \in Runs, Launch(r)
      PROVE  Kept'
  BY <1>3 DEF Launch, Step, TypeOK, Claims, Placed, Kept, files
<1>4. ASSUME NEW r \in Runs, Finish(r)
      PROVE  Kept'
  BY <1>4 DEF Finish, Step, TypeOK, Kept, files
<1>5. CASE Crash
  BY <1>5 DEF Crash, TypeOK, Kept
<1>6. CASE UNCHANGED vars
  BY <1>6 DEF vars, files, Kept
<1> QED BY <1>1, <1>2, <1>3, <1>4, <1>5, <1>6 DEF Next

(* When no path is inside another, no daemon step ever removes a directory  *)
(* a worker was started in.  With nested paths this is false: see           *)
(* nested_worktrees.cfg.                                                    *)
THEOREM WorkKept ==
  ASSUME Within = {}
  PROVE  Spec => NoWorkLost
<1>1. Init => Kept
  BY DEF Init, Kept
<1>2. ASSUME TypeOK, Claims, Kept, [Next]_vars
      PROVE  [\A p \in worked : tree'[p] = tree[p]]_vars
  <2> SUFFICES ASSUME Next, NEW p \in worked, tree' # tree
               PROVE  tree'[p] = tree[p]
    BY <1>2 DEF vars, files
  <2>1. PICK r \in Runs : MakeParent(r) \/ Add(r) \/ Remove(r) \/ Sweep(r)
    BY DEF Next, provision, release, Begin, Claim, Describe, MarkCreated, Launch, Finish,
       ProveOwnership, CheckListed, Prune, Close, Crash, files
  <2>2. path[r] \notin worked
    BY <1>2, <2>1 DEF MakeParent, Add, Remove, Sweep, Step, Claims, Unmarked, Proven, Kept
  <2>3. p \in Paths /\ p # path[r]
    BY <1>2, <2>2 DEF TypeOK
  <2> QED BY <1>2, <2>1, <2>3 DEF MakeParent, Add, Remove, Sweep, WithParents, Without, TypeOK
<1>3. TypeOK /\ Claims /\ Kept /\ [Next]_vars => Kept'
  BY KeptStep
<1> QED BY <1>1, <1>2, <1>3, ClaimsHold, PTL DEF Spec, NoWorkLost

=============================================================================
