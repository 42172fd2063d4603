------------------------------ MODULE Worktrees -------------------------------
(***************************************************************************)
(* packages/worktrees: WorktreeManager.provision and release over its      *)
(* RecordStore and git, as the launch path of the orchestrator uses them:  *)
(* one provision per run (LaunchedAtMostOnce of Agentd), then either a     *)
(* worker in the worktree and a release that keeps the files, or a failure *)
(* before the worker and a release that removes them.                      *)
(*                                                                         *)
(* Several runs are at it at once, any step may be the last one before the *)
(* daemon dies, and what git and the records hold stays.  All worktrees    *)
(* belong to one repository.  An action is the code between two awaits     *)
(* that touch shared state.                                                *)
(***************************************************************************)
CONSTANTS Runs, NoRun,
          Torn,     \* a claim file created but not written: it does not parse
          Paths,    \* canonical worktree paths under the root
          Within,   \* <<p, q>>: p is a directory somewhere inside q
          Faults    \* what can fail: "git", "disk"

ASSUME NoneAssumption == NoRun \notin Runs /\ Torn \notin Runs

VARIABLES
  holder,   \* the record at the path's file name: whose claim
  facts,    \* which of createdAt and releasedAt the record has
  tree,     \* the directory at the path
  listed,   \* paths git lists as worktrees of the repository
  worked,   \* paths a worker was started in and that may hold its work
  pc,       \* per run: how far its launch, or its release, is
  path,     \* the worktree path its task names
  keep      \* release with remove: false

files == <<holder, facts, tree, listed>>
vars == <<files, worked, pc, path, keep>>

Provisioning == {"claim", "parent", "add", "describe", "mark"}
Releasing == {"prove", "check", "remove", "prune", "sweep", "close"}
Placed == {"place", "work"}

TypeOK ==
  /\ holder \in [Paths -> Runs \cup {NoRun, Torn}]
  /\ facts \in [Paths -> SUBSET {"createdAt", "releasedAt"}]
  /\ tree \in [Paths -> {"absent", "empty", "occupied", "made"}]
  /\ listed \subseteq Paths
  /\ worked \subseteq Paths
  /\ pc \in [Runs -> Provisioning \cup Releasing \cup Placed \cup {"idle", "done"}]
  /\ path \in [Runs -> Paths]
  /\ keep \in [Runs -> BOOLEAN]

(* What is on disk before the first run is not ours.  *)
Init ==
  /\ holder = [p \in Paths |-> NoRun]
  /\ facts = [p \in Paths |-> {}]
  /\ tree \in [Paths -> {"absent", "occupied"}]
  /\ \A e \in Within : tree[e[1]] = "occupied" => tree[e[2]] = "occupied"
  /\ listed = {}
  /\ worked = {}
  /\ pc = [r \in Runs |-> "idle"]
  /\ path \in [Runs -> Paths]
  /\ keep = [r \in Runs |-> FALSE]

-----------------------------------------------------------------------------
(* The filesystem as git and mkdir see it. *)

WithParents(t, p) ==
  [q \in Paths |-> IF <<p, q>> \in Within /\ t[q] = "absent" THEN "empty" ELSE t[q]]

Without(t, p) ==
  [q \in Paths |-> IF q = p \/ <<q, p>> \in Within THEN "absent" ELSE t[q]]

(* `git worktree add` takes a path that is not there or an empty directory. *)
Free(p) ==
  /\ tree[p] \in {"absent", "empty"}
  /\ \A q \in Paths : <<q, p>> \in Within => tree[q] = "absent"

-----------------------------------------------------------------------------
(* provision *)

Step(r, from, to) == pc[r] = from /\ pc' = [pc EXCEPT ![r] = to]

(* The claim forgotten on the way. *)
BeginUnclaimed(r) ==
  /\ Step(r, "idle", "parent")
  /\ UNCHANGED <<files, worked, path, keep>>

(* The checks before the claim (containment, identity, audit, base) pass,   *)
(* or #failBeforeLaunch releases what was never claimed.                    *)
Begin(r) ==
  /\ Step(r, "idle", "claim") \/ Step(r, "idle", "prove")
  /\ UNCHANGED <<files, worked, path, keep>>

(* A claim that looks first and writes afterwards. *)
ClaimOverwrites(r) ==
  /\ Step(r, "claim", "parent")
  /\ holder' = [holder EXCEPT ![path[r]] = r]
  /\ facts' = [facts EXCEPT ![path[r]] = {}]
  /\ UNCHANGED <<tree, listed, worked, path, keep>>

(* O_EXCL, then the contents. *)
Claim(r) ==
  /\ LET p == path[r] IN
       \/ /\ holder[p] = NoRun
          /\ Step(r, "claim", "parent")
          /\ holder' = [holder EXCEPT ![p] = r]
       \/ /\ holder[p] = NoRun /\ "disk" \in Faults
          /\ Step(r, "claim", "prove")
          /\ holder' \in {holder, [holder EXCEPT ![p] = Torn], [holder EXCEPT ![p] = r]}
       \/ /\ holder[p] # NoRun
          /\ Step(r, "claim", "prove")
          /\ UNCHANGED holder
  /\ UNCHANGED <<facts, tree, listed, worked, path, keep>>

MakeParent(r) ==
  /\ \/ Step(r, "parent", "add") /\ tree' = WithParents(tree, path[r])
     \/ "disk" \in Faults /\ Step(r, "parent", "prove") /\ UNCHANGED tree
  /\ UNCHANGED <<holder, facts, listed, worked, path, keep>>

(* A git that ran out of time may have done all of it or nothing. *)
Add(r) ==
  /\ LET p == path[r]
         Added == /\ Free(p)
                  /\ tree' = [WithParents(tree, p) EXCEPT ![p] = "made"]
                  /\ listed' = listed \cup {p}
     IN \/ Step(r, "add", "describe") /\ Added
        \/ ~Free(p) /\ Step(r, "add", "prove") /\ UNCHANGED <<tree, listed>>
        \/ "git" \in Faults /\ Step(r, "add", "prove") /\ UNCHANGED <<tree, listed>>
        \/ "git" \in Faults /\ Step(r, "add", "prove") /\ Added
  /\ UNCHANGED <<holder, facts, worked, path, keep>>

(* describeWorktree runs in the directory: it fails if that has gone.       *)
Describe(r) ==
  /\ \/ tree[path[r]] = "made" /\ Step(r, "describe", "mark")
     \/ (tree[path[r]] # "made" \/ "git" \in Faults) /\ Step(r, "describe", "prove")
  /\ UNCHANGED <<files, worked, path, keep>>

MarkCreated(r) ==
  /\ LET Marked == facts' = [facts EXCEPT ![path[r]] = @ \cup {"createdAt"}]
     IN \/ Step(r, "mark", "place") /\ Marked
        \/ "disk" \in Faults /\ Step(r, "mark", "prove") /\ (Marked \/ UNCHANGED facts)
  /\ UNCHANGED <<holder, tree, listed, worked, path, keep>>

provision(r) ==
  Begin(r) \/ Claim(r) \/ MakeParent(r) \/ Add(r) \/ Describe(r) \/ MarkCreated(r)

-----------------------------------------------------------------------------
(* The orchestrator between the two: worker home, sandbox and spawn succeed *)
(* and the worker runs, or #failBeforeLaunch undoes the workspace; when the *)
(* worker is over (or abandoned), #closeWorkspace keeps it.                 *)

Launch(r) ==
  /\ \/ Step(r, "place", "work") /\ worked' = worked \cup {path[r]}
     \/ Step(r, "place", "prove") /\ UNCHANGED worked
  /\ UNCHANGED <<files, path, keep>>

Finish(r) ==
  /\ Step(r, "work", "prove")
  /\ keep' = [keep EXCEPT ![r] = TRUE]
  /\ UNCHANGED <<files, worked, path>>

-----------------------------------------------------------------------------
(* release *)

(* Any run may release what the record says is there. *)
ProveAnyOwner(r) ==
  /\ holder[path[r]] \notin {NoRun, Torn} /\ "releasedAt" \notin facts[path[r]]
  /\ Step(r, "prove", IF "createdAt" \in facts[path[r]] THEN "check" ELSE "close")
  /\ UNCHANGED <<files, worked, path, keep>>

(* #proveOwnership, and the two early exits: a record already closed, and a *)
(* claim that never became a worktree, which is closed and no more.         *)
ProveOwnership(r) ==
  /\ LET p == path[r] IN
       \/ /\ holder[p] = r /\ "releasedAt" \notin facts[p]
          /\ Step(r, "prove", IF "createdAt" \in facts[p] THEN "check" ELSE "close")
       \/ /\ holder[p] # r \/ "releasedAt" \in facts[p] \/ "disk" \in Faults
          /\ Step(r, "prove", "done")
  /\ UNCHANGED <<files, worked, path, keep>>

(* git must agree that the path is a worktree of the repository. *)
CheckListed(r) ==
  /\ \/ path[r] \in listed /\ Step(r, "check", IF keep[r] THEN "close" ELSE "remove")
     \/ (path[r] \notin listed \/ "git" \in Faults) /\ Step(r, "check", "done")
  /\ UNCHANGED <<files, worked, path, keep>>

(* `git worktree remove --force` takes the directory with all that is in it *)
(* and the entry; a failure leaves the record open.                         *)
Remove(r) ==
  /\ LET p == path[r]
         Removed == p \in listed /\ tree' = Without(tree, p) /\ listed' = listed \ {p}
     IN \/ Step(r, "remove", "prune") /\ Removed
        \/ p \notin listed /\ Step(r, "remove", "done") /\ UNCHANGED <<tree, listed>>
        \/ "git" \in Faults /\ Step(r, "remove", "done") /\ (Removed \/ UNCHANGED <<tree, listed>>)
  /\ UNCHANGED <<holder, facts, worked, path, keep>>

(* `git worktree prune` drops every entry whose directory is gone; its      *)
(* failure is ignored.                                                      *)
Prune(r) ==
  /\ Step(r, "prune", "sweep")
  /\ \/ listed' = {p \in listed : tree[p] = "made"}
     \/ "git" \in Faults /\ UNCHANGED listed
  /\ UNCHANGED <<holder, facts, tree, worked, path, keep>>

(* rm -rf, in case an empty directory survived. *)
Sweep(r) ==
  /\ Step(r, "sweep", "close")
  /\ tree' \in {Without(tree, path[r])} \cup (IF "disk" \in Faults THEN {tree} ELSE {})
  /\ UNCHANGED <<holder, facts, listed, worked, path, keep>>

(* The release under a name of its own, which no reader of records knows.   *)
ReleasedFactsUnknown(f) == f \cup {"closedAt"}

ReleasedFacts(f) == f \cup {"releasedAt"}

Close(r) ==
  /\ Step(r, "close", "done")
  /\ \/ facts' = [facts EXCEPT ![path[r]] = ReleasedFacts(@)]
     \/ "disk" \in Faults /\ UNCHANGED facts
  /\ UNCHANGED <<holder, tree, listed, worked, path, keep>>

release(r) ==
  ProveOwnership(r) \/ CheckListed(r) \/ Remove(r) \/ Prune(r) \/ Sweep(r) \/ Close(r)

-----------------------------------------------------------------------------
(* The daemon dies: no call goes on, a claim may be caught half written,    *)
(* and recovery touches no worktree.                                        *)
Crash ==
  /\ \E r \in Runs : pc[r] \notin {"idle", "done"}
  /\ pc' = [r \in Runs |-> IF pc[r] = "idle" THEN "idle" ELSE "done"]
  /\ \/ UNCHANGED holder
     \/ \E r \in Runs : /\ pc[r] = "claim" /\ holder[path[r]] = NoRun
                        /\ holder' = [holder EXCEPT ![path[r]] = Torn]
  /\ UNCHANGED <<facts, tree, listed, worked, path, keep>>

Next ==
  \/ \E r \in Runs : provision(r) \/ Launch(r) \/ Finish(r) \/ release(r)
  \/ Crash

Spec == Init /\ [][Next]_vars

-----------------------------------------------------------------------------
(***************************************************************************)
(* Properties.                                                             *)
(***************************************************************************)

(* "Two writers never share a working directory": runs that have a          *)
(* workspace have different ones, and each has the record to show for it    *)
(* (claim with O_EXCL, #proveOwnership).                                    *)
ExclusivePaths ==
  /\ \A r \in Runs : pc[r] \in Placed =>
       holder[path[r]] = r /\ facts[path[r]] = {"createdAt"}
  /\ \A r, s \in Runs : pc[r] \in Placed /\ pc[s] \in Placed /\ path[r] = path[s] => r = s

(* "The opposite order leaves a directory nothing claims": at every moment, *)
(* so after every crash, a worktree of ours has a record naming a run, and  *)
(* a worker's files are under the record of the run whose worker it was.    *)
EvidenceFirst ==
  /\ \A p \in Paths : tree[p] = "made" \/ p \in listed => holder[p] \in Runs
  /\ \A p \in worked : holder[p] \in Runs /\ path[holder[p]] = p

(* A directory a worker was started in is never removed, whichever runs ask *)
(* for its path and fail (#failBeforeLaunch: "nothing ran").                *)
NoWorkLost == [][\A p \in worked : tree'[p] = tree[p]]_vars

=============================================================================
