------------------------------- MODULE Admission -------------------------------
(***************************************************************************)
(* What a task may ask for and where it may run, as constant operators:    *)
(* the task schema, the policy engine (packages/policy), the choice of a   *)
(* sandbox provider and the host provider's last checks (packages/sandbox),*)
(* and the environment a worker gets.                                      *)
(*                                                                         *)
(* A path is the sequence of its names, `links` says where each symbolic   *)
(* link of the file system really leads.  The target of a link is a real   *)
(* path that exists.                                                       *)
(***************************************************************************)
EXTENDS Naturals, Sequences, SequencesExt

CONSTANTS Home,         \* the operator's home directory
          Secrets,      \* paths of the strict denylist
          Repositories  \* ids in repositories.json

-----------------------------------------------------------------------------
(* packages/policy/src/path-containment.ts *)

(* realpath of the nearest ancestor that exists, and the rest as spelled.   *)
resolveExistingAncestor(path, links) ==
  LET Enter(real, name) == LET here == Append(real, name)
                           IN IF here \in DOMAIN links THEN links[here] ELSE here
  IN FoldLeft(Enter, <<>>, path)

isLexicallyContained(candidate, container) == IsPrefix(container, candidate)

assertContained(candidate, container, links) ==
  isLexicallyContained(resolveExistingAncestor(candidate, links),
                       resolveExistingAncestor(container, links))

(* packages/sandbox/src/denied-paths.ts: neither inside a secret, nor around*)
(* one, nor the home directory or the root as a whole.                      *)
assertNotDenied(path, links) ==
  /\ \A secret \in Secrets : /\ ~assertContained(path, secret, links)
                             /\ ~assertContained(secret, path, links)
  /\ \A root \in {Home, <<>>} : ~assertContained(root, path, links)

-----------------------------------------------------------------------------
(* The schema's cross-field rules, and mayPush: false as a type.            *)
agentTaskSchema(task) ==
  /\ task.hard >= task.soft
  /\ (task.network = "allowlist") <=> task.networkAllowlist
  /\ task.mayCommit => task.mayWrite
  /\ task.mayWrite => task.allowedPaths # {}
  /\ ~task.mayPush

CAPABILITIES == {"repo.read", "repo.write", "test.run", "net.fetch"}
Reviewed == {"fake", "codex", "claude", "cursor", "antigravity"}
Gated == {"claude", "cursor", "antigravity"}

Rule(name, denies) == [name |-> name, denies |-> denies]

(* The profile #profile puts in force.                                      *)
WORKSPACE_WRITE_PROFILE(sandboxAvailable) ==
  [allowWrites |-> TRUE, allowCommits |-> FALSE, allowNetwork |-> FALSE,
   sandboxAvailable |-> sandboxAvailable]

(* packages/policy/src/decide.ts, in the order the rules are asked.         *)
RULES(task, profile, links) ==
  << Rule("worker.kind-supported", task.kind \notin Reviewed),
     Rule("worker.kind-requires-sandbox",
          task.kind \in Gated /\ task.sandbox \notin {"required", "preferred"}),
     Rule("constraints.no-push", task.mayPush),
     Rule("constraints.writes", task.mayWrite /\ ~profile.allowWrites),
     Rule("constraints.commits", task.mayCommit /\ ~profile.allowCommits),
     Rule("constraints.network", task.network # "deny" /\ ~profile.allowNetwork),
     Rule("constraints.sandbox", task.sandbox = "required" /\ ~profile.sandboxAvailable),
     Rule("constraints.capabilities-known", task.capabilities \ CAPABILITIES # {}),
     Rule("constraints.capabilities-consistent",
          \/ "repo.write" \in task.capabilities /\ ~task.mayWrite
          \/ "net.fetch" \in task.capabilities /\ task.network = "deny"),
     Rule("workspace.allowed-paths-contained",
          \E path \in task.allowedPaths : ~assertContained(path, task.worktree, links)),
     Rule("limits.bounded", task.hard = 0 \/ task.hard < task.soft) >>

RULE_NAMES ==
  {"worker.kind-supported", "worker.kind-requires-sandbox", "constraints.no-push",
   "constraints.writes", "constraints.commits", "constraints.network", "constraints.sandbox",
   "constraints.capabilities-known", "constraints.capabilities-consistent",
   "workspace.allowed-paths-contained", "limits.bounded"}

(* What createTask may write on the log as the reason of its decision.      *)
DECISIONS == RULE_NAMES \cup {"default", "workspace.repository-allowlisted"}

(* The first denial wins; "default" when no rule denies.                    *)
Ask(decision, rule) ==
  IF decision = "default" /\ rule.denies THEN rule.name ELSE decision

Asking == INSTANCE Folding WITH base <- "default", step <- Ask

decide(task, profile, links) == Asking!folded(RULES(task, profile, links))

(* Orchestrator.#admit: the repository allowlist, then the policy engine.   *)
admit(task, sandboxAvailable, links) ==
  IF task.repo \in Repositories
    THEN decide(task, WORKSPACE_WRITE_PROFILE(sandboxAvailable), links)
    ELSE "workspace.repository-allowlisted"

-----------------------------------------------------------------------------
(* packages/sandbox/src/registry.ts: registration order is preference.      *)

satisfiesRequired(provider) == provider.filesystemConfinement /\ provider.processIsolation

canEnforceIsolation(available) == \E i \in DOMAIN available : satisfiesRequired(available[i])

Enforcing(available) == {i \in DOMAIN available : satisfiesRequired(available[i])}

(* A required sandbox that settles for what there is. *)
selectAnyway(mode, available) ==
  IF mode # "none" /\ Enforcing(available) # {} THEN Enforcing(available) ELSE DOMAIN available

(* The providers that will do, by their place in the registration, the      *)
(* least of which is chosen; none is a refusal.                             *)
select(mode, available) ==
  CASE mode = "required" -> Enforcing(available)
    [] mode = "preferred" /\ Enforcing(available) # {} -> Enforcing(available)
    [] OTHER -> DOMAIN available

(* HostSandboxProvider.prepare, trusting the containment admission found. *)
prepareHostOnce(task, links) ==
  /\ assertNotDenied(task.worktree, links)
  /\ \A path \in task.allowedPaths : assertNotDenied(path, links)
  /\ task.network = "deny"

(* packages/sandbox/src/host.ts: HostSandboxProvider.prepare.               *)
prepareHost(task, links) ==
  /\ assertNotDenied(task.worktree, links)
  /\ \A path \in task.allowedPaths : /\ assertNotDenied(path, links)
                                     /\ assertContained(path, task.worktree, links)
  /\ task.network = "deny"

=============================================================================
