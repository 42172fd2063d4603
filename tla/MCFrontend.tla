------------------------------- MODULE MCFrontend -------------------------------
(* One run, two creators of its layout, and a task for every rule.          *)
EXTENDS Frontend

MCHome == <<"home">>
MCSecrets == {<<"home", "ssh">>}
MCRepositories == {"known"}

Worktree == <<"home", "trees", "run">>
Sources == Worktree \o <<"src">>

Plain ==
  [kind |-> "fake", sandbox |-> "none", network |-> "deny", networkAllowlist |-> FALSE,
   mayWrite |-> TRUE, mayCommit |-> FALSE, mayPush |-> FALSE,
   capabilities |-> {"repo.read", "repo.write"}, allowedPaths |-> {Sources},
   worktree |-> Worktree, repo |-> "known", soft |-> 1, hard |-> 2]

MCTasks ==
  { Plain,
    [Plain EXCEPT !.sandbox = "preferred", !.kind = "claude"],
    [Plain EXCEPT !.sandbox = "required", !.kind = "cursor"],
    [Plain EXCEPT !.kind = "antigravity"],
    [Plain EXCEPT !.mayCommit = TRUE],
    [Plain EXCEPT !.kind = "unreviewed"],
    [Plain EXCEPT !.network = "allowlist", !.networkAllowlist = TRUE],
    [Plain EXCEPT !.capabilities = {"net.fetch"}],
    [Plain EXCEPT !.capabilities = {"repo.delete"}],
    [Plain EXCEPT !.allowedPaths = {<<"home", "ssh", "config">>}],
    [Plain EXCEPT !.repo = "other"] }

(* The checkout as committed: nothing, a link to the secrets, a link out.   *)
MCCheckouts ==
  { <<>>,
    [path \in {Sources} |-> <<"home", "ssh">>],
    [path \in {Sources} |-> <<"tmp">>] }

Host == [id |-> "host", filesystemConfinement |-> FALSE, processIsolation |-> FALSE]
Vm == [id |-> "vm", filesystemConfinement |-> TRUE, processIsolation |-> TRUE]
MCHosts == {<<Host>>, <<Host, Vm>>}

=============================================================================
