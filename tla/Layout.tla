--------------------------------- MODULE Layout ---------------------------------
(***************************************************************************)
(* The cmux workspace of a run (packages/cmux/src/layout.ts): RunLayoutStore *)
(* joins concurrent creators into one attempt, and createRunLayout makes   *)
(* the workspace, the control surface and the log surface, one cmux call   *)
(* after the other, any of which may fail and leave the rest undone.       *)
(***************************************************************************)
EXTENDS Integers, Sequences

CONSTANTS Creators,   \* callers of createRunLayout, each calling once
          Flaky       \* a call to cmux may fail

ASSUME LayoutAssumption == Flaky \in BOOLEAN

VARIABLES
  byRunId,    \* the remembered layout's workspace; 0 for none
  inFlight,   \* the next cmux call of the pending attempt; 0 for no attempt
  made,       \* workspaces cmux has created, numbered from 1
  creator     \* per caller: idle, waiting, failed, or the layout it was given

layout == <<byRunId, inFlight, made, creator>>

(* createWorkspace, createSurface for control, createSurface for the log.   *)
CmuxCalls ==
  << "workspace.create", "workspace.rename",
     "surface.list", "surface.create",
     "surface.list", "surface.create", "surface.send_text" >>

Idle == [at |-> "idle", workspace |-> 0]
Given(workspace) == [at |-> "ok", workspace |-> workspace]

LayoutTypeOK ==
  /\ byRunId \in Nat /\ made \in Nat
  /\ inFlight \in 0 .. Len(CmuxCalls)
  /\ creator \in [Creators -> [at : {"idle", "waiting", "failed", "ok"}, workspace : Nat]]

LayoutInit ==
  /\ byRunId = 0 /\ inFlight = 0 /\ made = 0
  /\ creator = [c \in Creators |-> Idle]

Joined == {c \in Creators : creator[c].at = "waiting"}

(* Every creator starts from a store that remembers nothing. *)
RunOnceUnremembered(c) ==
  /\ creator[c].at = "idle"
  /\ creator' = [creator EXCEPT ![c].at = "waiting"]
  /\ inFlight' = IF inFlight = 0 THEN 1 ELSE inFlight
  /\ UNCHANGED <<byRunId, made>>

(* RunLayoutStore.runOnce up to its await.                                  *)
RunOnce(c) ==
  /\ creator[c].at = "idle"
  /\ IF byRunId # 0
       THEN creator' = [creator EXCEPT ![c] = Given(byRunId)] /\ UNCHANGED inFlight
       ELSE /\ creator' = [creator EXCEPT ![c].at = "waiting"]
            /\ inFlight' = IF inFlight = 0 THEN 1 ELSE inFlight
  /\ UNCHANGED <<byRunId, made>>

(* The attempt ends for everyone who joined it.                             *)
EndAttempt(as) ==
  /\ inFlight' = 0
  /\ creator' = [c \in Creators |-> IF c \in Joined THEN as ELSE creator[c]]

(* One cmux call of the attempt answers.                                    *)
CmuxAnswers ==
  /\ inFlight # 0
  /\ made' = IF CmuxCalls[inFlight] = "workspace.create" THEN made + 1 ELSE made
  /\ IF inFlight < Len(CmuxCalls)
       THEN inFlight' = inFlight + 1 /\ UNCHANGED <<byRunId, creator>>
       ELSE byRunId' = made /\ EndAttempt(Given(made))

(* Or fails, maybe after cmux has done what it was asked.                   *)
CmuxFails ==
  /\ inFlight # 0 /\ Flaky
  /\ made' \in IF CmuxCalls[inFlight] = "workspace.create" THEN {made, made + 1} ELSE {made}
  /\ EndAttempt([at |-> "failed", workspace |-> 0])
  /\ UNCHANGED byRunId

LayoutNext == CmuxAnswers \/ CmuxFails \/ \E c \in Creators : RunOnce(c)

(* Callers who are given a layout are given the one that is remembered,     *)
(* nobody waits for an attempt that is not under way, and an attempt is     *)
(* only under way while there is nothing to remember (runOnce).             *)
LayoutAgrees ==
  /\ \A c \in Creators : creator[c].at = "ok" => byRunId # 0 /\ creator[c].workspace = byRunId
  /\ Joined # {} <=> inFlight # 0
  /\ inFlight # 0 => byRunId = 0
  /\ byRunId <= made

=============================================================================
