-------------------------------- MODULE Auth --------------------------------
(***************************************************************************)
(* Bearer tokens and what they open (axiomsync-kernel logic/auth.rs).      *)
(***************************************************************************)
EXTENDS Naturals

CONSTANTS
  Workspaces,  \* workspace ids: numbers, in the order of their texts
  Tokens       \* the tokens that operators hand out

ASSUME WorkspacesAreOrdered == Workspaces \subseteq Nat

(* A hash is the tuple it is taken over. *)
WorkspaceHash(token) == <<"workspace-token", token>>
AdminHash(token) == <<"admin-token", token>>

PlanWorkspaceTokenGrant(w, token) ==
  [kind |-> "workspace", workspace_id |-> w, hash |-> WorkspaceHash(token)]

PlanAdminTokenGrant(token) == [kind |-> "admin", hash |-> AdminHash(token)]

Plans ==
  {PlanWorkspaceTokenGrant(w, t) : w \in Workspaces, t \in Tokens}
    \cup {PlanAdminTokenGrant(t) : t \in Tokens}

(* A snapshot: its grants, sorted by workspace id, and its admin tokens.   *)
Snapshots ==
  [grants : SUBSET [workspace_id : Workspaces, hash : {WorkspaceHash(t) : t \in Tokens}],
   admins : SUBSET {AdminHash(t) : t \in Tokens}]

EmptySnapshot == [grants |-> {}, admins |-> {}]

(* Faulty: the grant a workspace had is kept. *)
ApplyPlanKeeping(snapshot, plan) ==
  IF plan.kind = "workspace"
  THEN [snapshot EXCEPT !.grants =
          @ \cup {[workspace_id |-> plan.workspace_id, hash |-> plan.hash]}]
  ELSE [snapshot EXCEPT !.admins = @ \cup {plan.hash}]

(* apply_workspace_token_plan, apply_admin_token_plan. *)
ApplyPlan(snapshot, plan) ==
  IF plan.kind = "workspace"
  THEN [snapshot EXCEPT !.grants =
          {g \in @ : g.workspace_id # plan.workspace_id}
            \cup {[workspace_id |-> plan.workspace_id, hash |-> plan.hash]}]
  ELSE [snapshot EXCEPT !.admins = @ \cup {plan.hash}]

Granted(snapshot, hash) == {g \in snapshot.grants : g.hash = hash}

(* Faulty: the workspace of the grant is not compared. *)
AuthorizesAnywhere(snapshot, token, w) ==
  Granted(snapshot, WorkspaceHash(token)) # {}

(* authorize_workspace_token compares the workspace of the first grant of  *)
(* the token with the one asked for.                                       *)
AuthorizesWorkspace(snapshot, token, w) ==
  \E g \in Granted(snapshot, WorkspaceHash(token)) :
    /\ g.workspace_id = w
    /\ \A f \in Granted(snapshot, WorkspaceHash(token)) :
         g.workspace_id <= f.workspace_id

AuthorizesAdmin(snapshot, token) == AdminHash(token) \in snapshot.admins
=============================================================================
