------------------------------- MODULE Grants -------------------------------
(***************************************************************************)
(* What auth.json promises: one token per workspace and a set of admin     *)
(* tokens, each changed in one atomic step by a plan that is applied.      *)
(***************************************************************************)
CONSTANTS Workspaces, TokenHashes, NoToken

VARIABLES
  grants,  \* [Workspaces -> the hash of its token, or NoToken]
  admins   \* the hashes of the admin tokens

Init ==
  /\ grants = [w \in Workspaces |-> NoToken]
  /\ admins = {}

Grant(w, hash) ==
  /\ grants' = [grants EXCEPT ![w] = hash]
  /\ UNCHANGED admins

GrantAdmin(hash) ==
  /\ admins' = admins \cup {hash}
  /\ UNCHANGED grants

Next ==
  \E hash \in TokenHashes :
    GrantAdmin(hash) \/ \E w \in Workspaces : Grant(w, hash)

Spec == Init /\ [][Next]_<<grants, admins>>
=============================================================================
