------------------------------- MODULE Ledger -------------------------------
(***************************************************************************)
(* What the raw ledger promises, whatever implements it: a set of rows     *)
(* that only grows, at most one row per dedupe key, and a set of keys      *)
(* promised to clients, every one of which the ledger holds.               *)
(*                                                                         *)
(* A row is any record with a field dedupe_key.  The module is the         *)
(* abstract specification that Sink is shown to implement.                 *)
(***************************************************************************)

VARIABLES
  rows,      \* the rows of the ledger
  promised   \* the dedupe keys a client was told are recorded

ledgerVars == <<rows, promised>>

Keys(R) == {x.dedupe_key : x \in R}

OneRowPerKey(R) ==
  \A x, y \in R : x.dedupe_key = y.dedupe_key => x = y

Init ==
  /\ rows = {}
  /\ promised = {}

(* One transaction: rows of new keys are added, none is changed or removed, *)
(* and a promise is only made about a key the ledger holds by then.         *)
Append ==
  /\ rows \subseteq rows'
  /\ OneRowPerKey(rows')
  /\ promised \subseteq promised'
  /\ promised' \subseteq Keys(rows')

Spec == Init /\ [][Append]_ledgerVars
=============================================================================
