-------------------------------- MODULE Store --------------------------------
(***************************************************************************)
(* The store as its readers see it: the raw ledger with its processing     *)
(* states, and the projected and derived tables, which transactions of     *)
(* axiomsync-store-sqlite context_db.rs replace.                           *)
(*                                                                         *)
(* Every statement reads a committed state.  StoreSpec says which states   *)
(* these are: the tables are replaced by the projection of some receipts   *)
(* of the ledger, by a derivation whose three inputs may be as many        *)
(* projections, or by both of one set of receipts.  Who builds the plans,  *)
(* when, and what becomes of them meanwhile is the subject of Rebuild,     *)
(* which implements StoreSpec.                                             *)
(***************************************************************************)
EXTENDS Derivation

CONSTANT Receipts   \* the receipts that may be appended

ASSUME ReceiptsAreOrdered ==
  /\ \A r \in Receipts :
       /\ r.receipt_id \in Nat /\ r.observed_at \in Nat
       /\ Len(r.uris) \in Nat /\ DOMAIN r.uris = 1 .. Len(r.uris)
  /\ \A r, s \in Receipts : r.receipt_id = s.receipt_id => r = s

ASSUME HashesAreOrdered ==
  \A S \in SUBSET Receipts : \A a \in PlanProjection(S).anchors :
    HashRank(a.anchor_id) \in Nat

ASSUME AbsentIsNoId ==
  \A r \in Receipts :
    /\ SessionId(r) # Absent
    /\ \A S \in SUBSET Receipts, i \in Places(r) : ArtifactId(S, r, i) # Absent

VARIABLES
  marks,      \* the receipts of the ledger and their three processing states
  view,       \* the rows of sessions, actors, entries, artifacts, anchors
  knowledge   \* the rows of the derived tables and of search_docs

store_vars == <<marks, view, knowledge>>

Ledger == DOMAIN marks

Marks(projection, derived, index) ==
  [projection_state |-> projection, derived_state |-> derived,
   index_state |-> index]

Pending == Marks("pending", "pending", "pending")
Projected == Marks("projected", "pending", "pending")
Indexed == Marks("projected", "derived", "indexed")

-----------------------------------------------------------------------------
(* What the transactions do to the tables.                                 *)

(* Faulty: evidence survives its anchor; statements go with their session  *)
(* and leave their search documents.                                       *)
Kept(d) == d

Cascaded(d) == [NoDerivation EXCEPT !.search_docs = d.search_docs]

(* clear_projection_tables: deleting the anchors deletes the evidence that *)
(* cites them, deleting the sessions detaches the episodes; statements,    *)
(* verifications and search documents stay.                                *)
Detached(d) ==
  [episodes      |-> {[episode_id |-> e.episode_id, session_id |-> Absent,
                       episode_kind |-> e.episode_kind] : e \in d.episodes},
   statements    |-> d.statements,
   evidence      |-> {},
   verifications |-> d.verifications,
   search_docs   |-> d.search_docs]

(* Faulty: the derived state is not reset; the projected state is not      *)
(* looked at.                                                              *)
MarkProjectedOnly(m) ==
  [r \in DOMAIN m |-> [m[r] EXCEPT !.projection_state = "projected"]]

MarkDerivedOnly(m) ==
  [r \in DOMAIN m |->
     [m[r] EXCEPT !.derived_state = "derived", !.index_state = "indexed"]]

(* mark_projection_complete: every receipt, whatever the plan was built of. *)
MarkProjectionComplete(m) == [r \in DOMAIN m |-> Projected]

(* mark_derivation_complete: every receipt that is marked projected. *)
MarkDerivationComplete(m) ==
  [r \in DOMAIN m |->
     IF m[r].projection_state = "projected" THEN Indexed ELSE m[r]]

-----------------------------------------------------------------------------
(* The transactions.  A constraint that is violated rolls one back.        *)

StoreInit ==
  /\ marks = <<>>
  /\ view = NoProjection
  /\ knowledge = NoDerivation

(* A sink client's apply commits the row of r. *)
InsertReceipt(r) ==
  /\ r \notin Ledger
  /\ marks' = [x \in Ledger \cup {r} |-> IF x = r THEN Pending ELSE marks[x]]
  /\ UNCHANGED <<view, knowledge>>

ReplaceProjection(p) ==
  /\ ProjectionFits(p)
  /\ view' = p
  /\ knowledge' = Detached(knowledge)
  /\ marks' = MarkProjectionComplete(marks)

ReplaceDerivation(d) ==
  /\ DerivationFits(d, view)
  /\ knowledge' = d
  /\ marks' = MarkDerivationComplete(marks)
  /\ UNCHANGED view

(* apply_replay: both replacements in one transaction. *)
ReplaceBoth(p, d) ==
  /\ ProjectionFits(p)
  /\ DerivationFits(d, p)
  /\ view' = p
  /\ knowledge' = d
  /\ marks' = MarkDerivationComplete(MarkProjectionComplete(marks))

(* The plans that may be built: a projection or a replay of one read of    *)
(* the ledger, a derivation of the sessions, the entries and the anchors   *)
(* that the tables hold at three moments.                                  *)
Replays ==
  {[made_of    |-> T,
    projection |-> PlanProjection(T),
    derivation |-> PlanDerivationOf(PlanProjection(T))] : T \in SUBSET Receipts}

DerivationFrom(T, U, V) ==
  PlanDerivation(Corpus(PlanProjection(T).sessions, PlanProjection(U).entries,
                        PlanProjection(V).anchors, ByHash))

Derivations ==
  UNION {UNION {{[made_of |-> T \cup U \cup V, derivation |-> DerivationFrom(T, U, V)] :
           T \in SUBSET Receipts} : U \in SUBSET Receipts} : V \in SUBSET Receipts}

StoreNext ==
  \/ \E r \in Receipts : InsertReceipt(r)
  \/ \E plan \in Replays :
       /\ plan.made_of \subseteq Ledger
       /\ \/ ReplaceProjection(plan.projection)
          \/ ReplaceBoth(plan.projection, plan.derivation)
  \/ \E plan \in Derivations :
       /\ plan.made_of \subseteq Ledger
       /\ ReplaceDerivation(plan.derivation)

StoreSpec == StoreInit /\ [][StoreNext]_store_vars

-----------------------------------------------------------------------------
(* What an id tells of the row it belongs to, for it is the tuple it is    *)
(* hashed over: the entry of an anchor, the case of a search document, the *)
(* workspace_root of a receipt.                                            *)
EntryOfAnchor(id) == IF id[1] = "text" THEN id[2] ELSE id[2][1]

CaseOfDoc(doc) == IF doc.doc_kind = "episodes" THEN doc.subject ELSE doc.subject[2]

RootOfReceipt(id) ==
  (CHOOSE x \in Receipts : x.receipt_id = id).workspace_root
=============================================================================
