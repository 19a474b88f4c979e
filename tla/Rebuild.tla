------------------------------- MODULE Rebuild -------------------------------
(***************************************************************************)
(* Rebuilding the projected and the derived tables from the raw ledger     *)
(* (axiomsync-kernel kernel.rs, axiomsync-store-sqlite context_db.rs).     *)
(*                                                                         *)
(* An operator, through /admin/* or the project commands, builds a plan    *)
(* from what the store holds, carries it away, and has it applied, once or *)
(* more, while receipts are appended and other operators do the same.  A   *)
(* plan is applied in one transaction, which a violated constraint rolls   *)
(* back: the failed apply is a stuttering step.  Planning a derivation     *)
(* reads three tables on three connections, and anything may be committed  *)
(* between two of the reads.                                               *)
(***************************************************************************)
EXTENDS Store

CONSTANT Operators
  \* Where a plan is kept between building and applying it: the memory of a
  \* caller or a file.  Someone who keeps two plan files is two operators.

VARIABLES
  reading,    \* [Operators -> the tables read so far for a derivation plan]
  held,       \* [Operators -> the plan last built]
  (* History, which no action reads and only DerivedIsCurrent speaks of. *)
  behind,     \* the operators whose last reads began before the last projection
  overtaken   \* the derived rows are of a plan whose reads began before it

history == <<behind, overtaken>>
vars == <<marks, view, knowledge, reading, held, behind, overtaken>>

ProjectionPlan(p) == [kind |-> "projection", projection |-> p]
DerivePlan(d) == [kind |-> "derivation", derivation |-> d]
ReplayPlan(p, d) == [kind |-> "replay", projection |-> p, derivation |-> d]
NoPlan == [kind |-> "none"]

-----------------------------------------------------------------------------
Init ==
  /\ StoreInit
  /\ reading = [o \in Operators |-> <<>>]
  /\ held = [o \in Operators |-> NoPlan]
  /\ behind = {}
  /\ overtaken = FALSE

(* A sink client's apply commits the row of r. *)
AppendReceipt(r) ==
  /\ InsertReceipt(r)
  /\ UNCHANGED <<reading, held, history>>

Idle(o) == reading[o] = <<>>

Hold(o, plan) ==
  /\ held' = [held EXCEPT ![o] = plan]
  /\ UNCHANGED <<marks, view, knowledge, history>>

BuildProjectionPlan(o) ==
  /\ Idle(o)
  /\ Hold(o, ProjectionPlan(PlanProjection(Ledger)))
  /\ UNCHANGED reading

(* build_replay_plan reads the receipts once and derives from its own      *)
(* projection.                                                             *)
BuildReplayPlan(o) ==
  /\ Idle(o)
  /\ LET p == PlanProjection(Ledger)
     IN  Hold(o, ReplayPlan(p, PlanDerivationOf(p)))
  /\ UNCHANGED reading

(* load_derivation_corpus: sessions, then entries, then anchors. *)
LoadSessions(o) ==
  /\ Idle(o)
  /\ reading' = [reading EXCEPT ![o] = <<view.sessions>>]
  /\ behind' = behind \ {o}
  /\ UNCHANGED <<marks, view, knowledge, held, overtaken>>

LoadEntries(o) ==
  /\ Len(reading[o]) = 1
  /\ reading' = [reading EXCEPT ![o] = <<@[1], view.entries>>]
  /\ UNCHANGED <<marks, view, knowledge, held, history>>

LoadAnchorsAndPlan(o) ==
  /\ Len(reading[o]) = 2
  /\ Hold(o, DerivePlan(PlanDerivation(
       Corpus(reading[o][1], reading[o][2], view.anchors, ByHash))))
  /\ reading' = [reading EXCEPT ![o] = <<>>]

(* Faulty: the tables are not cleared. *)
MergeProjectionPlan(o) ==
  /\ Idle(o)
  /\ held[o].kind = "projection"
  /\ view' = [table \in DOMAIN view |-> view[table] \cup held[o].projection[table]]
  /\ knowledge' = Detached(knowledge)
  /\ marks' = MarkProjectionComplete(marks)
  /\ behind' = Operators
  /\ UNCHANGED <<reading, held, overtaken>>

ApplyProjectionPlan(o) ==
  /\ Idle(o)
  /\ held[o].kind = "projection"
  /\ ReplaceProjection(held[o].projection)
  /\ behind' = Operators
  /\ UNCHANGED <<reading, held, overtaken>>

ApplyDerivationPlan(o) ==
  /\ Idle(o)
  /\ held[o].kind = "derivation"
  /\ ReplaceDerivation(held[o].derivation)
  /\ overtaken' = (o \in behind)
  /\ UNCHANGED <<reading, held, behind>>

ApplyReplay(o) ==
  /\ Idle(o)
  /\ held[o].kind = "replay"
  /\ ReplaceBoth(held[o].projection, held[o].derivation)
  /\ behind' = Operators
  /\ overtaken' = FALSE
  /\ UNCHANGED <<reading, held>>

Next ==
  \/ \E r \in Receipts : AppendReceipt(r)
  \/ \E o \in Operators :
       \/ BuildProjectionPlan(o)
       \/ BuildReplayPlan(o)
       \/ LoadSessions(o)
       \/ LoadEntries(o)
       \/ LoadAnchorsAndPlan(o)
       \/ ApplyProjectionPlan(o)
       \/ ApplyDerivationPlan(o)
       \/ ApplyReplay(o)

Spec == Init /\ [][Next]_vars

-----------------------------------------------------------------------------
(* Properties.                                                             *)

(* Receipts are pending, projected, or projected and derived and indexed,  *)
(* never indexed before they are projected, and the plans held are whole.  *)
TypeOK ==
  /\ Ledger \subseteq Receipts
  /\ marks \in [Ledger -> {Pending, Projected, Indexed}]
  /\ DOMAIN reading = Operators /\ DOMAIN held = Operators
  /\ behind \subseteq Operators /\ overtaken \in BOOLEAN
  /\ \A o \in Operators :
       held[o].kind \in {"none", "projection", "derivation", "replay"}

(* The receipts whose entries the view shows. *)
Shown == {r \in Ledger : \E e \in view.entries : e.entry_id[3] = r.receipt_id}

(* The tables are the projection of one set of receipts: no apply, late or *)
(* repeated, mixes two rebuilds.                                           *)
ViewIsSnapshot == view = PlanProjection(Shown)

(* Once a receipt is marked derived, every episode belongs to a session of *)
(* the view and every statement cites an anchor of the view: a projection  *)
(* applied alone leaves neither, and says so by its marks.                 *)
DerivedIsBacked ==
  (\E r \in Ledger : marks[r].derived_state = "derived") =>
    /\ \A e \in knowledge.episodes :
         \E s \in view.sessions : s.session_id = e.session_id
    /\ \A x \in knowledge.statements :
         \E v \in knowledge.evidence :
           /\ v.subject = x.id
           /\ \E a \in view.anchors : a.anchor_id = v.anchor_id

(* The search documents are those of the episodes, insights and procedures *)
(* in the tables, after every commit (docs/RUNTIME_ARCHITECTURE.md:73).    *)
Subjects(d) ==
  {e.episode_id : e \in d.episodes}
    \cup {x.id : x \in {x \in d.statements : x.table # "claims"}}

SearchDocsMatch ==
  {doc.subject : doc \in knowledge.search_docs} = Subjects(knowledge)

(* Evidence never outlives its anchor, nor an episode its session. *)
NothingDangles ==
  /\ \A v \in knowledge.evidence :
       /\ \E a \in view.anchors : a.anchor_id = v.anchor_id
       /\ \E x \in knowledge.statements : x.id = v.subject
  /\ \A e \in knowledge.episodes :
       \/ e.session_id = Absent
       \/ \E s \in view.sessions : s.session_id = e.session_id
  /\ \A x \in knowledge.statements :
       \E e \in knowledge.episodes : e.episode_id = x.episode_id

(* The ledger can always be rebuilt, if no two workspaces share an         *)
(* external session and no event names an artifact uri twice.              *)
RebuildableIf ==
  SessionKeysSeparate(Ledger) /\ UrisDistinct(Ledger) =>
    LET p == PlanProjection(Ledger)
    IN  ProjectionFits(p) /\ DerivationFits(PlanDerivationOf(p), p)

(* The ledger can always be rebuilt (docs/API_CONTRACT.md:20). *)
Rebuildable == ProjectionFits(PlanProjection(Ledger))

(* A receipt whose projection_state is not pending has its entry in the    *)
(* view: what doctor counts as pending is what is still to be projected    *)
(* (docs/RUNTIME_ARCHITECTURE.md:74).                                      *)
ProjectedIsShown ==
  \A r \in Ledger : marks[r].projection_state = "projected" => r \in Shown

(* When every receipt is marked derived, the derived rows are those of the *)
(* rows now projected, whichever anchor they cite, unless they come of a   *)
(* plan whose reads a projection overtook: the only way in which the two   *)
(* get out of step, however plans of several operators are built, torn,    *)
(* kept and applied again (apply_derivation_plan takes any plan that fits).*)
Uncited(d) == [d EXCEPT !.evidence = {}]

DerivedIsCurrent ==
  (\A r \in Ledger : marks[r].derived_state = "derived") /\ ~overtaken =>
    Uncited(knowledge) = Uncited(PlanDerivationOf(view))

(* The sessions and the numbered entries of a projection are those that    *)
(* going through the receipts one by one leaves: no title, time or number  *)
(* depends on the order in which the ledger hands them out.                *)
ProjectionIsLoop == IsLoopOf(Ledger)

(* Deriving from the tables and deriving within a replay agree on          *)
(* everything but the anchors cited.                                       *)
PipelinesAgree ==
  LET p == PlanProjection(Ledger)
      stored == PlanDerivation(Corpus(p.sessions, p.entries, p.anchors, ByHash))
  IN  /\ Uncited(stored) = Uncited(PlanDerivationOf(p))
      /\ {v.subject : v \in stored.evidence} =
           {v.subject : v \in PlanDerivationOf(p).evidence}
=============================================================================
