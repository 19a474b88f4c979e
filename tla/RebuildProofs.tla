---------------------------- MODULE RebuildProofs ----------------------------
(***************************************************************************)
(* Theorems about Rebuild, for every set of receipts and of operators.     *)
(***************************************************************************)
EXTENDS Rebuild, StoreProofs

(* Type correctness: a receipt is never derived or indexed before it is    *)
(* projected, nor derived without being indexed.                           *)
THEOREM TypeCorrect == Spec => []TypeOK
<1>1. Init => TypeOK
  <2> SUFFICES ASSUME Init PROVE TypeOK
    OBVIOUS
  <2>1. overtaken \in BOOLEAN
    BY Zenon DEF Init
  <2>2. QED BY <2>1 DEF Init, StoreInit, TypeOK, Ledger, NoPlan
<1>2. TypeOK /\ [Next]_vars => TypeOK'
  <2> SUFFICES ASSUME TypeOK, [Next]_vars PROVE TypeOK'
    OBVIOUS
  <2>1. ASSUME NEW r \in Receipts, AppendReceipt(r) PROVE TypeOK'
    BY <2>1 DEF TypeOK, AppendReceipt, InsertReceipt, history, Ledger
  <2>2. ASSUME NEW o \in Operators, NEW plan,
               plan.kind \in {"projection", "derivation", "replay"},
               Hold(o, plan), DOMAIN reading' = Operators
        PROVE  TypeOK'
    <3>1. \A q \in Operators :
            held'[q].kind \in {"none", "projection", "derivation", "replay"}
      BY <2>2 DEF TypeOK, Hold
    <3>2. QED BY <2>2, <3>1 DEF TypeOK, Hold, history, Ledger
  <2>3. ASSUME NEW o \in Operators,
               BuildProjectionPlan(o) \/ BuildReplayPlan(o) \/ LoadAnchorsAndPlan(o)
        PROVE  TypeOK'
    BY <2>2, <2>3 DEF BuildProjectionPlan, BuildReplayPlan, LoadAnchorsAndPlan,
                      ProjectionPlan, ReplayPlan, DerivePlan, TypeOK
  <2>4. ASSUME NEW o \in Operators, LoadSessions(o) \/ LoadEntries(o)
        PROVE  TypeOK'
    BY <2>4 DEF TypeOK, LoadSessions, LoadEntries, history, Ledger
  <2>5. ASSUME NEW o \in Operators,
               ApplyProjectionPlan(o) \/ ApplyDerivationPlan(o) \/ ApplyReplay(o)
        PROVE  TypeOK'
    <3>1. marks' \in [Ledger -> {Pending, Projected, Indexed}]
      BY <2>5, MarkTypes
      DEF TypeOK, ApplyProjectionPlan, ReplaceProjection, ApplyDerivationPlan, ReplaceDerivation, ApplyReplay, ReplaceBoth
    <3>2. UNCHANGED <<reading, held>>
      BY <2>5 DEF ApplyProjectionPlan, ReplaceProjection, ApplyDerivationPlan, ReplaceDerivation, ApplyReplay, ReplaceBoth
    <3>3. behind' \subseteq Operators
      BY <2>5 DEF TypeOK, ApplyProjectionPlan, ApplyDerivationPlan, ApplyReplay
    <3>4. overtaken' \in BOOLEAN
      <4>1. overtaken \in BOOLEAN
        BY DEF TypeOK
      <4>2. ApplyProjectionPlan(o) => overtaken' = overtaken
        BY Zenon DEF ApplyProjectionPlan
      <4>3. ApplyDerivationPlan(o) => overtaken' \in BOOLEAN
        <5>1. (o \in behind) \in BOOLEAN
          OBVIOUS
        <5>2. ApplyDerivationPlan(o) => overtaken' = (o \in behind)
          BY Zenon DEF ApplyDerivationPlan
        <5>3. QED BY <5>1, <5>2, Zenon
      <4>4. ApplyReplay(o) => overtaken' \in BOOLEAN
        BY Zenon DEF ApplyReplay
      <4>5. QED BY <2>5, <4>1, <4>2, <4>3, <4>4, Zenon
    <3>5. QED BY <3>1, <3>2, <3>3, <3>4 DEF TypeOK, Ledger
  <2>6. CASE UNCHANGED vars
    BY <2>6 DEF TypeOK, vars, Ledger
  <2>7. QED BY <2>1, <2>3, <2>4, <2>5, <2>6 DEF Next
<1>3. QED BY <1>1, <1>2, PTL DEF Spec

-----------------------------------------------------------------------------
(* What every derivation is, whichever corpus it is planned from: its      *)
(* statements belong to its episodes and have evidence, and its documents  *)
(* are those of its subjects.                                              *)
Whole(d) ==
  /\ \A x \in d.statements : \E v \in d.evidence : v.subject = x.id
  /\ \A v \in d.evidence : \E x \in d.statements : x.id = v.subject
  /\ \A x \in d.statements : \E e \in d.episodes : e.episode_id = x.episode_id
  /\ {doc.subject : doc \in d.search_docs} = Subjects(d)

LEMMA PlanIsWhole ==
  ASSUME NEW c
  PROVE  Whole(PlanDerivation(c))
<1> DEFINE d == PlanDerivation(c)
           St(s) == Statements(s, EntriesOf(c, s))
<1>1. /\ d.episodes = {Episode(s, EntriesOf(c, s)) : s \in Derived(c)}
      /\ d.statements = UNION {St(s) : s \in Stated(c)}
      /\ d.evidence = UNION {{[subject |-> x.id, anchor_id |-> PrimaryAnchor(c, s)] :
                                x \in St(s)} : s \in Stated(c)}
      /\ d.search_docs = SearchDocs(c)
  BY DEF PlanDerivation
<1>2. \A x \in d.statements : \E v \in d.evidence : v.subject = x.id
  <2> SUFFICES ASSUME NEW s \in Stated(c), NEW x \in St(s)
               PROVE  \E v \in d.evidence : v.subject = x.id
    BY <1>1
  <2>1. [subject |-> x.id, anchor_id |-> PrimaryAnchor(c, s)] \in d.evidence
    BY <1>1
  <2>2. QED BY <2>1
<1>3. \A v \in d.evidence : \E x \in d.statements : x.id = v.subject
  <2> SUFFICES ASSUME NEW s \in Stated(c), NEW x \in St(s)
               PROVE  \E y \in d.statements : y.id = x.id
    BY <1>1
  <2>1. QED BY <1>1
<1>4. Stated(c) \subseteq Derived(c)
  BY DEF Stated
<1>5. \A s \in Stated(c) : \A x \in St(s) :
        x.episode_id = EpisodeId(s, EntriesOf(c, s))
  BY DEF Statements, Statement
<1>6. \A s \in Derived(c) :
        Episode(s, EntriesOf(c, s)).episode_id = EpisodeId(s, EntriesOf(c, s))
  BY DEF Episode
<1>7. \A x \in d.statements : \E e \in d.episodes : e.episode_id = x.episode_id
  BY <1>1, <1>4, <1>5, <1>6
<1>8. {doc.subject : doc \in d.search_docs} = Subjects(d)
  <2> DEFINE Open(s) == {x \in St(s) : x.table # "claims"}
             E == {EpisodeId(s, EntriesOf(c, s)) : s \in Derived(c)}
             X == {x.id : x \in {x \in d.statements : x.table # "claims"}}
  <2>1. E = {e.episode_id : e \in d.episodes}
    BY <1>1, <1>6
  <2>2. X = UNION {{x.id : x \in Open(s)} : s \in Stated(c)}
    BY <1>1
  <2>3. \A k, u, s : SearchDoc(k, u, s).subject = u
    BY DEF SearchDoc
  <2>4. d.search_docs =
          {SearchDoc("episodes", EpisodeId(s, EntriesOf(c, s)), s) : s \in Derived(c)}
            \cup UNION {{SearchDoc(x.table, x.id, s) : x \in Open(s)} : s \in Stated(c)}
    BY <1>1 DEF SearchDocs
  <2>5. {doc.subject : doc \in d.search_docs} = E \cup X
    <3> HIDE DEF d, St
    <3> DEFINE D == {doc.subject : doc \in d.search_docs}
    <3>1. \A u \in E \cup X : u \in D
      <4>1. ASSUME NEW s \in Derived(c) PROVE EpisodeId(s, EntriesOf(c, s)) \in D
        <5>1. SearchDoc("episodes", EpisodeId(s, EntriesOf(c, s)), s)
                \in d.search_docs
          BY <2>4
        <5>2. QED BY <2>3, <5>1
      <4>2. ASSUME NEW s \in Stated(c), NEW x \in Open(s) PROVE x.id \in D
        <5>1. SearchDoc(x.table, x.id, s) \in d.search_docs
          BY <2>4
        <5>2. QED BY <2>3, <5>1
      <4>3. QED BY <2>2, <4>1, <4>2
    <3>2. \A doc \in d.search_docs : doc.subject \in E \cup X
      BY <2>2, <2>3, <2>4
    <3>3. QED BY <3>1, <3>2
  <2>6. QED BY <2>1, <2>5 DEF Subjects
<1>9. QED BY <1>2, <1>3, <1>7, <1>8 DEF Whole

-----------------------------------------------------------------------------
(* The inductive invariant of the derived tables: plans in hand are whole, *)
(* the tables are whole but for evidence a projection may have deleted     *)
(* while no receipt is marked derived, and what they cite exists.          *)
HeldAreWhole ==
  \A o \in Operators :
    held[o].kind \in {"derivation", "replay"} => Whole(held[o].derivation)

Grounded ==
  /\ HeldAreWhole
  /\ SearchDocsMatch
  /\ NothingDangles
  /\ DerivedIsBacked

(* What a derivation applied to the tables it fits leaves behind. *)
LEMMA FittingIsGrounded ==
  ASSUME NEW d, NEW p, Whole(d), DerivationFits(d, p)
  PROVE  /\ \A v \in d.evidence :
              /\ \E a \in p.anchors : a.anchor_id = v.anchor_id
              /\ \E x \in d.statements : x.id = v.subject
         /\ \A e \in d.episodes : \E s \in p.sessions : s.session_id = e.session_id
         /\ \A x \in d.statements : \E e \in d.episodes : e.episode_id = x.episode_id
         /\ \A x \in d.statements :
              \E v \in d.evidence :
                /\ v.subject = x.id
                /\ \E a \in p.anchors : a.anchor_id = v.anchor_id
         /\ {doc.subject : doc \in d.search_docs} = Subjects(d)
BY DEF Whole, DerivationFits

(* What deleting the projected rows leaves of the derived ones. *)
LEMMA DetachedIsGrounded ==
  ASSUME NothingDangles, SearchDocsMatch
  PROVE  LET d == Detached(knowledge)
         IN  /\ d.evidence = {}
             /\ \A e \in d.episodes : e.session_id = Absent
             /\ \A x \in d.statements : \E e \in d.episodes : e.episode_id = x.episode_id
             /\ {doc.subject : doc \in d.search_docs} = Subjects(d)
<1> DEFINE d == Detached(knowledge)
           Without(e) == [episode_id |-> e.episode_id, session_id |-> Absent,
                          episode_kind |-> e.episode_kind]
<1>1. /\ d.evidence = {}
      /\ d.statements = knowledge.statements
      /\ d.search_docs = knowledge.search_docs
      /\ d.episodes = {Without(e) : e \in knowledge.episodes}
  BY DEF Detached
<1>2. \A e \in d.episodes : e.session_id = Absent
  BY <1>1
<1>3. {e.episode_id : e \in d.episodes} = {e.episode_id : e \in knowledge.episodes}
  <2>1. \A e : Without(e).episode_id = e.episode_id
    OBVIOUS
  <2> HIDE DEF d, Without
  <2>2. QED BY <1>1, <2>1
<1>4. \A x \in d.statements : \E e \in d.episodes : e.episode_id = x.episode_id
  <2>1. \A x \in d.statements : x.episode_id \in {e.episode_id : e \in knowledge.episodes}
    BY <1>1 DEF NothingDangles
  <2>2. QED BY <1>3, <2>1
<1>5. {doc.subject : doc \in d.search_docs} = Subjects(d)
  BY <1>1, <1>3 DEF SearchDocsMatch, Subjects
<1> HIDE DEF d
<1>6. QED BY <1>1, <1>2, <1>4, <1>5 DEF d

(* The derived tables stay grounded through every step. *)
LEMMA GroundedInvariant == Spec => []Grounded
<1>1. Init => Grounded
  <2> SUFFICES ASSUME Init PROVE Grounded
    OBVIOUS
  <2>1. HeldAreWhole
    BY DEF Init, StoreInit, HeldAreWhole, NoPlan
  <2>2. Whole(knowledge)
    BY PlanIsWhole DEF Init, StoreInit, NoDerivation
  <2>3. knowledge.episodes = {} /\ knowledge.statements = {} /\ knowledge.evidence = {}
    BY DEF Init, StoreInit, NoDerivation, PlanDerivation, Derived, Stated, Corpus
  <2>4. Ledger = {}
    BY DEF Init, StoreInit, Ledger
  <2>5. QED BY <2>1, <2>2, <2>3, <2>4
            DEF Grounded, SearchDocsMatch, NothingDangles, DerivedIsBacked, Whole
<1>2. TypeOK /\ Grounded /\ [Next]_vars => Grounded'
  <2> SUFFICES ASSUME TypeOK, Grounded, [Next]_vars PROVE Grounded'
    OBVIOUS
  <2>1. CASE UNCHANGED <<marks, view, knowledge, held>>
    BY <2>1 DEF Grounded, HeldAreWhole, SearchDocsMatch, NothingDangles,
                DerivedIsBacked, Ledger
  <2>2. ASSUME NEW r \in Receipts, AppendReceipt(r) PROVE Grounded'
    <3>1. ASSUME NEW q \in Ledger', marks'[q].derived_state = "derived"
          PROVE  q \in Ledger /\ marks[q].derived_state = "derived"
      BY <2>2, <3>1 DEF AppendReceipt, InsertReceipt, Ledger, Pending, Marks
    <3>2. DerivedIsBacked'
      BY <2>2, <3>1 DEF Grounded, DerivedIsBacked, AppendReceipt, InsertReceipt
    <3>3. QED BY <2>2, <3>2 DEF Grounded, AppendReceipt, InsertReceipt, HeldAreWhole,
                                SearchDocsMatch, NothingDangles
  <2>3. ASSUME NEW o \in Operators, NEW plan, Hold(o, plan),
               plan.kind \in {"derivation", "replay"} => Whole(plan.derivation)
        PROVE  Grounded'
    <3>1. \A q \in Operators : held'[q] = IF q = o THEN plan ELSE held[q]
      BY <2>3 DEF Hold, TypeOK
    <3>2. HeldAreWhole'
      BY <2>3, <3>1 DEF Grounded, HeldAreWhole
    <3>3. QED BY <2>3, <3>2 DEF Grounded, Hold, SearchDocsMatch, NothingDangles,
                                DerivedIsBacked, Ledger
  <2>4. ASSUME NEW o \in Operators, BuildProjectionPlan(o) PROVE Grounded'
    BY <2>3, <2>4 DEF BuildProjectionPlan, ProjectionPlan
  <2>5. ASSUME NEW o \in Operators, BuildReplayPlan(o) PROVE Grounded'
    <3>1. Whole(PlanDerivationOf(PlanProjection(Ledger)))
      BY PlanIsWhole DEF PlanDerivationOf
    <3>2. QED BY <2>3, <2>5, <3>1 DEF BuildReplayPlan, ReplayPlan
  <2>6. ASSUME NEW o \in Operators, LoadAnchorsAndPlan(o) PROVE Grounded'
    BY <2>3, <2>6, PlanIsWhole DEF LoadAnchorsAndPlan, DerivePlan
  <2>7. ASSUME NEW o \in Operators, ApplyProjectionPlan(o) PROVE Grounded'
    <3>1. \A q \in Ledger' : marks'[q].derived_state # "derived"
      BY <2>7 DEF ApplyProjectionPlan, ReplaceProjection, MarkProjectionComplete, Ledger,
                  Projected, Marks
    <3>2. knowledge' = Detached(knowledge) /\ held' = held
      BY <2>7 DEF ApplyProjectionPlan, ReplaceProjection
    <3>3. QED BY <3>1, <3>2, DetachedIsGrounded
              DEF Grounded, HeldAreWhole, SearchDocsMatch, NothingDangles,
                  DerivedIsBacked
  <2>8. ASSUME NEW o \in Operators, ApplyDerivationPlan(o) PROVE Grounded'
    <3>1. Whole(knowledge') /\ DerivationFits(knowledge', view') /\ held' = held
      BY <2>8 DEF ApplyDerivationPlan, ReplaceDerivation, Grounded, HeldAreWhole
    <3>2. QED BY <3>1, FittingIsGrounded
              DEF Grounded, HeldAreWhole, SearchDocsMatch, NothingDangles,
                  DerivedIsBacked
  <2>9. ASSUME NEW o \in Operators, ApplyReplay(o) PROVE Grounded'
    <3>1. Whole(knowledge') /\ DerivationFits(knowledge', view') /\ held' = held
      BY <2>9 DEF ApplyReplay, ReplaceBoth, Grounded, HeldAreWhole
    <3>2. QED BY <3>1, FittingIsGrounded
              DEF Grounded, HeldAreWhole, SearchDocsMatch, NothingDangles,
                  DerivedIsBacked
  <2>10. QED BY <2>1, <2>2, <2>4, <2>5, <2>6, <2>7, <2>8, <2>9
             DEF Next, vars, LoadSessions, LoadEntries
<1>3. QED BY <1>1, <1>2, TypeCorrect, PTL DEF Spec

(* A receipt is marked derived only while everything derived is backed by  *)
(* evidence in the view, whatever stale or torn plans operators apply.     *)
THEOREM DerivedStaysBacked == Spec => []DerivedIsBacked
<1>1. Grounded => DerivedIsBacked
  BY DEF Grounded
<1>2. QED BY <1>1, GroundedInvariant, PTL

(* No cascade or stale plan leaves a reference without its row. *)
THEOREM NoDanglingReference == Spec => []NothingDangles
<1>1. Grounded => NothingDangles
  BY DEF Grounded
<1>2. QED BY <1>1, GroundedInvariant, PTL

(* After every commit the search documents are those of the rows. *)
THEOREM SearchStaysInStep == Spec => []SearchDocsMatch
<1>1. Grounded => SearchDocsMatch
  BY DEF Grounded, SearchDocsMatch
<1>2. QED BY <1>1, GroundedInvariant, PTL

-----------------------------------------------------------------------------
(* The projection of a set of receipts names exactly these receipts. *)
LEMMA EntriesNameReceipts ==
  ASSUME NEW S \in SUBSET Receipts, NEW r \in Receipts
  PROVE  (\E e \in PlanProjection(S).entries : e.entry_id[3] = r.receipt_id) <=> r \in S
<1>1. PlanProjection(S).entries = {EntryRow(S, q) : q \in S}
  BY DEF PlanProjection
<1>2. \A q : EntryRow(S, q).entry_id[3] = q.receipt_id
  BY DEF EntryRow, EntryId
<1>3. QED BY <1>1, <1>2, ReceiptsAreOrdered

(* A projection of receipts of the ledger. *)
Snapshot(p) == \E S \in SUBSET Ledger : p = PlanProjection(S)

SnapshotsOnly ==
  /\ Snapshot(view)
  /\ \A o \in Operators :
       held[o].kind \in {"projection", "replay"} => Snapshot(held[o].projection)

(* Plans in hand stay projections of some of the ledger, however old. *)
LEMMA SnapshotInvariant == Spec => []SnapshotsOnly
<1>1. Init => SnapshotsOnly
  <2> SUFFICES ASSUME Init PROVE SnapshotsOnly
    OBVIOUS
  <2>1. Snapshot(view)
    BY DEF Init, StoreInit, NoProjection, Snapshot
  <2>2. QED BY <2>1 DEF Init, StoreInit, SnapshotsOnly, NoPlan
<1>2. TypeOK /\ SnapshotsOnly /\ [Next]_vars => SnapshotsOnly'
  <2> SUFFICES ASSUME TypeOK, SnapshotsOnly, [Next]_vars PROVE SnapshotsOnly'
    OBVIOUS
  <2>1. Ledger \subseteq Ledger'
    BY DEF Next, vars, Ledger, AppendReceipt, InsertReceipt, Hold, BuildProjectionPlan,
           BuildReplayPlan, LoadSessions, LoadEntries, LoadAnchorsAndPlan,
           ApplyProjectionPlan, ReplaceProjection, ApplyDerivationPlan, ReplaceDerivation, ApplyReplay, ReplaceBoth,
           MarkProjectionComplete, MarkDerivationComplete
  <2>2. \A p : Snapshot(p) => \E S \in SUBSET Ledger' : p = PlanProjection(S)
    BY <2>1 DEF Snapshot
  <2>3. CASE UNCHANGED <<view, held>>
    BY <2>2, <2>3 DEF SnapshotsOnly, Snapshot
  <2>4. ASSUME NEW o \in Operators, NEW plan, Hold(o, plan),
               plan.kind \in {"projection", "replay"} => Snapshot(plan.projection)
        PROVE  SnapshotsOnly'
    <3>1. \A q \in Operators : held'[q] = IF q = o THEN plan ELSE held[q]
      BY <2>4 DEF Hold, TypeOK
    <3>2. QED BY <2>2, <2>4, <3>1 DEF SnapshotsOnly, Snapshot, Hold
  <2>5. Snapshot(PlanProjection(Ledger))
    BY DEF Snapshot
  <2>6. ASSUME NEW o \in Operators,
               BuildProjectionPlan(o) \/ BuildReplayPlan(o) \/ LoadAnchorsAndPlan(o)
        PROVE  SnapshotsOnly'
    BY <2>4, <2>5, <2>6 DEF BuildProjectionPlan, BuildReplayPlan,
       LoadAnchorsAndPlan, ProjectionPlan, ReplayPlan, DerivePlan
  <2>7. ASSUME NEW o \in Operators, ApplyProjectionPlan(o) \/ ApplyReplay(o)
        PROVE  SnapshotsOnly'
    <3>1. Snapshot(view') /\ held' = held
      BY <2>7 DEF SnapshotsOnly, ApplyProjectionPlan, ReplaceProjection, ApplyReplay, ReplaceBoth
    <3>2. QED BY <2>2, <3>1 DEF SnapshotsOnly, Snapshot
  <2>8. QED BY <2>3, <2>6, <2>7
            DEF Next, vars, AppendReceipt, InsertReceipt, LoadSessions, LoadEntries,
                ApplyDerivationPlan, ReplaceDerivation
<1>3. QED BY <1>1, <1>2, TypeCorrect, PTL DEF Spec

(* The tables are at every moment the projection of one set of receipts,   *)
(* the ones whose entries they show.                                       *)
THEOREM ViewStaysSnapshot == Spec => []ViewIsSnapshot
<1>1. TypeOK /\ SnapshotsOnly => ViewIsSnapshot
  <2> SUFFICES ASSUME TypeOK, SnapshotsOnly PROVE ViewIsSnapshot
    OBVIOUS
  <2>1. PICK S \in SUBSET Ledger : view = PlanProjection(S)
    BY DEF SnapshotsOnly, Snapshot
  <2>2. Ledger \subseteq Receipts
    BY DEF TypeOK
  <2>3. Shown = S
    BY <2>1, <2>2, EntriesNameReceipts DEF Shown
  <2>4. QED BY <2>1, <2>3 DEF ViewIsSnapshot
<1>2. QED BY <1>1, TypeCorrect, SnapshotInvariant, PTL

-----------------------------------------------------------------------------
(* The projection of a finite set of receipts fits the tables. *)
LEMMA ProjectionOfFits ==
  ASSUME NEW S \in SUBSET Receipts, IsFiniteSet(S),
         SessionKeysSeparate(S), UrisDistinct(S)
  PROVE  ProjectionFits(PlanProjection(S))
<1> DEFINE p == PlanProjection(S)
           sids == {SessionId(r) : r \in S}
<1>1. /\ p.sessions = {SessionRow(sid, InSession(S, sid)) : sid \in sids}
      /\ p.actors = {ActorId(r) : r \in S}
      /\ p.entries = {EntryRow(S, r) : r \in S}
      /\ p.artifacts = UNION {{ArtifactRow(S, r, i) : i \in Places(r)} : r \in S}
      /\ p.anchors = UNION {Anchors(S, r) : r \in S}
  BY DEF PlanProjection, SessionRows
<1>2. ASSUME NEW r \in S, NEW q \in S, EntryId(S, r) = EntryId(S, q) PROVE r = q
  BY <1>2, ReceiptsAreOrdered DEF EntryId
<1>3. ASSUME NEW s \in p.sessions, NEW t \in p.sessions, s # t
      PROVE  /\ s.session_id # t.session_id
             /\ s.session_key # Absent => s.external # t.external
  <2>1. PICK r \in S : s = SessionRow(SessionId(r), InSession(S, SessionId(r)))
    BY <1>1
  <2>2. PICK q \in S : t = SessionRow(SessionId(q), InSession(S, SessionId(q)))
    BY <1>1
  <2>3. SessionId(r) # SessionId(q)
    BY <1>3, <2>1, <2>2
  <2>4. /\ s.session_id = SessionId(r) /\ t.session_id = SessionId(q)
        /\ s.session_key = r.session_key
        /\ s.external = <<r.session_kind, r.connector, r.session_key>>
        /\ t.external = <<q.session_kind, q.connector, q.session_key>>
    BY <2>1, <2>2 DEF SessionRow, SessionId
  <2>5. ASSUME s.session_key # Absent, s.external = t.external PROVE FALSE
    <3>1. r.workspace_root = q.workspace_root
      BY <2>4, <2>5 DEF SessionKeysSeparate
    <3>2. QED BY <2>3, <2>4, <2>5, <3>1 DEF SessionId
  <2>6. QED BY <2>3, <2>4, <2>5
<1>4. ASSUME NEW e \in p.entries, NEW f \in p.entries, e # f
      PROVE  /\ e.entry_id # f.entry_id
             /\ <<e.session_id, e.seq_no>> # <<f.session_id, f.seq_no>>
  <2>1. PICK r \in S : e = EntryRow(S, r)
    BY <1>1
  <2>2. PICK q \in S : f = EntryRow(S, q)
    BY <1>1
  <2>3. /\ e.entry_id = EntryId(S, r) /\ f.entry_id = EntryId(S, q)
        /\ e.session_id = SessionId(r) /\ f.session_id = SessionId(q)
        /\ e.seq_no = SeqNo(S, r) /\ f.seq_no = SeqNo(S, q)
    BY <2>1, <2>2 DEF EntryRow
  <2>4. r # q
    BY <1>4, <2>1, <2>2
  <2>5. QED BY <1>2, <2>3, <2>4, SeqNosDiffer
<1>5. ASSUME NEW r \in S, NEW i \in Places(r), NEW q \in S, NEW j \in Places(q),
             ArtifactId(S, r, i) = ArtifactId(S, q, j)
      PROVE  r = q /\ i = j
  <2>1. r = q /\ r.uris[i] = q.uris[j]
    BY <1>2, <1>5 DEF ArtifactId
  <2>2. QED BY <2>1 DEF UrisDistinct
<1>6. ASSUME NEW a \in p.artifacts, NEW b \in p.artifacts, a.artifact_id = b.artifact_id
      PROVE  a = b
  <2>1. PICK r \in S : \E i \in Places(r) : a = ArtifactRow(S, r, i)
    BY <1>1
  <2>2. PICK q \in S : \E j \in Places(q) : b = ArtifactRow(S, q, j)
    BY <1>1
  <2>3. PICK i \in Places(r) : a = ArtifactRow(S, r, i)
    BY <2>1
  <2>4. PICK j \in Places(q) : b = ArtifactRow(S, q, j)
    BY <2>2
  <2>5. ArtifactId(S, r, i) = ArtifactId(S, q, j)
    BY <1>6, <2>3, <2>4 DEF ArtifactRow
  <2>6. QED BY <1>5, <2>3, <2>4, <2>5
<1>7. ASSUME NEW a \in p.anchors
      PROVE  \E r \in S : \/ a = TextAnchor(S, r)
                          \/ \E i \in Places(r) : a = ArtifactAnchor(S, r, i)
  BY <1>1 DEF Anchors
<1>8. ASSUME NEW a \in p.anchors, NEW b \in p.anchors, a.anchor_id = b.anchor_id
      PROVE  a = b
  <2>1. PICK r \in S : \/ a = TextAnchor(S, r)
                       \/ \E i \in Places(r) : a = ArtifactAnchor(S, r, i)
    BY <1>7
  <2>2. PICK q \in S : \/ b = TextAnchor(S, q)
                       \/ \E j \in Places(q) : b = ArtifactAnchor(S, q, j)
    BY <1>7
  <2>3. CASE a = TextAnchor(S, r) /\ b = TextAnchor(S, q)
    BY <1>2, <1>8, <2>3 DEF TextAnchor
  <2>4. ASSUME NEW i \in Places(r), a = ArtifactAnchor(S, r, i),
               NEW j \in Places(q), b = ArtifactAnchor(S, q, j)
        PROVE  a = b
    <3>1. ArtifactId(S, r, i) = ArtifactId(S, q, j)
      BY <1>8, <2>4 DEF ArtifactAnchor
    <3>2. QED BY <1>5, <2>4, <3>1
  <2>5. \A i, j : /\ TextAnchor(S, r).anchor_id # ArtifactAnchor(S, q, j).anchor_id
                  /\ ArtifactAnchor(S, r, i).anchor_id # TextAnchor(S, q).anchor_id
    BY DEF TextAnchor, ArtifactAnchor
  <2>6. QED BY <1>8, <2>1, <2>2, <2>3, <2>4, <2>5
<1>9. ASSUME NEW r \in S PROVE \E e \in p.entries : e.entry_id = EntryId(S, r)
  <2>1. EntryRow(S, r) \in p.entries /\ EntryRow(S, r).entry_id = EntryId(S, r)
    BY <1>1 DEF EntryRow
  <2>2. QED BY <2>1
<1>10. ASSUME NEW e \in p.entries
       PROVE  /\ \E s \in p.sessions : s.session_id = e.session_id
              /\ e.actor_id \in p.actors
  <2>1. PICK r \in S : e = EntryRow(S, r)
    BY <1>1
  <2>2. e.session_id = SessionId(r) /\ e.actor_id = ActorId(r)
    BY <2>1 DEF EntryRow
  <2> DEFINE s == SessionRow(SessionId(r), InSession(S, SessionId(r)))
  <2>3. s \in p.sessions
    BY <1>1
  <2>4. s.session_id = SessionId(r)
    BY DEF SessionRow
  <2>5. QED BY <1>1, <2>2, <2>3, <2>4
<1>11. \A a \in p.artifacts : \E e \in p.entries : e.entry_id = a.entry_id
  BY <1>1, <1>9 DEF ArtifactRow
<1>12. ASSUME NEW a \in p.anchors
       PROVE  /\ \E e \in p.entries : e.entry_id = a.entry_id
              /\ \/ a.artifact_id = Absent
                 \/ \E b \in p.artifacts : b.artifact_id = a.artifact_id
  <2>1. PICK r \in S : \/ a = TextAnchor(S, r)
                       \/ \E i \in Places(r) : a = ArtifactAnchor(S, r, i)
    BY <1>7
  <2>2. CASE a = TextAnchor(S, r)
    BY <1>9, <2>2 DEF TextAnchor
  <2>3. ASSUME NEW i \in Places(r), a = ArtifactAnchor(S, r, i)
        PROVE  /\ a.entry_id = EntryId(S, r)
               /\ \E b \in p.artifacts : b.artifact_id = a.artifact_id
    <3>1. ArtifactRow(S, r, i) \in p.artifacts
      BY <1>1
    <3>2. QED BY <2>3, <3>1 DEF ArtifactAnchor, ArtifactRow
  <2>4. QED BY <1>9, <2>1, <2>2, <2>3
<1> HIDE DEF p
<1>13. QED BY <1>3, <1>4, <1>6, <1>8, <1>10, <1>11, <1>12 DEF ProjectionFits, p

(* The derivation of a replay cites rows of its own projection. *)
LEMMA DerivationOfFits ==
  ASSUME NEW S \in SUBSET Receipts, IsFiniteSet(S)
  PROVE  DerivationFits(PlanDerivationOf(PlanProjection(S)), PlanProjection(S))
<1> DEFINE p == PlanProjection(S)
           c == Corpus(p.sessions, p.entries, p.anchors, ByPlace)
           d == PlanDerivation(c)
<1>1. /\ c.sessions = p.sessions
      /\ c.entries = p.entries
      /\ DOMAIN c.first = {a.entry_id : a \in p.anchors}
  BY DEF Corpus
<1>2. \A e \in p.entries : e.seq_no \in Nat
  BY NumbersAreNat
<1>3. \A id \in DOMAIN c.first : c.first[id] \in p.anchors
  BY <1>1, FirstByPlace DEF AnchorsOf
<1> HIDE DEF p, c, d
<1>4. ASSUME NEW s \in Stated(c)
      PROVE  \E a \in p.anchors : a.anchor_id = PrimaryAnchor(c, s)
  <2> DEFINE E == Anchored(c, s)
  <2>1. E # {} /\ \A e \in E : e.seq_no \in Nat /\ e.entry_id \in DOMAIN c.first
    BY <1>1, <1>2 DEF Stated, Anchored, EntriesOf
  <2>2. Foremost(E) \in E
    <3> HIDE DEF E
    <3>1. QED BY <2>1, ForemostIsOne
  <2>3. QED BY <1>3, <2>1, <2>2 DEF PrimaryAnchor
<1>5. d.episodes = {Episode(s, EntriesOf(c, s)) : s \in Derived(c)}
  BY DEF d, PlanDerivation
<1>6. \A e \in d.episodes : \E s \in p.sessions : s.session_id = e.session_id
  BY <1>1, <1>5 DEF Derived, Episode
<1>7. d.evidence = UNION {{[subject |-> x.id, anchor_id |-> PrimaryAnchor(c, s)] :
                             x \in Statements(s, EntriesOf(c, s))} : s \in Stated(c)}
  BY DEF d, PlanDerivation
<1>8. \A v \in d.evidence : \E a \in p.anchors : a.anchor_id = v.anchor_id
  BY <1>4, <1>7
<1>9. QED BY <1>6, <1>8 DEF DerivationFits, PlanDerivationOf, p, c, d

LedgerIsFinite == IsFiniteSet(Ledger)

(* The ledger is finite at every moment. *)
LEMMA LedgerFinite == Spec => []LedgerIsFinite
<1>1. Init => LedgerIsFinite
  <2>1. Init => Ledger = {}
    BY DEF Init, StoreInit, Ledger
  <2>2. QED BY <2>1, FS_EmptySet DEF LedgerIsFinite
<1>2. LedgerIsFinite /\ [Next]_vars => LedgerIsFinite'
  <2> SUFFICES ASSUME IsFiniteSet(Ledger), [Next]_vars PROVE IsFiniteSet(Ledger')
    BY DEF LedgerIsFinite
  <2>1. Ledger' = Ledger \/ \E r \in Receipts : Ledger' = Ledger \cup {r}
    BY DEF Next, vars, Ledger, AppendReceipt, InsertReceipt, Hold, BuildProjectionPlan,
           BuildReplayPlan, LoadSessions, LoadEntries, LoadAnchorsAndPlan,
           ApplyProjectionPlan, ReplaceProjection, ApplyDerivationPlan, ReplaceDerivation, ApplyReplay, ReplaceBoth,
           MarkProjectionComplete, MarkDerivationComplete
  <2>2. QED BY <2>1, FS_AddElement
<1>3. QED BY <1>1, <1>2, PTL DEF Spec

(* Whatever the ledger holds, one replay rebuilds all of it, unless two    *)
(* workspaces share an external session or an event repeats a uri.         *)
THEOREM LedgerIsRebuildable == Spec => []RebuildableIf
<1>1. TypeOK /\ LedgerIsFinite => RebuildableIf
  <2> SUFFICES ASSUME TypeOK, IsFiniteSet(Ledger),
                      SessionKeysSeparate(Ledger), UrisDistinct(Ledger)
               PROVE  /\ ProjectionFits(PlanProjection(Ledger))
                      /\ DerivationFits(PlanDerivationOf(PlanProjection(Ledger)),
                                        PlanProjection(Ledger))
    BY DEF RebuildableIf, LedgerIsFinite
  <2>1. Ledger \in SUBSET Receipts
    BY DEF TypeOK
  <2>2. QED BY <2>1, ProjectionOfFits, DerivationOfFits
<1>2. QED BY <1>1, TypeCorrect, LedgerFinite, PTL

(* The sessions and the numbered entries of a projection of the ledger are *)
(* those that the loop of plan_projection leaves, whatever was received in *)
(* whatever order.                                                         *)
THEOREM PlannerIsLoop == Spec => []ProjectionIsLoop
<1>1. TypeOK /\ LedgerIsFinite => ProjectionIsLoop
  BY ProjectionLoops DEF ProjectionIsLoop, TypeOK, LedgerIsFinite
<1>2. QED BY <1>1, TypeCorrect, LedgerFinite, PTL

-----------------------------------------------------------------------------
(* Rebuild implements Store.  Whatever an operator has read or holds was   *)
(* made of receipts of the ledger, at one moment or at three.              *)
ReadFromLedger(q) ==
  \/ q = <<>>
  \/ \E T \in SUBSET Ledger : q = <<PlanProjection(T).sessions>>
  \/ \E T, U \in SUBSET Ledger :
       q = <<PlanProjection(T).sessions, PlanProjection(U).entries>>

HeldFromLedger(h) ==
  /\ h.kind = "derivation" =>
       \E T, U, V \in SUBSET Ledger : h.derivation = DerivationFrom(T, U, V)
  /\ h.kind = "replay" =>
       \E T \in SUBSET Ledger : /\ h.projection = PlanProjection(T)
                                /\ h.derivation = PlanDerivationOf(PlanProjection(T))

MadeOfLedger ==
  /\ \A o \in Operators : ReadFromLedger(reading[o])
  /\ \A o \in Operators : HeldFromLedger(held[o])

LEMMA MadeOfLedgerStays ==
  ASSUME Ledger \subseteq Ledger'
  PROVE  /\ \A q : ReadFromLedger(q) => ReadFromLedger(q)'
         /\ \A h : HeldFromLedger(h) => HeldFromLedger(h)'
<1>1. ASSUME NEW q, ReadFromLedger(q) PROVE ReadFromLedger(q)'
  BY <1>1 DEF ReadFromLedger
<1>2. ASSUME NEW h, HeldFromLedger(h) PROVE HeldFromLedger(h)'
  BY <1>2 DEF HeldFromLedger
<1>3. QED BY <1>1, <1>2

LEMMA LedgerGrows ==
  ASSUME TypeOK, [Next]_vars
  PROVE  Ledger \subseteq Ledger'
BY DEF TypeOK, Next, vars, AppendReceipt, InsertReceipt, BuildProjectionPlan, BuildReplayPlan,
       Hold, LoadSessions, LoadEntries, LoadAnchorsAndPlan, ApplyProjectionPlan,
       ApplyDerivationPlan, ApplyReplay, ReplaceProjection, ReplaceDerivation,
       ReplaceBoth, MarkProjectionComplete, MarkDerivationComplete, Ledger

LEMMA StepKeepsMade ==
  ASSUME TypeOK, SnapshotsOnly, MadeOfLedger, [Next]_vars
  PROVE  MadeOfLedger'
<1>1. /\ \A q : ReadFromLedger(q) => ReadFromLedger(q)'
      /\ \A h : HeldFromLedger(h) => HeldFromLedger(h)'
  BY LedgerGrows, MadeOfLedgerStays
<1>2. PICK S \in SUBSET Ledger : view = PlanProjection(S)
  BY DEF SnapshotsOnly, Snapshot
<1>3. ASSUME NEW o \in Operators,
             \A x \in Operators \ {o} : UNCHANGED <<reading[x], held[x]>>,
             ReadFromLedger(reading'[o]), HeldFromLedger(held'[o])
      PROVE  MadeOfLedger'
  <2>1. ASSUME NEW x \in Operators
        PROVE  ReadFromLedger(reading'[x]) /\ HeldFromLedger(held'[x])
    BY <1>3 DEF MadeOfLedger
  <2>2. Ledger \subseteq Ledger'
    BY LedgerGrows
  <2>3. ASSUME NEW x \in Operators PROVE ReadFromLedger(reading[x])'
    BY <2>1, <2>2 DEF ReadFromLedger
  <2>4. ASSUME NEW x \in Operators PROVE HeldFromLedger(held[x])'
    BY <2>1, <2>2 DEF HeldFromLedger
  <2>5. QED BY <2>3, <2>4 DEF MadeOfLedger
<1>4. CASE UNCHANGED <<reading, held>>
  <2>1. \A x \in Operators : ReadFromLedger(reading[x])'
    BY <1>4, LedgerGrows DEF MadeOfLedger, ReadFromLedger
  <2>2. \A x \in Operators : HeldFromLedger(held[x])'
    BY <1>4, LedgerGrows DEF MadeOfLedger, HeldFromLedger
  <2>3. QED BY <2>1, <2>2 DEF MadeOfLedger
<1>5. ASSUME NEW o \in Operators, BuildProjectionPlan(o) PROVE MadeOfLedger'
  <2>1. HeldFromLedger(held'[o])
    BY <1>5 DEF BuildProjectionPlan, Hold, ProjectionPlan, HeldFromLedger, TypeOK
  <2>2. QED BY <1>3, <1>5, <2>1 DEF BuildProjectionPlan, Hold, TypeOK, MadeOfLedger
<1>6. ASSUME NEW o \in Operators, BuildReplayPlan(o) PROVE MadeOfLedger'
  <2>1. held'[o] = ReplayPlan(PlanProjection(Ledger),
                              PlanDerivationOf(PlanProjection(Ledger)))
    BY <1>6 DEF BuildReplayPlan, Hold, TypeOK
  <2>2. HeldFromLedger(held'[o])
    BY <2>1 DEF ReplayPlan, HeldFromLedger
  <2>3. QED BY <1>3, <1>6, <2>2 DEF BuildReplayPlan, Hold, TypeOK, MadeOfLedger
<1>7. ASSUME NEW o \in Operators, LoadSessions(o) PROVE MadeOfLedger'
  <2>1. ReadFromLedger(reading'[o])
    BY <1>2, <1>7 DEF LoadSessions, ReadFromLedger, TypeOK
  <2>2. QED BY <1>3, <1>7, <2>1 DEF LoadSessions, TypeOK, MadeOfLedger
<1>8. ASSUME NEW o \in Operators, LoadEntries(o) PROVE MadeOfLedger'
  <2>1. PICK T \in SUBSET Ledger : reading[o] = <<PlanProjection(T).sessions>>
    BY <1>8 DEF LoadEntries, MadeOfLedger, ReadFromLedger
  <2>2. reading'[o] = <<PlanProjection(T).sessions, PlanProjection(S).entries>>
    BY <1>2, <1>8, <2>1 DEF LoadEntries, TypeOK
  <2>3. ReadFromLedger(reading'[o])
    BY <2>2 DEF ReadFromLedger
  <2>4. QED BY <1>3, <1>8, <2>3 DEF LoadEntries, TypeOK, MadeOfLedger
<1>9. ASSUME NEW o \in Operators, LoadAnchorsAndPlan(o) PROVE MadeOfLedger'
  <2>1. PICK T, U \in SUBSET Ledger :
          reading[o] = <<PlanProjection(T).sessions, PlanProjection(U).entries>>
    BY <1>9 DEF LoadAnchorsAndPlan, MadeOfLedger, ReadFromLedger
  <2>2. held'[o] = DerivePlan(DerivationFrom(T, U, S))
    BY <1>2, <1>9, <2>1 DEF LoadAnchorsAndPlan, Hold, TypeOK, DerivationFrom
  <2>3. HeldFromLedger(held'[o])
    BY <2>2 DEF DerivePlan, HeldFromLedger
  <2>4. ReadFromLedger(reading'[o])
    BY <1>9 DEF LoadAnchorsAndPlan, ReadFromLedger, TypeOK
  <2>5. QED BY <1>3, <1>9, <2>3, <2>4
            DEF LoadAnchorsAndPlan, Hold, TypeOK, MadeOfLedger
<1>10. ASSUME NEW r, AppendReceipt(r) PROVE MadeOfLedger'
  BY <1>4, <1>10 DEF AppendReceipt
<1>11. ASSUME NEW o, ApplyProjectionPlan(o) \/ ApplyDerivationPlan(o) \/ ApplyReplay(o)
       PROVE  MadeOfLedger'
  BY <1>4, <1>11 DEF ApplyProjectionPlan, ApplyDerivationPlan, ApplyReplay
<1>12. CASE UNCHANGED vars
  BY <1>4, <1>12 DEF vars
<1>13. QED BY <1>5, <1>6, <1>7, <1>8, <1>9, <1>10, <1>11, <1>12 DEF Next

LEMMA MadeOfLedgerHolds == Spec => []MadeOfLedger
<1>1. Init => MadeOfLedger
  BY DEF Init, MadeOfLedger, ReadFromLedger, HeldFromLedger, NoPlan
<1>2. TypeOK /\ SnapshotsOnly /\ MadeOfLedger /\ [Next]_vars => MadeOfLedger'
  BY StepKeepsMade
<1>3. QED BY <1>1, <1>2, TypeCorrect, SnapshotInvariant, PTL DEF Spec

(* Each transaction replaces the tables by what receipts of the ledger     *)
(* project and derive to, whoever planned it and however long ago: the     *)
(* readers of the store need know no more than StoreSpec.                  *)
THEOREM RebuildImplementsStore == Spec => StoreSpec
<1>1. Init => StoreInit
  BY DEF Init
<1>2. TypeOK /\ SnapshotsOnly /\ MadeOfLedger /\ [Next]_vars => [StoreNext]_store_vars
  <2> SUFFICES ASSUME TypeOK, SnapshotsOnly, MadeOfLedger, [Next]_vars
               PROVE  [StoreNext]_store_vars
    OBVIOUS
  <2>1. ASSUME NEW r \in Receipts, AppendReceipt(r) PROVE StoreNext
    BY <2>1 DEF AppendReceipt, StoreNext
  <2>2. ASSUME NEW T \in SUBSET Ledger
        PROVE  \E plan \in Replays :
                 /\ plan.made_of \subseteq Ledger
                 /\ plan.projection = PlanProjection(T)
                 /\ plan.derivation = PlanDerivationOf(PlanProjection(T))
    <3>1. T \in SUBSET Receipts
      BY DEF TypeOK
    <3> DEFINE plan == [made_of |-> T, projection |-> PlanProjection(T),
                        derivation |-> PlanDerivationOf(PlanProjection(T))]
    <3>2. plan \in Replays
      BY <3>1 DEF Replays
    <3>3. QED BY <3>2
  <2>3. ASSUME NEW o \in Operators, ApplyProjectionPlan(o) PROVE StoreNext
    <3>1. PICK T \in SUBSET Ledger : held[o].projection = PlanProjection(T)
      BY <2>3 DEF ApplyProjectionPlan, SnapshotsOnly, Snapshot
    <3>2. ReplaceProjection(PlanProjection(T))
      BY <2>3, <3>1 DEF ApplyProjectionPlan
    <3>3. QED BY <2>2, <3>2 DEF StoreNext
  <2>4. ASSUME NEW o \in Operators, ApplyReplay(o) PROVE StoreNext
    <3>1. PICK T \in SUBSET Ledger :
            /\ held[o].projection = PlanProjection(T)
            /\ held[o].derivation = PlanDerivationOf(PlanProjection(T))
      BY <2>4 DEF ApplyReplay, MadeOfLedger, HeldFromLedger
    <3>2. ReplaceBoth(PlanProjection(T), PlanDerivationOf(PlanProjection(T)))
      BY <2>4, <3>1 DEF ApplyReplay
    <3>3. QED BY <2>2, <3>2 DEF StoreNext
  <2>5. ASSUME NEW o \in Operators, ApplyDerivationPlan(o) PROVE StoreNext
    <3>1. PICK T, U, V \in SUBSET Ledger : held[o].derivation = DerivationFrom(T, U, V)
      BY <2>5 DEF ApplyDerivationPlan, MadeOfLedger, HeldFromLedger
    <3>2. ReplaceDerivation(DerivationFrom(T, U, V))
      BY <2>5, <3>1 DEF ApplyDerivationPlan
    <3> DEFINE plan == [made_of |-> T \cup U \cup V, derivation |-> DerivationFrom(T, U, V)]
    <3>3. plan \in Derivations /\ plan.made_of \subseteq Ledger
      <4>1. /\ T \in SUBSET Receipts /\ U \in SUBSET Receipts /\ V \in SUBSET Receipts
            /\ T \cup U \cup V \subseteq Ledger
        BY DEF TypeOK
      <4>2. plan \in Derivations
        <5> DEFINE From(U1, V1) ==
                     {[made_of |-> T1 \cup U1 \cup V1, derivation |-> DerivationFrom(T1, U1, V1)] :
                        T1 \in SUBSET Receipts}
                   Over(V1) == UNION {From(U1, V1) : U1 \in SUBSET Receipts}
        <5>1. plan \in From(U, V)
          BY <4>1
        <5>2. plan \in Over(V)
          BY <4>1, <5>1
        <5>3. Derivations = UNION {Over(V1) : V1 \in SUBSET Receipts}
          BY DEF Derivations
        <5>4. QED BY <4>1, <5>2, <5>3
      <4>3. QED BY <4>1, <4>2
    <3>4. QED BY <3>2, <3>3 DEF StoreNext
  <2>6. ASSUME NEW o \in Operators,
               \/ BuildProjectionPlan(o) \/ BuildReplayPlan(o) \/ LoadSessions(o)
               \/ LoadEntries(o) \/ LoadAnchorsAndPlan(o)
        PROVE  UNCHANGED store_vars
    BY <2>6 DEF BuildProjectionPlan, BuildReplayPlan, LoadSessions, LoadEntries,
                LoadAnchorsAndPlan, Hold, store_vars
  <2>7. CASE UNCHANGED vars
    BY <2>7 DEF vars, store_vars
  <2>8. QED BY <2>1, <2>3, <2>4, <2>5, <2>6, <2>7 DEF Next
<1>3. QED BY <1>1, <1>2, TypeCorrect, SnapshotInvariant, MadeOfLedgerHolds, PTL
          DEF Spec, StoreSpec

-----------------------------------------------------------------------------
(* The two pipelines.  A plan depends on the order of the anchors only in  *)
(* the anchors it cites.                                                   *)
LEMMA OnlyCitationsDiffer ==
  ASSUME NEW c, NEW k, c.sessions = k.sessions, c.entries = k.entries,
         DOMAIN c.first = DOMAIN k.first
  PROVE  /\ Uncited(PlanDerivation(c)) = Uncited(PlanDerivation(k))
         /\ {v.subject : v \in PlanDerivation(c).evidence}
              = {v.subject : v \in PlanDerivation(k).evidence}
<1> DEFINE St(s) == Statements(s, EntriesOf(c, s))
<1>1. \A s : EntriesOf(c, s) = EntriesOf(k, s)
  BY DEF EntriesOf
<1>2. Derived(c) = Derived(k)
  BY <1>1 DEF Derived
<1>3. Stated(c) = Stated(k)
  BY <1>1, <1>2 DEF Stated, Anchored
<1>4. \A s : St(s) = Statements(s, EntriesOf(k, s))
  BY <1>1
<1>5. PlanDerivation(c).episodes = PlanDerivation(k).episodes
  BY <1>1, <1>2 DEF PlanDerivation
<1>6. PlanDerivation(c).statements = PlanDerivation(k).statements
  BY <1>3, <1>4 DEF PlanDerivation
<1>7. PlanDerivation(c).verifications = PlanDerivation(k).verifications
  <2>1. \A s : Verifications(s, EntriesOf(c, s)) = Verifications(s, EntriesOf(k, s))
    BY <1>1
  <2>2. QED BY <1>3, <2>1 DEF PlanDerivation
<1>8. SearchDocs(c) = SearchDocs(k)
  <2> DEFINE Eps(d) == {SearchDoc("episodes", EpisodeId(s, EntriesOf(d, s)), s) : s \in Derived(d)}
             Of(d, s) == {SearchDoc(x.table, x.id, s) :
                            x \in {x \in Statements(s, EntriesOf(d, s)) : x.table # "claims"}}
  <2>1. Eps(c) = Eps(k)
    BY <1>1, <1>2
  <2>2. \A s : Of(c, s) = Of(k, s)
    BY <1>1
  <2> HIDE DEF Of
  <2>3. UNION {Of(c, s) : s \in Stated(c)} = UNION {Of(k, s) : s \in Stated(k)}
    BY <1>3, <2>2
  <2>4. QED BY <2>1, <2>3 DEF SearchDocs, Of
<1>9. {v.subject : v \in PlanDerivation(c).evidence}
        = {v.subject : v \in PlanDerivation(k).evidence}
  <2> DEFINE X(d, s) == Statements(s, EntriesOf(d, s))
             Su(d) == {x.id : x \in UNION {X(d, s) : s \in Stated(d)}}
             Of(d) == {v.subject : v \in PlanDerivation(d).evidence}
  <2>1. ASSUME NEW d PROVE Of(d) = Su(d)
    <3>1. PlanDerivation(d).evidence =
            UNION {{[subject |-> x.id, anchor_id |-> PrimaryAnchor(d, s)] :
                      x \in X(d, s)} : s \in Stated(d)}
      BY DEF PlanDerivation
    <3> HIDE DEF X
    <3>2. ASSUME NEW v \in PlanDerivation(d).evidence PROVE v.subject \in Su(d)
      <4>1. PICK s \in Stated(d) : \E x \in X(d, s) :
              v = [subject |-> x.id, anchor_id |-> PrimaryAnchor(d, s)]
        BY <3>1
      <4>2. QED BY <4>1
    <3>3. ASSUME NEW s \in Stated(d), NEW x \in X(d, s) PROVE x.id \in Of(d)
      <4>1. [subject |-> x.id, anchor_id |-> PrimaryAnchor(d, s)]
              \in PlanDerivation(d).evidence
        BY <3>1
      <4>2. QED BY <4>1
    <3>4. QED BY <3>2, <3>3
  <2>2. Su(c) = Su(k)
    BY <1>3, <1>4
  <2>3. QED BY <2>1, <2>2
<1>10. Uncited(PlanDerivation(c)) = Uncited(PlanDerivation(k))
  <2>1. ASSUME NEW d
        PROVE  Uncited(PlanDerivation(d)) =
                 [episodes      |-> PlanDerivation(d).episodes,
                  statements    |-> PlanDerivation(d).statements,
                  evidence      |-> {},
                  verifications |-> PlanDerivation(d).verifications,
                  search_docs   |-> SearchDocs(d)]
    <3>1. \A a, e, t, v, q :
            [[episodes |-> e, statements |-> t, evidence |-> a, verifications |-> v,
              search_docs |-> q] EXCEPT !.evidence = {}]
              = [episodes |-> e, statements |-> t, evidence |-> {}, verifications |-> v,
                 search_docs |-> q]
      OBVIOUS
    <3>2. PlanDerivation(d) =
            [episodes      |-> PlanDerivation(d).episodes,
             statements    |-> PlanDerivation(d).statements,
             evidence      |-> PlanDerivation(d).evidence,
             verifications |-> PlanDerivation(d).verifications,
             search_docs   |-> SearchDocs(d)]
      BY DEF PlanDerivation
    <3>3. QED BY <3>1, <3>2 DEF Uncited
  <2>2. QED BY <1>5, <1>6, <1>7, <1>8, <2>1
<1>11. QED BY <1>9, <1>10

LEMMA OrdersAgree ==
  ASSUME NEW p
  PROVE  LET stored == PlanDerivation(Corpus(p.sessions, p.entries, p.anchors, ByHash))
         IN  /\ Uncited(stored) = Uncited(PlanDerivationOf(p))
             /\ {v.subject : v \in stored.evidence}
                  = {v.subject : v \in PlanDerivationOf(p).evidence}
<1> DEFINE c == Corpus(p.sessions, p.entries, p.anchors, ByHash)
           k == Corpus(p.sessions, p.entries, p.anchors, ByPlace)
<1>1. /\ c.sessions = k.sessions /\ c.entries = k.entries
      /\ DOMAIN c.first = DOMAIN k.first
  BY DEF Corpus
<1>2. /\ Uncited(PlanDerivation(c)) = Uncited(PlanDerivation(k))
      /\ {v.subject : v \in PlanDerivation(c).evidence}
           = {v.subject : v \in PlanDerivation(k).evidence}
  <2> HIDE DEF c, k
  <2>1. QED BY <1>1, OnlyCitationsDiffer
<1>3. QED BY <1>2 DEF PlanDerivationOf

(* A rebuild from the tables and a replay derive the same rows of any      *)
(* ledger, and differ in the anchors cited at most.                        *)
THEOREM DerivationsAgree == Spec => []PipelinesAgree
<1>1. PipelinesAgree
  BY OrdersAgree DEF PipelinesAgree
<1>2. QED BY <1>1, PTL

-----------------------------------------------------------------------------
(* What is read after the last projection is of the view, and so is the    *)
(* plan that comes of it, until the next projection puts all behind.       *)
SameRows(d, p) == Uncited(d) = Uncited(PlanDerivationOf(p))

CurrentInv ==
  /\ DerivedIsCurrent
  /\ \A o \in Operators :
       held[o].kind = "replay" => SameRows(held[o].derivation, held[o].projection)
  /\ \A o \in Operators \ behind :
       /\ \/ reading[o] = <<>>
          \/ reading[o] = <<view.sessions>>
          \/ reading[o] = <<view.sessions, view.entries>>
       /\ Idle(o) /\ held[o].kind = "derivation" => SameRows(held[o].derivation, view)

NothingDerived ==
  [episodes |-> {}, statements |-> {}, evidence |-> {}, verifications |-> {},
   search_docs |-> {}]

(* Nothing is derived of no sessions. *)
LEMMA NothingOfNoSessions ==
  ASSUME NEW c, c.sessions = {}
  PROVE  Uncited(PlanDerivation(c)) = NothingDerived
<1>1. Derived(c) = {} /\ Stated(c) = {}
  BY DEF Derived, Stated
<1>2. SearchDocs(c) = {}
  BY <1>1 DEF SearchDocs
<1>3. PlanDerivation(c) = NothingDerived
  BY <1>1, <1>2 DEF PlanDerivation, NothingDerived
<1>4. QED BY <1>3 DEF Uncited, NothingDerived

LEMMA NothingOfNothing ==
  /\ Uncited(PlanDerivationOf(PlanProjection({}))) = NothingDerived
  /\ Uncited(NoDerivation) = NothingDerived
<1> DEFINE p == PlanProjection({})
           c == Corpus(p.sessions, p.entries, p.anchors, ByPlace)
           k == Corpus({}, {}, {}, ByPlace)
<1>1. c.sessions = {} /\ k.sessions = {}
  BY DEF Corpus, PlanProjection, SessionRows
<1>2. Uncited(PlanDerivation(c)) = NothingDerived
  <2> HIDE DEF c
  <2>1. QED BY <1>1, NothingOfNoSessions
<1>3. Uncited(PlanDerivation(k)) = NothingDerived
  <2> HIDE DEF k
  <2>1. QED BY <1>1, NothingOfNoSessions
<1>4. QED BY <1>2, <1>3 DEF PlanDerivationOf, NoDerivation

(* Detaching nothing changes nothing. *)
LEMMA NothingDetached ==
  ASSUME NEW d, SameRows(d, PlanProjection({}))
  PROVE  SameRows(Detached(d), PlanProjection({}))
<1>1. Uncited(d) = NothingDerived
  BY NothingOfNothing DEF SameRows
<1>2. /\ d.episodes = {} /\ d.statements = {} /\ d.verifications = {}
      /\ d.search_docs = {}
  BY <1>1 DEF Uncited, NothingDerived
<1>3. Detached(d) = NothingDerived
  BY <1>2 DEF Detached, NothingDerived
<1>4. Uncited(Detached(d)) = NothingDerived
  BY <1>3 DEF Uncited, NothingDerived
<1>5. QED BY <1>4, NothingOfNothing DEF SameRows

(* A projection puts every operator behind, and only an operator that is   *)
(* not behind leaves the rows current by a derivation plan.                *)
LEMMA StepKeepsCurrent ==
  ASSUME TypeOK, SnapshotsOnly, CurrentInv, [Next]_vars
  PROVE  CurrentInv'
<1> DEFINE Reads(q, v) == \/ q = <<>>
                          \/ q = <<v.sessions>>
                          \/ q = <<v.sessions, v.entries>>
           Holds(h, q, v) ==
             q = <<>> /\ h.kind = "derivation" => SameRows(h.derivation, v)
           OfItself(h) ==
             h.kind = "replay" => SameRows(h.derivation, h.projection)
           Current(m, d, v, t) ==
             (\A r \in DOMAIN m : m[r].derived_state = "derived") /\ ~t => SameRows(d, v)
<1>1. /\ Current(marks, knowledge, view, overtaken)
      /\ \A o \in Operators : OfItself(held[o])
      /\ \A o \in Operators \ behind :
           Reads(reading[o], view) /\ Holds(held[o], reading[o], view)
  BY DEF CurrentInv, DerivedIsCurrent, SameRows, Ledger, Idle
<1>2. SUFFICES /\ Current(marks', knowledge', view', overtaken')
               /\ \A o \in Operators : OfItself(held'[o])
               /\ \A o \in Operators \ behind' :
                    Reads(reading'[o], view') /\ Holds(held'[o], reading'[o], view')
  BY DEF CurrentInv, DerivedIsCurrent, SameRows, Ledger, Idle
<1>3. DOMAIN reading = Operators /\ DOMAIN held = Operators
  BY DEF TypeOK
<1> HIDE DEF Reads, Holds, OfItself, Current
<1>4. ASSUME NEW r \in Receipts, AppendReceipt(r) PROVE <1>2!1
  <2>1. /\ r \in DOMAIN marks' /\ marks'[r] = Pending
        /\ UNCHANGED <<view, reading, held, behind>>
    BY <1>4 DEF AppendReceipt, InsertReceipt, history
  <2>2. marks'[r].derived_state # "derived"
    BY <2>1 DEF Pending, Marks
  <2>3. Current(marks', knowledge', view', overtaken')
    BY <2>1, <2>2 DEF Current
  <2>4. QED BY <1>1, <2>1, <2>3
<1>5. ASSUME NEW o \in Operators, NEW h, UNCHANGED <<marks, view, knowledge, history>>,
             held' = [held EXCEPT ![o] = h], OfItself(h),
             \A q \in Operators : q # o => reading'[q] = reading[q],
             o \notin behind => Reads(reading'[o], view) /\ Holds(h, reading'[o], view)
      PROVE  <1>2!1
  <2>1. \A q \in Operators : held'[q] = IF q = o THEN h ELSE held[q]
    BY <1>3, <1>5
  <2>2. QED BY <1>1, <1>5, <2>1 DEF history
<1>6. ASSUME NEW o \in Operators, BuildProjectionPlan(o) PROVE <1>2!1
  <2> DEFINE h == ProjectionPlan(PlanProjection(Ledger))
  <2>1. /\ UNCHANGED <<marks, view, knowledge, history, reading>>
        /\ held' = [held EXCEPT ![o] = h]
    BY <1>6 DEF BuildProjectionPlan, Hold
  <2>2. OfItself(h) /\ Holds(h, reading[o], view)
    BY DEF OfItself, Holds, ProjectionPlan
  <2> HIDE DEF h
  <2>3. QED BY <1>1, <1>5, <2>1, <2>2
<1>7. ASSUME NEW o \in Operators, BuildReplayPlan(o) PROVE <1>2!1
  <2> DEFINE p == PlanProjection(Ledger)
             h == ReplayPlan(p, PlanDerivationOf(p))
  <2>1. /\ UNCHANGED <<marks, view, knowledge, history, reading>>
        /\ held' = [held EXCEPT ![o] = h]
    BY <1>7 DEF BuildReplayPlan, Hold
  <2> HIDE DEF p
  <2>2. OfItself(h) /\ Holds(h, reading[o], view)
    BY DEF OfItself, Holds, ReplayPlan, SameRows
  <2> HIDE DEF h
  <2>3. QED BY <1>1, <1>5, <2>1, <2>2
<1>8. ASSUME NEW o \in Operators, LoadSessions(o) PROVE <1>2!1
  <2>1. /\ UNCHANGED <<marks, view, knowledge, held, overtaken>>
        /\ behind' = behind \ {o}
        /\ \A q \in Operators :
             reading'[q] = IF q = o THEN <<view.sessions>> ELSE reading[q]
    BY <1>3, <1>8 DEF LoadSessions
  <2>2. Reads(reading'[o], view) /\ Holds(held[o], reading'[o], view)
    BY <2>1 DEF Reads, Holds
  <2>3. QED BY <1>1, <2>1, <2>2
<1>9. ASSUME NEW o \in Operators, LoadEntries(o) PROVE <1>2!1
  <2>1. /\ UNCHANGED <<marks, view, knowledge, held, history>>
        /\ Len(reading[o]) = 1
        /\ \A q \in Operators :
             reading'[q] = IF q = o THEN <<reading[o][1], view.entries>> ELSE reading[q]
    BY <1>3, <1>9 DEF LoadEntries
  <2>2. o \notin behind => reading[o][1] = view.sessions
    BY <1>1, <2>1 DEF Reads
  <2>3. o \notin behind =>
          Reads(reading'[o], view) /\ Holds(held[o], reading'[o], view)
    BY <2>1, <2>2 DEF Reads, Holds
  <2>4. QED BY <1>1, <2>1, <2>3 DEF history
<1>10. ASSUME NEW o \in Operators, LoadAnchorsAndPlan(o) PROVE <1>2!1
  <2> DEFINE d(q) == PlanDerivation(Corpus(q[1], q[2], view.anchors, ByHash))
             h == DerivePlan(d(reading[o]))
  <2>1. /\ UNCHANGED <<marks, view, knowledge, history>>
        /\ Len(reading[o]) = 2
        /\ held' = [held EXCEPT ![o] = h]
        /\ \A q \in Operators : reading'[q] = IF q = o THEN <<>> ELSE reading[q]
    BY <1>3, <1>10 DEF LoadAnchorsAndPlan, Hold
  <2>2. o \notin behind => reading[o] = <<view.sessions, view.entries>>
    BY <1>1, <2>1 DEF Reads
  <2>3. SameRows(d(<<view.sessions, view.entries>>), view)
    BY OrdersAgree DEF SameRows
  <2> HIDE DEF d
  <2>4. OfItself(h) /\ (o \notin behind => Holds(h, <<>>, view))
    BY <2>2, <2>3 DEF OfItself, Holds, DerivePlan
  <2>5. Reads(<<>>, view)
    BY DEF Reads
  <2> HIDE DEF h
  <2>6. QED BY <1>5, <2>1, <2>4, <2>5
<1>11. ASSUME NEW o \in Operators, ApplyProjectionPlan(o) PROVE <1>2!1
  <2>1. /\ held[o].kind = "projection"
        /\ UNCHANGED <<reading, held, overtaken>>
        /\ view' = held[o].projection
        /\ knowledge' = Detached(knowledge)
        /\ marks' = MarkProjectionComplete(marks)
        /\ behind' = Operators
    BY <1>11 DEF ApplyProjectionPlan, ReplaceProjection
  <2>2. DOMAIN marks' = Ledger /\ \A r \in Ledger : marks'[r].derived_state = "pending"
    BY <2>1 DEF MarkProjectionComplete, Projected, Marks, Ledger
  <2>3. ASSUME Ledger = {}, ~overtaken PROVE SameRows(knowledge', view')
    <3>1. view = PlanProjection({}) /\ held[o].projection = PlanProjection({})
      BY <2>1, <2>3 DEF SnapshotsOnly, Snapshot
    <3>2. SameRows(knowledge, PlanProjection({}))
      BY <1>1, <2>3, <3>1 DEF Current, Ledger
    <3>3. QED BY <2>1, <3>1, <3>2, NothingDetached
  <2>4. Current(marks', knowledge', view', overtaken')
    <3>1. CASE Ledger = {}
      BY <2>1, <2>3, <3>1 DEF Current
    <3>2. CASE Ledger # {}
      BY <2>2, <3>2 DEF Current
    <3>3. QED BY <3>1, <3>2
  <2>5. QED BY <1>1, <2>1, <2>4
<1>12. ASSUME NEW o \in Operators, ApplyDerivationPlan(o) PROVE <1>2!1
  <2>1. /\ Idle(o) /\ held[o].kind = "derivation"
        /\ UNCHANGED <<view, reading, held, behind>>
        /\ knowledge' = held[o].derivation
        /\ overtaken' = (o \in behind)
    BY <1>12 DEF ApplyDerivationPlan, ReplaceDerivation
  <2>2. o \notin behind => SameRows(held[o].derivation, view)
    BY <1>1, <2>1 DEF Holds, Idle
  <2>3. Current(marks', knowledge', view', overtaken')
    BY <2>1, <2>2 DEF Current
  <2>4. QED BY <1>1, <2>1, <2>3
<1>13. ASSUME NEW o \in Operators, ApplyReplay(o) PROVE <1>2!1
  <2>1. /\ held[o].kind = "replay"
        /\ UNCHANGED <<reading, held>>
        /\ view' = held[o].projection
        /\ knowledge' = held[o].derivation
        /\ behind' = Operators
    BY <1>13 DEF ApplyReplay, ReplaceBoth
  <2>2. SameRows(held[o].derivation, held[o].projection)
    BY <1>1, <2>1 DEF OfItself
  <2>3. Current(marks', knowledge', view', overtaken')
    BY <2>1, <2>2 DEF Current
  <2>4. QED BY <1>1, <2>1, <2>3
<1>14. CASE UNCHANGED vars
  BY <1>1, <1>14 DEF vars
<1>15. QED BY <1>4, <1>6, <1>7, <1>8, <1>9, <1>10, <1>11, <1>12, <1>13, <1>14 DEF Next

(* What is marked derived throughout is derived of what is shown, unless   *)
(* it comes of a derivation plan that a projection overtook, whatever the  *)
(* operators build, tear, keep and apply.                                  *)
THEOREM DerivedStaysCurrent == Spec => []DerivedIsCurrent
<1>1. Init => CurrentInv
  <2> SUFFICES ASSUME Init PROVE CurrentInv
    OBVIOUS
  <2>1. SameRows(NoDerivation, PlanProjection({}))
    BY NothingOfNothing DEF SameRows
  <2>2. QED BY <2>1 DEF Init, StoreInit, CurrentInv, DerivedIsCurrent, SameRows, NoPlan,
                     NoProjection
<1>2. TypeOK /\ SnapshotsOnly /\ CurrentInv /\ [Next]_vars => CurrentInv'
  BY StepKeepsCurrent
<1>3. CurrentInv => DerivedIsCurrent
  BY DEF CurrentInv
<1>4. QED BY <1>1, <1>2, <1>3, TypeCorrect, SnapshotInvariant, PTL DEF Spec
=============================================================================
