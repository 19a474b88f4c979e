----------------------------- MODULE Projection -----------------------------
(***************************************************************************)
(* plan_projection (axiomsync-kernel projection.rs): the canonical rows of *)
(* a set of receipts.                                                      *)
(*                                                                         *)
(* A receipt is a record                                                   *)
(*   receipt_id, observed_at   numbers, in the order of the texts          *)
(*   session_kind, connector, session_key, workspace_root                  *)
(*   event_kind   the hint of the entry's kind, or the kind of the event   *)
(*   title        what the lookup of a session's first receipt finds       *)
(*   page_title   what the narrower lookup of its later receipts finds     *)
(*   actor        the actor's kind and name                                *)
(*   text         what payload_text finds: a record of Derivation          *)
(*   uris         the uris of its artifacts, a sequence                    *)
(* An id hashed from fields of a row is the tuple of these fields.         *)
(***************************************************************************)
EXTENDS Naturals, Sequences, FiniteSets

CONSTANT Absent   \* an optional field left out

-----------------------------------------------------------------------------
(* The order of the plan: observed_at, then receipt_id. *)
Earlier(r, s) ==
  \/ r.observed_at < s.observed_at
  \/ r.observed_at = s.observed_at /\ r.receipt_id < s.receipt_id

Earliest(T) == CHOOSE r \in T : \A s \in T : s = r \/ Earlier(r, s)
Latest(T) == CHOOSE r \in T : \A s \in T : s = r \/ Earlier(s, r)

SessionId(r) ==
  <<r.session_kind, r.connector, r.session_key, r.workspace_root>>

InSession(S, sid) == {r \in S : SessionId(r) = sid}

-----------------------------------------------------------------------------
(* Faulty: any receipt may give the session its title. *)
AnyTitle(T) ==
  LET titled == {r \in T : r.title # Absent}
  IN  IF titled = {} THEN Absent ELSE Earliest(titled).title

(* Sessions.  The first receipt gives the title, or else the first that    *)
(* has a page title.                                                       *)
SessionTitle(T) ==
  LET titled == {r \in T : r.page_title # Absent}
  IN  CASE Earliest(T).title # Absent -> Earliest(T).title
        [] Earliest(T).title = Absent /\ titled # {} -> Earliest(titled).page_title
        [] OTHER -> Absent

SessionRow(sid, T) ==
  [session_id     |-> sid,
   external       |-> <<sid[1], sid[2], sid[3]>>,
   session_kind   |-> sid[1],
   session_key    |-> sid[3],
   workspace_root |-> Earliest(T).workspace_root,
   title          |-> SessionTitle(T),
   opened_at      |-> Earliest(T).observed_at,
   closed_at      |-> Latest(T).observed_at]

SessionRows(S) ==
  {SessionRow(sid, InSession(S, sid)) : sid \in {SessionId(r) : r \in S}}

ActorId(r) == <<r.connector, r.actor>>

-----------------------------------------------------------------------------
(* Entries: one per receipt, numbered from 1 within the session.           *)
(* Faulty: receipts observed at one time are not ordered. *)
UpToTime(S, r) ==
  {s \in InSession(S, SessionId(r)) : s.observed_at <= r.observed_at}

UpTo(S, r) == {s \in InSession(S, SessionId(r)) : s = r \/ Earlier(s, r)}

SeqNo(S, r) == Cardinality(UpTo(S, r))

EntryId(S, r) == <<SessionId(r), SeqNo(S, r), r.receipt_id>>

EntryRow(S, r) ==
  [entry_id   |-> EntryId(S, r),
   session_id |-> SessionId(r),
   seq_no     |-> SeqNo(S, r),
   actor_id   |-> ActorId(r),
   entry_kind |-> r.event_kind,
   text_body  |-> r.text]

-----------------------------------------------------------------------------
(* Artifacts, and the anchors of texts and artifacts.  A row has its       *)
(* place in the entry, 0 for the text, which is the order of the plan and  *)
(* keeps two rows with one id apart.                                       *)
Places(r) == DOMAIN r.uris

ArtifactId(S, r, i) == <<EntryId(S, r), r.uris[i]>>

ArtifactRow(S, r, i) ==
  [artifact_id |-> ArtifactId(S, r, i),
   session_id  |-> SessionId(r),
   entry_id    |-> EntryId(S, r),
   place       |-> i]

TextAnchor(S, r) ==
  [anchor_id   |-> <<"text", EntryId(S, r)>>,
   entry_id    |-> EntryId(S, r),
   artifact_id |-> Absent,
   place       |-> 0]

ArtifactAnchor(S, r, i) ==
  [anchor_id   |-> <<"artifact", ArtifactId(S, r, i)>>,
   entry_id    |-> EntryId(S, r),
   artifact_id |-> ArtifactId(S, r, i),
   place       |-> i]

HasText(r) == r.text # Absent /\ ~r.text.blank

Anchors(S, r) ==
  (IF HasText(r) THEN {TextAnchor(S, r)} ELSE {})
    \cup {ArtifactAnchor(S, r, i) : i \in Places(r)}

PlanProjection(S) ==
  [sessions  |-> SessionRows(S),
   actors    |-> {ActorId(r) : r \in S},
   entries   |-> {EntryRow(S, r) : r \in S},
   artifacts |-> UNION {{ArtifactRow(S, r, i) : i \in Places(r)} : r \in S},
   anchors   |-> UNION {Anchors(S, r) : r \in S}]

NoProjection == PlanProjection({})

-----------------------------------------------------------------------------
(* The loop behind sessions and entries: the receipts in their order, with *)
(* the row and the counter of each session met so far.                     *)
Orders(S) ==
  {q \in [1 .. Cardinality(S) -> S] :
     /\ \A r \in S : \E i \in DOMAIN q : q[i] = r
     /\ \A i, j \in DOMAIN q : i < j => Earlier(q[i], q[j])}

Opened(r) ==
  [session_id     |-> SessionId(r),
   external       |-> <<r.session_kind, r.connector, r.session_key>>,
   session_kind   |-> r.session_kind,
   session_key    |-> r.session_key,
   workspace_root |-> r.workspace_root,
   title          |-> r.title,
   opened_at      |-> r.observed_at,
   closed_at      |-> r.observed_at]

Extended(s, r) ==
  [s EXCEPT !.title = IF @ = Absent THEN r.page_title ELSE @,
            !.opened_at = IF r.observed_at < @ THEN r.observed_at ELSE @,
            !.closed_at = IF r.observed_at > @ THEN r.observed_at ELSE @]

ProjectReceipt(acc, r) ==
  LET sid == SessionId(r)
      met == DOMAIN acc.session_map
      session == Extended(IF sid \in met THEN acc.session_map[sid] ELSE Opened(r), r)
      seq_no == IF sid \in met THEN acc.seq_by_session[sid] + 1 ELSE 1
  IN  [session_map    |-> [x \in met \cup {sid} |->
                             IF x = sid THEN session ELSE acc.session_map[x]],
       seq_by_session |-> [x \in met \cup {sid} |->
                             IF x = sid THEN seq_no ELSE acc.seq_by_session[x]],
       entries        |-> acc.entries \cup
                            {[entry_id   |-> <<sid, seq_no, r.receipt_id>>,
                              session_id |-> sid,
                              seq_no     |-> seq_no,
                              actor_id   |-> ActorId(r),
                              entry_kind |-> r.event_kind,
                              text_body  |-> r.text]}]

NothingProjected ==
  [session_map |-> <<>>, seq_by_session |-> <<>>, entries |-> {}]

ProjectInOrder(S, q) ==
  LET after[i \in 0 .. Cardinality(S)] ==
        IF i = 0 THEN NothingProjected ELSE ProjectReceipt(after[i - 1], q[i])
  IN  after[Cardinality(S)]

(* The receipts can be put in order, and the sessions and the entries of   *)
(* the plan are those the loop leaves.                                     *)
IsLoopOf(S) ==
  /\ Orders(S) # {}
  /\ \A q \in Orders(S) :
       LET acc == ProjectInOrder(S, q)
       IN  /\ PlanProjection(S).sessions =
                {acc.session_map[sid] : sid \in DOMAIN acc.session_map}
           /\ PlanProjection(S).entries = acc.entries

-----------------------------------------------------------------------------
(* The constraints of the tables: primary keys, idx_sessions_external,     *)
(* idx_entries_session_seq, and the references.                            *)
ProjectionFits(p) ==
  /\ \A s, t \in p.sessions :
       \/ s = t
       \/ /\ s.session_id # t.session_id
          /\ s.session_key # Absent => s.external # t.external
  /\ \A e, f \in p.entries :
       \/ e = f
       \/ /\ e.entry_id # f.entry_id
          /\ <<e.session_id, e.seq_no>> # <<f.session_id, f.seq_no>>
  /\ \A a, b \in p.artifacts : a.artifact_id = b.artifact_id => a = b
  /\ \A a, b \in p.anchors : a.anchor_id = b.anchor_id => a = b
  /\ \A e \in p.entries :
       /\ \E s \in p.sessions : s.session_id = e.session_id
       /\ e.actor_id \in p.actors
  /\ \A a \in p.artifacts : \E e \in p.entries : e.entry_id = a.entry_id
  /\ \A a \in p.anchors :
       /\ \E e \in p.entries : e.entry_id = a.entry_id
       /\ \/ a.artifact_id = Absent
          \/ \E b \in p.artifacts : b.artifact_id = a.artifact_id

-----------------------------------------------------------------------------
(* What a set of receipts must satisfy for its projection to fit: no two   *)
(* workspaces share an external session, and no receipt names an artifact  *)
(* uri twice.                                                              *)
SessionKeysSeparate(S) ==
  \A r, s \in S :
    (/\ r.session_key # Absent
     /\ <<r.session_kind, r.connector, r.session_key>>
          = <<s.session_kind, s.connector, s.session_key>>)
      => r.workspace_root = s.workspace_root

UrisDistinct(S) ==
  \A r \in S : \A i, j \in Places(r) : r.uris[i] = r.uris[j] => i = j
=============================================================================
