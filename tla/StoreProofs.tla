----------------------------- MODULE StoreProofs -----------------------------
(***************************************************************************)
(* Theorems about Store, for every set of receipts, and lemmas about the   *)
(* planners that the proofs about Rebuild and Reads share.                 *)
(***************************************************************************)
EXTENDS Store, LeastElement

(* Marking a projection or a derivation complete leaves every receipt in   *)
(* one of the states the tables may be in.                                 *)
LEMMA MarkTypes ==
  ASSUME marks \in [Ledger -> {Pending, Projected, Indexed}]
  PROVE  /\ MarkProjectionComplete(marks) \in [Ledger -> {Projected}]
         /\ MarkDerivationComplete(marks) \in [Ledger -> {Pending, Indexed}]
         /\ MarkDerivationComplete(MarkProjectionComplete(marks))
              \in [Ledger -> {Indexed}]
<1>1. MarkProjectionComplete(marks) \in [Ledger -> {Projected}]
  BY DEF MarkProjectionComplete, Ledger
<1>2. /\ Pending.projection_state # "projected"
      /\ Projected.projection_state = "projected"
      /\ Indexed.projection_state = "projected"
  BY DEF Pending, Projected, Indexed, Marks
<1>3. MarkDerivationComplete(marks) \in [Ledger -> {Pending, Indexed}]
  BY <1>2 DEF MarkDerivationComplete, Ledger
<1>4. MarkDerivationComplete(MarkProjectionComplete(marks)) \in [Ledger -> {Indexed}]
  BY <1>1, <1>2 DEF MarkDerivationComplete
<1>5. QED BY <1>1, <1>3, <1>4

-----------------------------------------------------------------------------
(* The order of the receipts is total, so that an entry has a number of    *)
(* its own in its session.                                                 *)
LEMMA EarlierIsTotal ==
  ASSUME NEW r \in Receipts, NEW s \in Receipts, NEW t \in Receipts
  PROVE  /\ r = s \/ Earlier(r, s) \/ Earlier(s, r)
         /\ ~Earlier(r, r)
         /\ Earlier(r, s) /\ Earlier(s, t) => Earlier(r, t)
BY ReceiptsAreOrdered DEF Earlier

LEMMA SeqNosDiffer ==
  ASSUME NEW S \in SUBSET Receipts, IsFiniteSet(S),
         NEW r \in S, NEW s \in S, SessionId(r) = SessionId(s)
  PROVE  /\ SeqNo(S, r) \in Nat
         /\ SeqNo(S, r) = SeqNo(S, s) => r = s
<1>1. ASSUME NEW q \in S PROVE IsFiniteSet(UpTo(S, q)) /\ SeqNo(S, q) \in Nat
  <2>1. UpTo(S, q) \in SUBSET S
    BY DEF UpTo, InSession
  <2>2. IsFiniteSet(UpTo(S, q))
    BY <2>1, FS_Subset
  <2>3. QED BY <2>2, FS_CardinalityType DEF SeqNo
<1>2. ASSUME NEW p \in S, NEW q \in S, SessionId(p) = SessionId(q), Earlier(p, q)
      PROVE  SeqNo(S, p) # SeqNo(S, q)
  <2>1. UpTo(S, p) \in SUBSET UpTo(S, q)
    BY <1>2, EarlierIsTotal DEF UpTo, InSession
  <2>2. q \in UpTo(S, q) /\ q \notin UpTo(S, p)
    BY <1>2, EarlierIsTotal DEF UpTo, InSession
  <2>3. Cardinality(UpTo(S, p)) # Cardinality(UpTo(S, q))
    BY <1>1, <2>1, <2>2, FS_Subset
  <2>4. QED BY <2>3 DEF SeqNo
<1>3. QED BY <1>1, <1>2, EarlierIsTotal

(* The first receipt of a session is one of its receipts, and comes before  *)
(* all others.                                                              *)
LEMMA EarliestIsFirst ==
  ASSUME NEW T \in SUBSET Receipts, T # {}
  PROVE  Earliest(T) \in T /\ \A s \in T : s = Earliest(T) \/ Earlier(Earliest(T), s)
<1> DEFINE time == [r \in T |-> r.observed_at]
           id == [r \in T |-> r.receipt_id]
<1>1. \A r \in T : r.observed_at \in Nat /\ r.receipt_id \in Nat
  BY ReceiptsAreOrdered
<1>2. PICK t \in T : \A s \in T : time[t] <= time[s]
  <2>1. \A r \in T : time[r] \in Nat
    BY <1>1
  <2> HIDE DEF time
  <2>2. QED BY <2>1, LeastNumbered
<1> DEFINE U == {r \in T : r.observed_at = t.observed_at}
<1>3. PICK r \in U : \A s \in U : id[r] <= id[s]
  <2>1. U # {} /\ \A s \in U : id[s] \in Nat
    BY <1>1
  <2> HIDE DEF id, U
  <2>2. QED BY <2>1, LeastNumbered
<1>4. \A s \in T : s = r \/ Earlier(r, s)
  <2> SUFFICES ASSUME NEW s \in T, s # r PROVE Earlier(r, s)
    OBVIOUS
  <2>1. s.receipt_id # r.receipt_id
    BY ReceiptsAreOrdered
  <2>2. CASE s.observed_at = t.observed_at
    BY <1>1, <1>3, <2>1, <2>2 DEF Earlier
  <2>3. CASE s.observed_at # t.observed_at
    BY <1>1, <1>2, <1>3, <2>3 DEF Earlier
  <2>4. QED BY <2>2, <2>3
<1>5. QED BY <1>4 DEF Earliest

LEMMA EarliestIsOne ==
  ASSUME NEW T \in SUBSET Receipts, T # {}
  PROVE  Earliest(T) \in T
BY EarliestIsFirst

-----------------------------------------------------------------------------
(* The loop of plan_projection.  What it has gathered when the receipts of  *)
(* T have been visited, in the terms of PlanProjection.                     *)
SessionIds(T) == {SessionId(r) : r \in T}

Gathered(T) ==
  [session_map    |-> [sid \in SessionIds(T) |-> SessionRow(sid, InSession(T, sid))],
   seq_by_session |-> [sid \in SessionIds(T) |-> Cardinality(InSession(T, sid))],
   entries        |-> {EntryRow(T, r) : r \in T}]

(* An element before, or after, all others is the earliest, or latest.     *)
LEMMA ExtremesAreThose ==
  ASSUME NEW T \in SUBSET Receipts, NEW r \in T
  PROVE  /\ (\A s \in T : s = r \/ Earlier(r, s)) => Earliest(T) = r
         /\ (\A s \in T : s = r \/ Earlier(s, r)) => Latest(T) = r
<1>1. ASSUME \A s \in T : s = r \/ Earlier(r, s) PROVE Earliest(T) = r
  <2>1. \A x \in T : (\A s \in T : s = x \/ Earlier(x, s)) => x = r
    BY <1>1, EarlierIsTotal
  <2>2. QED BY <1>1, <2>1 DEF Earliest
<1>2. ASSUME \A s \in T : s = r \/ Earlier(s, r) PROVE Latest(T) = r
  <2>1. \A x \in T : (\A s \in T : s = x \/ Earlier(s, x)) => x = r
    BY <1>2, EarlierIsTotal
  <2>2. QED BY <1>2, <2>1 DEF Latest
<1>3. QED BY <1>1, <1>2

(* The earliest of a set that receives a later receipt stays the earliest.  *)
LEMMA EarliestStays ==
  ASSUME NEW T \in SUBSET Receipts, T # {}, NEW r \in Receipts,
         \A s \in T : Earlier(s, r)
  PROVE  /\ Earliest(T) \in T
         /\ Earliest(T \cup {r}) = Earliest(T)
<1> DEFINE e == Earliest(T)
<1>1. e \in T /\ \A s \in T : s = e \/ Earlier(e, s)
  BY EarliestIsFirst
<1>2. \A s \in T \cup {r} : s = e \/ Earlier(e, s)
  BY <1>1
<1>3. T \cup {r} \in SUBSET Receipts /\ e \in T \cup {r}
  BY <1>1
<1>4. QED BY <1>1, <1>2, <1>3, ExtremesAreThose

(* The last receipt of a session is one of its receipts, and comes after    *)
(* all others.                                                              *)
LEMMA LatestIsLast ==
  ASSUME NEW T \in SUBSET Receipts, IsFiniteSet(T), T # {}
  PROVE  Latest(T) \in T /\ \A s \in T : s = Latest(T) \/ Earlier(s, Latest(T))
<1> DEFINE After(r) == {s \in T : Earlier(r, s)}
           rest == [r \in T |-> Cardinality(After(r))]
<1>1. \A r \in T : IsFiniteSet(After(r)) /\ Cardinality(After(r)) \in Nat
  <2>1. \A r \in T : After(r) \in SUBSET T
    OBVIOUS
  <2> HIDE DEF After
  <2>2. QED BY <2>1, FS_Subset, FS_CardinalityType
<1>2. PICK r \in T : \A s \in T : rest[r] <= rest[s]
  <2>1. \A s \in T : rest[s] \in Nat
    BY <1>1
  <2> HIDE DEF rest
  <2>2. QED BY <2>1, LeastNumbered
<1>3. ASSUME NEW s \in T, s # r, ~Earlier(s, r) PROVE FALSE
  <2>1. Earlier(r, s)
    BY <1>3, EarlierIsTotal
  <2>2. After(s) \in SUBSET After(r) /\ s \in After(r) /\ s \notin After(s)
    BY <2>1, EarlierIsTotal
  <2>3. Cardinality(After(s)) < Cardinality(After(r))
    <3> HIDE DEF After
    <3> QED BY <1>1, <2>2, FS_Subset
  <2>4. Cardinality(After(r)) <= Cardinality(After(s))
    BY <1>2
  <2>5. Cardinality(After(r)) \in Nat /\ Cardinality(After(s)) \in Nat
    BY <1>1
  <2>6. QED
    <3> HIDE DEF After
    <3> QED BY <2>3, <2>4, <2>5
<1>4. \A s \in T : s = r \/ Earlier(s, r)
  BY <1>3
<1>5. QED BY <1>4, ExtremesAreThose

(* What a receipt changes of a session's row: three of its eight fields.   *)
LEMMA ExtendedRow ==
  ASSUME NEW id, NEW ext, NEW kind, NEW key, NEW root, NEW title,
         NEW opened, NEW closed, NEW r
  PROVE  Extended([session_id |-> id, external |-> ext, session_kind |-> kind,
                   session_key |-> key, workspace_root |-> root, title |-> title,
                   opened_at |-> opened, closed_at |-> closed], r)
           = [session_id |-> id, external |-> ext, session_kind |-> kind,
              session_key |-> key, workspace_root |-> root,
              title |-> IF title = Absent THEN r.page_title ELSE title,
              opened_at |-> IF r.observed_at < opened THEN r.observed_at ELSE opened,
              closed_at |-> IF r.observed_at > closed THEN r.observed_at ELSE closed]
<1> DEFINE Row(t, o, c) ==
             [session_id |-> id, external |-> ext, session_kind |-> kind,
              session_key |-> key, workspace_root |-> root, title |-> t,
              opened_at |-> o, closed_at |-> c]
           t1 == IF title = Absent THEN r.page_title ELSE title
           o1 == IF r.observed_at < opened THEN r.observed_at ELSE opened
           c1 == IF r.observed_at > closed THEN r.observed_at ELSE closed
<1>1. \A t, o, c, x : /\ [Row(t, o, c) EXCEPT !.title = x] = Row(x, o, c)
                      /\ [Row(t, o, c) EXCEPT !.opened_at = x] = Row(t, x, c)
                      /\ [Row(t, o, c) EXCEPT !.closed_at = x] = Row(t, o, x)
  OBVIOUS
<1>2. \A t, o, c : Row(t, o, c).title = t /\ Row(t, o, c).opened_at = o
                     /\ Row(t, o, c).closed_at = c
  OBVIOUS
<1>3. Extended(Row(title, opened, closed), r) =
        [[[Row(title, opened, closed) EXCEPT !.title = t1]
            EXCEPT !.opened_at = o1] EXCEPT !.closed_at = c1]
  BY <1>1, <1>2 DEF Extended
<1>4. @ = Row(t1, o1, c1)
  <2> HIDE DEF t1, o1, c1
  <2>1. [Row(title, opened, closed) EXCEPT !.title = t1] = Row(t1, opened, closed)
    BY <1>1
  <2>2. [Row(t1, opened, closed) EXCEPT !.opened_at = o1] = Row(t1, o1, closed)
    BY <1>1
  <2>3. [Row(t1, o1, closed) EXCEPT !.closed_at = c1] = Row(t1, o1, c1)
    BY <1>1
  <2> HIDE DEF Row
  <2>4. QED BY <2>1, <2>2, <2>3
<1>5. QED BY <1>3, <1>4

(* The row of a session met for the first time. *)
LEMMA SessionBegins ==
  ASSUME NEW r \in Receipts
  PROVE  SessionRow(SessionId(r), {r}) = Extended(Opened(r), r)
<1>1. Earliest({r}) = r /\ Latest({r}) = r
  BY ExtremesAreThose
<1>2. r.observed_at \in Nat
  BY ReceiptsAreOrdered
<1>3. SessionTitle({r}) = IF r.title = Absent THEN r.page_title ELSE r.title
  <2> DEFINE titled == {s \in {r} : s.page_title # Absent}
  <2>1. titled = IF r.page_title = Absent THEN {} ELSE {r}
    OBVIOUS
  <2>2. QED BY <1>1, <2>1 DEF SessionTitle
<1>4. /\ SessionId(r)[1] = r.session_kind
      /\ SessionId(r)[2] = r.connector
      /\ SessionId(r)[3] = r.session_key
  BY DEF SessionId
<1>5. SessionRow(SessionId(r), {r}) =
        [session_id     |-> SessionId(r),
         external       |-> <<r.session_kind, r.connector, r.session_key>>,
         session_kind   |-> r.session_kind,
         session_key    |-> r.session_key,
         workspace_root |-> r.workspace_root,
         title          |-> IF r.title = Absent THEN r.page_title ELSE r.title,
         opened_at      |-> r.observed_at,
         closed_at      |-> r.observed_at]
  BY <1>1, <1>3, <1>4 DEF SessionRow
<1>6. Extended(Opened(r), r) =
        [session_id     |-> SessionId(r),
         external       |-> <<r.session_kind, r.connector, r.session_key>>,
         session_kind   |-> r.session_kind,
         session_key    |-> r.session_key,
         workspace_root |-> r.workspace_root,
         title          |-> IF r.title = Absent THEN r.page_title ELSE r.title,
         opened_at      |-> r.observed_at,
         closed_at      |-> r.observed_at]
  BY <1>2, ExtendedRow DEF Opened
<1>7. QED BY <1>5, <1>6

(* The row of a session that a later receipt extends. *)
LEMMA SessionGoesOn ==
  ASSUME NEW T \in SUBSET Receipts, IsFiniteSet(T), T # {},
         NEW r \in Receipts, NEW sid,
         \A s \in T : Earlier(s, r)
  PROVE  SessionRow(sid, T \cup {r}) = Extended(SessionRow(sid, T), r)
<1> DEFINE U == T \cup {r}
           e == Earliest(T)
<1>1. e \in T /\ Earliest(U) = e
  BY EarliestStays
<1>2. Latest(U) = r
  BY ExtremesAreThose
<1>3. Latest(T) \in T
  BY LatestIsLast
<1>4. /\ r.observed_at \in Nat /\ e.observed_at \in Nat /\ Latest(T).observed_at \in Nat
      /\ e.observed_at <= r.observed_at
      /\ Latest(T).observed_at <= r.observed_at
  BY <1>1, <1>3, ReceiptsAreOrdered DEF Earlier
<1>5. SessionTitle(U) =
        IF SessionTitle(T) = Absent THEN r.page_title ELSE SessionTitle(T)
  <2> DEFINE titled(X) == {s \in X : s.page_title # Absent}
  <2>1. CASE e.title # Absent
    BY <1>1, <2>1 DEF SessionTitle
  <2>2. CASE e.title = Absent /\ titled(T) # {}
    <3>1. titled(T) \in SUBSET Receipts /\ \A s \in titled(T) : Earlier(s, r)
      OBVIOUS
    <3>2. /\ Earliest(titled(T)) \in titled(T)
          /\ Earliest(titled(T) \cup {r}) = Earliest(titled(T))
      <4> HIDE DEF titled
      <4> QED BY <2>2, <3>1, EarliestStays
    <3>3. titled(U) = titled(T) \/ titled(U) = titled(T) \cup {r}
      OBVIOUS
    <3>4. Earliest(titled(U)) = Earliest(titled(T)) /\ titled(U) # {}
      BY <2>2, <3>2, <3>3
    <3>5. Earliest(titled(T)).page_title # Absent
      BY <3>2
    <3>6. SessionTitle(T) = Earliest(titled(T)).page_title
      BY <2>2 DEF SessionTitle
    <3>7. SessionTitle(U) = Earliest(titled(U)).page_title
      BY <1>1, <2>2, <3>4 DEF SessionTitle
    <3>8. QED BY <3>4, <3>5, <3>6, <3>7
  <2>3. CASE e.title = Absent /\ titled(T) = {}
    <3>1. SessionTitle(T) = Absent
      BY <2>3 DEF SessionTitle
    <3>2. CASE r.page_title = Absent
      <4>1. titled(U) = {}
        BY <2>3, <3>2
      <4>2. QED BY <1>1, <2>3, <3>1, <3>2, <4>1 DEF SessionTitle
    <3>3. CASE r.page_title # Absent
      <4>1. titled(U) = {r}
        BY <2>3, <3>3
      <4>2. Earliest({r}) = r
        BY ExtremesAreThose
      <4>3. QED BY <1>1, <2>3, <3>1, <3>3, <4>1, <4>2 DEF SessionTitle
    <3>4. QED BY <3>2, <3>3
  <2>4. QED BY <2>1, <2>2, <2>3
<1>6. SessionRow(sid, U) =
        [session_id     |-> sid,
         external       |-> <<sid[1], sid[2], sid[3]>>,
         session_kind   |-> sid[1],
         session_key    |-> sid[3],
         workspace_root |-> e.workspace_root,
         title          |-> IF SessionTitle(T) = Absent THEN r.page_title
                            ELSE SessionTitle(T),
         opened_at      |-> e.observed_at,
         closed_at      |-> r.observed_at]
  BY <1>1, <1>2, <1>5 DEF SessionRow
<1>7. Extended(SessionRow(sid, T), r) =
        [session_id     |-> sid,
         external       |-> <<sid[1], sid[2], sid[3]>>,
         session_kind   |-> sid[1],
         session_key    |-> sid[3],
         workspace_root |-> e.workspace_root,
         title          |-> IF SessionTitle(T) = Absent THEN r.page_title
                            ELSE SessionTitle(T),
         opened_at      |-> e.observed_at,
         closed_at      |-> r.observed_at]
  <2>1. /\ ~(r.observed_at < e.observed_at)
        /\ (IF r.observed_at > Latest(T).observed_at
              THEN r.observed_at ELSE Latest(T).observed_at) = r.observed_at
    BY <1>4
  <2>2. QED BY <2>1, ExtendedRow DEF SessionRow
<1>8. QED BY <1>6, <1>7

(* One turn of the loop takes what was gathered of T to what is gathered    *)
(* of T and a later receipt.                                                *)
LEMMA GatheredStep ==
  ASSUME NEW T \in SUBSET Receipts, IsFiniteSet(T), NEW r \in Receipts,
         \A s \in T : Earlier(s, r)
  PROVE  Gathered(T \cup {r}) = ProjectReceipt(Gathered(T), r)
<1> DEFINE U == T \cup {r}
           sid == SessionId(r)
           acc == Gathered(T)
           met == SessionIds(T)
           session == Extended(IF sid \in met THEN acc.session_map[sid] ELSE Opened(r), r)
           seq_no == IF sid \in met THEN acc.seq_by_session[sid] + 1 ELSE 1
           ids == met \cup {sid}
           sessions == [x \in ids |-> IF x = sid THEN session ELSE acc.session_map[x]]
           numbers == [x \in ids |-> IF x = sid THEN seq_no ELSE acc.seq_by_session[x]]
           entry == [entry_id   |-> <<sid, seq_no, r.receipt_id>>,
                     session_id |-> sid,
                     seq_no     |-> seq_no,
                     actor_id   |-> ActorId(r),
                     entry_kind |-> r.event_kind,
                     text_body  |-> r.text]
<1>1. /\ acc.session_map = [x \in met |-> SessionRow(x, InSession(T, x))]
      /\ acc.seq_by_session = [x \in met |-> Cardinality(InSession(T, x))]
      /\ acc.entries = {EntryRow(T, s) : s \in T}
  BY DEF Gathered
<1>2. ProjectReceipt(acc, r) =
        [session_map |-> sessions, seq_by_session |-> numbers,
         entries |-> acc.entries \cup {entry}]
  BY <1>1 DEF ProjectReceipt
<1>3. SessionIds(U) = ids
  BY DEF SessionIds
<1>4. /\ InSession(U, sid) = InSession(T, sid) \cup {r}
      /\ \A x : x # sid => InSession(U, x) = InSession(T, x)
      /\ \A x : InSession(T, x) \in SUBSET T
      /\ sid \in met <=> InSession(T, sid) # {}
      /\ r \notin T
  BY EarlierIsTotal DEF InSession, SessionIds
<1>5. /\ IsFiniteSet(InSession(T, sid))
      /\ Cardinality(InSession(T, sid)) \in Nat
      /\ Cardinality(InSession(U, sid)) = Cardinality(InSession(T, sid)) + 1
  <2>1. IsFiniteSet(InSession(T, sid))
    BY <1>4, FS_Subset
  <2>2. r \notin InSession(T, sid)
    BY <1>4
  <2>3. QED BY <1>4, <2>1, <2>2, FS_AddElement, FS_CardinalityType
<1>6. seq_no = Cardinality(InSession(U, sid))
  <2>1. CASE sid \in met
    BY <1>1, <1>5, <2>1
  <2>2. CASE sid \notin met
    BY <1>4, <1>5, <2>2, FS_EmptySet
  <2>3. QED BY <2>1, <2>2
<1>7. session = SessionRow(sid, InSession(U, sid))
  <2>1. CASE sid \in met
    <3>1. InSession(T, sid) # {} /\ InSession(T, sid) \in SUBSET Receipts
          /\ \A s \in InSession(T, sid) : Earlier(s, r)
      BY <1>4, <2>1
    <3>2. SessionRow(sid, InSession(T, sid) \cup {r})
            = Extended(SessionRow(sid, InSession(T, sid)), r)
      BY <1>5, <3>1, SessionGoesOn
    <3>3. QED BY <1>1, <1>4, <2>1, <3>2
  <2>2. CASE sid \notin met
    <3>1. InSession(U, sid) = {r}
      BY <1>4, <2>2
    <3>2. QED BY <2>2, <3>1, SessionBegins
  <2>3. QED BY <2>1, <2>2
<1>8. sessions = [x \in SessionIds(U) |-> SessionRow(x, InSession(U, x))]
  <2>1. ASSUME NEW x \in ids
        PROVE  (IF x = sid THEN session ELSE acc.session_map[x])
                 = SessionRow(x, InSession(U, x))
    <3>1. CASE x = sid
      BY <1>7, <3>1
    <3>2. CASE x # sid
      <4>1. x \in met
        BY <3>2
      <4>2. QED BY <1>1, <1>4, <3>2, <4>1
    <3>3. QED BY <3>1, <3>2
  <2> HIDE DEF session, ids, acc
  <2>2. QED BY <1>3, <2>1
<1>9. numbers = [x \in SessionIds(U) |-> Cardinality(InSession(U, x))]
  <2>1. ASSUME NEW x \in ids
        PROVE  (IF x = sid THEN seq_no ELSE acc.seq_by_session[x])
                 = Cardinality(InSession(U, x))
    <3>1. CASE x = sid
      BY <1>6, <3>1
    <3>2. CASE x # sid
      <4>1. x \in met
        BY <3>2
      <4>2. QED BY <1>1, <1>4, <3>2, <4>1
    <3>3. QED BY <3>1, <3>2
  <2> HIDE DEF seq_no, ids, acc
  <2>2. QED BY <1>3, <2>1
<1>10. {EntryRow(U, s) : s \in U} = acc.entries \cup {entry}
  <2>1. ASSUME NEW s \in T PROVE EntryRow(U, s) = EntryRow(T, s)
    <3>1. UpTo(U, s) = UpTo(T, s)
      <4>1. ~Earlier(r, s) /\ s # r
        BY <1>4, EarlierIsTotal
      <4>2. QED BY <4>1 DEF UpTo, InSession
    <3>2. QED BY <3>1 DEF EntryRow, EntryId, SeqNo
  <2>2. EntryRow(U, r) = entry
    <3>1. UpTo(U, r) = InSession(U, sid)
      BY <1>4 DEF UpTo
    <3> HIDE DEF seq_no
    <3>2. QED BY <1>6, <3>1 DEF EntryRow, EntryId, SeqNo
  <2> HIDE DEF entry, acc
  <2>3. QED BY <1>1, <2>1, <2>2
<1>11. Gathered(U) =
         [session_map |-> sessions, seq_by_session |-> numbers,
          entries |-> acc.entries \cup {entry}]
  <2> HIDE DEF sessions, numbers, entry, acc, U
  <2> QED BY <1>8, <1>9, <1>10 DEF Gathered
<1>12. QED BY <1>2, <1>11

(* A finite set of receipts can be put in order: a least one that cannot    *)
(* be has a latest receipt, and the others can.                             *)
LEMMA OrderExists ==
  ASSUME NEW S \in SUBSET Receipts, IsFiniteSet(S)
  PROVE  Orders(S) # {}
<1> DEFINE Bad == {T \in SUBSET S : Orders(T) = {}}
           size == [T \in Bad |-> Cardinality(T)]
<1>1. ASSUME NEW T \in SUBSET S
      PROVE  IsFiniteSet(T) /\ Cardinality(T) \in Nat
  BY FS_Subset, FS_CardinalityType
<1>2. ASSUME Bad # {} PROVE FALSE
  <2>1. PICK T \in Bad : \A U \in Bad : size[T] <= size[U]
    <3>1. \A U \in Bad : size[U] \in Nat
      BY <1>1
    <3> HIDE DEF Bad, size
    <3>2. QED BY <1>2, <3>1, LeastNumbered
  <2>2. T \in SUBSET Receipts /\ IsFiniteSet(T) /\ Orders(T) = {}
    BY <1>1
  <2>3. T # {}
    <3>1. ASSUME T = {} PROVE FALSE
      <4>1. Cardinality(T) = 0
        BY <3>1, FS_EmptySet
      <4>2. <<>> \in [1 .. 0 -> {}]
        OBVIOUS
      <4>3. <<>> \in Orders(T)
        BY <3>1, <4>1, <4>2 DEF Orders
      <4>4. QED BY <2>2, <4>3
    <3>2. QED BY <3>1
  <2> DEFINE r == Latest(T)
             U == T \ {r}
             n == Cardinality(U)
  <2>4. r \in T /\ \A s \in U : Earlier(s, r)
    BY <2>2, <2>3, LatestIsLast
  <2>5. IsFiniteSet(U) /\ n \in Nat /\ Cardinality(T) = n + 1
    <3>1. IsFiniteSet(U) /\ n \in Nat
      BY <1>1
    <3>2. T = U \cup {r} /\ r \notin U
      BY <2>4
    <3> HIDE DEF U, r
    <3>3. QED BY <3>1, <3>2, FS_AddElement
  <2>6. PICK q \in Orders(U) : TRUE
    <3>1. U \in Bad => Cardinality(T) <= n
      BY <2>1
    <3>2. U \notin Bad
      <4> HIDE DEF U, r
      <4> QED BY <2>5, <3>1
    <3>3. QED BY <3>2
  <2> DEFINE p == [i \in 1 .. n + 1 |-> IF i = n + 1 THEN r ELSE q[i]]
  <2>7. /\ q \in [1 .. n -> U]
        /\ \A s \in U : \E i \in 1 .. n : q[i] = s
        /\ \A i, j \in 1 .. n : i < j => Earlier(q[i], q[j])
    BY DEF Orders
  <2>8. \A i \in 1 .. n + 1 : i = n + 1 \/ i \in 1 .. n
    BY <2>5
  <2>9. p \in [1 .. n + 1 -> T]
    BY <2>4, <2>7, <2>8
  <2>10. \A s \in T : \E i \in 1 .. n + 1 : p[i] = s
    <3>1. n + 1 \in 1 .. n + 1 /\ \A i \in 1 .. n : i \in 1 .. n + 1 /\ i # n + 1
      <4> HIDE DEF n
      <4> QED BY <2>5
    <3>2. p[n + 1] = r /\ \A i \in 1 .. n : p[i] = q[i]
      BY <3>1
    <3> HIDE DEF p
    <3>3. QED BY <2>7, <3>1, <3>2
  <2>11. ASSUME NEW i \in 1 .. n + 1, NEW j \in 1 .. n + 1, i < j
         PROVE  Earlier(p[i], p[j])
    <3>1. i \in 1 .. n /\ i # n + 1
      BY <2>5, <2>11
    <3>2. p[i] = q[i] /\ q[i] \in U
      BY <2>7, <3>1
    <3>3. CASE j = n + 1
      BY <2>4, <3>2, <3>3
    <3>4. CASE j # n + 1
      BY <2>7, <2>8, <2>11, <3>1, <3>2, <3>4
    <3>5. QED BY <3>3, <3>4
  <2>12. p \in Orders(T)
    <3> HIDE DEF p, U, r
    <3> QED BY <2>5, <2>9, <2>10, <2>11 DEF Orders
  <2>13. QED BY <2>2, <2>12
<1>3. QED BY <1>2

(* However the ledger hands out its receipts, the loop over their order     *)
(* leaves the sessions and the entries that PlanProjection names.           *)
LEMMA ProjectionLoops ==
  ASSUME NEW S \in SUBSET Receipts, IsFiniteSet(S)
  PROVE  IsLoopOf(S)
<1> SUFFICES ASSUME NEW q \in Orders(S) PROVE
      LET acc == ProjectInOrder(S, q)
      IN  /\ PlanProjection(S).sessions =
               {acc.session_map[sid] : sid \in DOMAIN acc.session_map}
          /\ PlanProjection(S).entries = acc.entries
  BY OrderExists DEF IsLoopOf
<1> DEFINE n == Cardinality(S)
           Visited(i) == {q[j] : j \in 1 .. i}
           Loop(g) == [i \in 0 .. n |->
                         IF i = 0 THEN NothingProjected
                         ELSE ProjectReceipt(g[i - 1], q[i])]
           t == [i \in 0 .. n |-> Gathered(Visited(i))]
           after == CHOOSE g : g = Loop(g)
<1>1. n \in Nat
  BY FS_CardinalityType
<1>2. /\ q \in [1 .. n -> S]
      /\ \A r \in S : \E i \in 1 .. n : q[i] = r
      /\ \A i, j \in 1 .. n : i < j => Earlier(q[i], q[j])
  BY DEF Orders
<1>3. Visited(0) = {} /\ Visited(n) = S
  BY <1>1, <1>2
<1>4. Gathered({}) = NothingProjected
  <2>1. SessionIds({}) = {}
    BY DEF SessionIds
  <2>2. /\ [sid \in {} |-> SessionRow(sid, InSession({}, sid))] = <<>>
        /\ [sid \in {} |-> Cardinality(InSession({}, sid))] = <<>>
    OBVIOUS
  <2>3. QED BY <2>1, <2>2 DEF Gathered, NothingProjected
<1>5. ASSUME NEW i \in 1 .. n
      PROVE  Gathered(Visited(i)) = ProjectReceipt(Gathered(Visited(i - 1)), q[i])
  <2>1. Visited(i) = Visited(i - 1) \cup {q[i]}
    BY <1>1
  <2>2. Visited(i - 1) \in SUBSET S /\ q[i] \in S
    BY <1>1, <1>2
  <2>3. \A s \in Visited(i - 1) : Earlier(s, q[i])
    BY <1>1, <1>2
  <2>4. IsFiniteSet(Visited(i - 1))
    BY <2>2, FS_Subset
  <2> HIDE DEF Visited
  <2>5. QED BY <2>1, <2>2, <2>3, <2>4, GatheredStep
<1>6. t = Loop(t)
  <2>1. \A i \in 0 .. n : i = 0 \/ (i \in 1 .. n /\ i - 1 \in 0 .. n)
    BY <1>1
  <2>2. ASSUME NEW i \in 0 .. n PROVE t[i] = Loop(t)[i]
    BY <1>3, <1>4, <1>5, <2>1
  <2>3. QED BY <2>2
<1>7. after = Loop(after)
  BY <1>6
<1>8. after[n] = t[n]
  <2> DEFINE Differ == {i \in 0 .. n : after[i] # t[i]}
  <2>1. ASSUME Differ # {} PROVE FALSE
    <3>1. Differ \in SUBSET Nat
      BY <1>1
    <3>2. PICK i \in Differ : \A j \in Differ : i <= j
      <4> HIDE DEF Differ
      <4> QED BY <2>1, <3>1, LeastNat
    <3>3. i \in 0 .. n /\ after[i] # t[i]
      BY <3>2
    <3>4. after[i] = Loop(after)[i] /\ t[i] = Loop(t)[i]
      BY <1>6, <1>7
    <3>5. i # 0
      BY <3>3, <3>4
    <3>6. i - 1 \in 0 .. n /\ ~(i <= i - 1)
      BY <1>1, <3>3, <3>5
    <3>7. after[i - 1] = t[i - 1]
      BY <3>2, <3>6
    <3>8. QED BY <3>3, <3>4, <3>7
  <2>2. n \in 0 .. n
    BY <1>1
  <2>3. QED BY <2>1, <2>2
<1>9. ProjectInOrder(S, q) = Gathered(S)
  <2>1. ProjectInOrder(S, q) = after[n]
    BY DEF ProjectInOrder
  <2>2. t[n] = Gathered(Visited(n))
    BY <1>1
  <2>3. QED BY <1>3, <1>8, <2>1, <2>2
<1>10. /\ PlanProjection(S).sessions =
            {Gathered(S).session_map[sid] : sid \in DOMAIN Gathered(S).session_map}
       /\ PlanProjection(S).entries = Gathered(S).entries
  BY DEF PlanProjection, Gathered, SessionRows, SessionIds
<1>11. QED BY <1>9, <1>10

-----------------------------------------------------------------------------
(* The rows of a projection.  A row names the receipt it was made of in    *)
(* its id, and belongs to the workspace that the id is hashed over.        *)
OfReceipt(entry_id) ==
  \E r \in Receipts : entry_id[1] = SessionId(r) /\ entry_id[3] = r.receipt_id

SessionsAreSound(sessions) ==
  \A s \in sessions :
    \E r \in Receipts :
      /\ s.session_id = SessionId(r)
      /\ s.workspace_root = r.workspace_root
      /\ s.session_kind = r.session_kind
      /\ s.external[2] = r.connector

EntriesAreSound(entries) ==
  \A e \in entries : OfReceipt(e.entry_id) /\ e.session_id = e.entry_id[1]

ArtifactsAreSound(artifacts) ==
  \A a \in artifacts :
    /\ OfReceipt(a.entry_id)
    /\ a.artifact_id # Absent
    /\ a.artifact_id[1] = a.entry_id
    /\ a.session_id = a.entry_id[1]

AnchorsAreSound(anchors) ==
  \A a \in anchors :
    /\ OfReceipt(a.entry_id)
    /\ EntryOfAnchor(a.anchor_id) = a.entry_id
    /\ a.artifact_id # Absent => a.artifact_id[1] = a.entry_id

ViewIsSound(v) ==
  /\ SessionsAreSound(v.sessions)
  /\ EntriesAreSound(v.entries)
  /\ ArtifactsAreSound(v.artifacts)
  /\ AnchorsAreSound(v.anchors)
  /\ \A e \in v.entries : \E s \in v.sessions : s.session_id = e.session_id
  /\ \A a \in v.anchors : \E e \in v.entries : e.entry_id = a.entry_id

(* The rows of a derivation, whichever rows it was planned from.           *)
EpisodesAreSound(episodes) ==
  \A e \in episodes :
    /\ e.session_id \in {e.episode_id[1], Absent}
    /\ \E r \in Receipts : e.episode_id[1] = SessionId(r)

StatementsAreSound(statements) ==
  \A x \in statements : x.id[1] = x.table /\ x.id[2] = x.episode_id

EvidenceIsSound(evidence) ==
  \A v \in evidence : EntryOfAnchor(v.anchor_id)[1] = v.subject[2][1]

SearchDocsAreSound(d) ==
  /\ \A doc \in d.search_docs :
       /\ doc.workspace_root = CaseOfDoc(doc)[1][4]
       /\ \E e \in d.episodes : e.episode_id = CaseOfDoc(doc)
       /\ \/ doc.doc_kind = "episodes" /\ doc.title = doc.subject[2]
          \/ /\ doc.doc_kind \in {"insights", "procedures"}
             /\ \E x \in d.statements : x.table = doc.doc_kind /\ x.id = doc.subject
  /\ \A e \in d.episodes :
       \E doc \in d.search_docs :
         doc.doc_kind = "episodes" /\ doc.subject = e.episode_id

KnowledgeIsSound(d) ==
  /\ IsFiniteSet(d.episodes)
  /\ EpisodesAreSound(d.episodes)
  /\ StatementsAreSound(d.statements)
  /\ EvidenceIsSound(d.evidence)
  /\ SearchDocsAreSound(d)

(* The inductive invariant: the rows are sound, and once a receipt is      *)
(* marked indexed every episode belongs to a session of the view.          *)
IndexedIsBacked ==
  (\E r \in Ledger : marks[r].index_state = "indexed") =>
    \A e \in knowledge.episodes :
      \E s \in view.sessions : s.session_id = e.session_id

StoreInv ==
  /\ Ledger \in SUBSET Receipts /\ IsFiniteSet(Ledger)
  /\ marks \in [Ledger -> {Pending, Projected, Indexed}]
  /\ ViewIsSound(view)
  /\ KnowledgeIsSound(knowledge)
  /\ IndexedIsBacked

-----------------------------------------------------------------------------
(* Every projection is sound. *)
LEMMA ReceiptOfId ==
  ASSUME NEW S, NEW r \in Receipts
  PROVE  OfReceipt(EntryId(S, r)) /\ EntryId(S, r)[1] = SessionId(r)
BY DEF OfReceipt, EntryId

LEMMA ProjectedSession ==
  ASSUME NEW S \in SUBSET Receipts, NEW r \in S,
         NEW s, s = SessionRow(SessionId(r), InSession(S, SessionId(r)))
  PROVE  /\ s.session_id = SessionId(r)
         /\ s.workspace_root = r.workspace_root
         /\ s.session_kind = r.session_kind
         /\ s.external[2] = r.connector
<1> DEFINE T == InSession(S, SessionId(r))
<1>1. T \in SUBSET Receipts /\ r \in T
  BY DEF InSession
<1>2. Earliest(T) \in T
  BY <1>1, EarliestIsOne
<1>3. SessionId(Earliest(T)) = SessionId(r)
  BY <1>2 DEF InSession
<1>4. Earliest(T).workspace_root = r.workspace_root
  BY <1>3 DEF SessionId
<1>5. QED BY <1>4 DEF SessionRow, SessionId

LEMMA ProjectionIsSound ==
  ASSUME NEW S \in SUBSET Receipts
  PROVE  ViewIsSound(PlanProjection(S))
<1> DEFINE p == PlanProjection(S)
<1>1. /\ p.sessions = {SessionRow(sid, InSession(S, sid)) : sid \in {SessionId(r) : r \in S}}
      /\ p.entries = {EntryRow(S, r) : r \in S}
      /\ p.artifacts = UNION {{ArtifactRow(S, r, i) : i \in Places(r)} : r \in S}
      /\ p.anchors = UNION {Anchors(S, r) : r \in S}
  BY DEF PlanProjection, SessionRows
<1> HIDE DEF p
<1>2. SessionsAreSound(p.sessions)
  <2> SUFFICES ASSUME NEW r \in S
               PROVE  LET s == SessionRow(SessionId(r), InSession(S, SessionId(r)))
                      IN  /\ s.session_id = SessionId(r)
                          /\ s.workspace_root = r.workspace_root
                          /\ s.session_kind = r.session_kind
                          /\ s.external[2] = r.connector
    BY <1>1 DEF SessionsAreSound
  <2>1. QED BY ProjectedSession
<1>3. EntriesAreSound(p.entries)
  <2> SUFFICES ASSUME NEW r \in S
               PROVE  LET e == EntryRow(S, r)
                      IN  OfReceipt(e.entry_id) /\ e.session_id = e.entry_id[1]
    BY <1>1 DEF EntriesAreSound
  <2>1. QED BY ReceiptOfId DEF EntryRow
<1>4. ArtifactsAreSound(p.artifacts)
  <2> SUFFICES ASSUME NEW r \in S, NEW i \in Places(r),
                      NEW a, a = ArtifactRow(S, r, i)
               PROVE  /\ OfReceipt(a.entry_id)
                      /\ a.artifact_id # Absent
                      /\ a.artifact_id[1] = a.entry_id
                      /\ a.session_id = a.entry_id[1]
    BY <1>1 DEF ArtifactsAreSound
  <2>1. /\ a.artifact_id = ArtifactId(S, r, i) /\ a.entry_id = EntryId(S, r)
        /\ a.session_id = SessionId(r)
    BY DEF ArtifactRow
  <2>2. a.artifact_id[1] = a.entry_id
    BY <2>1 DEF ArtifactId
  <2>3. QED BY <2>1, <2>2, ReceiptOfId, AbsentIsNoId
<1>5. \A a \in p.anchors :
        \E r \in S : \/ a = TextAnchor(S, r)
                    \/ \E i \in Places(r) : a = ArtifactAnchor(S, r, i)
  BY <1>1 DEF Anchors
<1>6. ASSUME NEW r \in S, NEW a,
             \/ a = TextAnchor(S, r)
             \/ \E i \in Places(r) : a = ArtifactAnchor(S, r, i)
      PROVE  /\ a.entry_id = EntryId(S, r)
             /\ EntryOfAnchor(a.anchor_id) = a.entry_id
             /\ a.artifact_id # Absent => a.artifact_id[1] = a.entry_id
  <2> DEFINE Goal == /\ a.entry_id = EntryId(S, r)
                     /\ EntryOfAnchor(a.anchor_id) = a.entry_id
                     /\ a.artifact_id # Absent => a.artifact_id[1] = a.entry_id
  <2>1. CASE a = TextAnchor(S, r)
    BY <2>1 DEF TextAnchor, EntryOfAnchor
  <2>2. ASSUME NEW i \in Places(r), a = ArtifactAnchor(S, r, i)
        PROVE  Goal
    <3>1. /\ a.entry_id = EntryId(S, r) /\ a.artifact_id = ArtifactId(S, r, i)
          /\ a.anchor_id = <<"artifact", ArtifactId(S, r, i)>>
      BY <2>2 DEF ArtifactAnchor
    <3>2. ArtifactId(S, r, i)[1] = EntryId(S, r)
      BY DEF ArtifactId
    <3>3. EntryOfAnchor(a.anchor_id) = ArtifactId(S, r, i)[1]
      BY <3>1 DEF EntryOfAnchor
    <3>4. QED BY <3>1, <3>2, <3>3
  <2>3. QED BY <1>6, <2>1, <2>2
<1>7. AnchorsAreSound(p.anchors)
  BY <1>5, <1>6, ReceiptOfId DEF AnchorsAreSound
<1>8. ASSUME NEW e \in p.entries PROVE \E s \in p.sessions : s.session_id = e.session_id
  <2>1. PICK r \in S : e = EntryRow(S, r)
    BY <1>1
  <2>2. e.session_id = SessionId(r)
    BY <2>1 DEF EntryRow
  <2>3. SessionRow(SessionId(r), InSession(S, SessionId(r))) \in p.sessions
    BY <1>1
  <2>4. SessionRow(SessionId(r), InSession(S, SessionId(r))).session_id = SessionId(r)
    BY DEF SessionRow
  <2>5. QED BY <2>2, <2>3, <2>4
<1>9. ASSUME NEW a \in p.anchors PROVE \E e \in p.entries : e.entry_id = a.entry_id
  <2>1. PICK r \in S : \/ a = TextAnchor(S, r)
                       \/ \E i \in Places(r) : a = ArtifactAnchor(S, r, i)
    BY <1>5
  <2>2. a.entry_id = EntryId(S, r)
    BY <1>6, <2>1
  <2>3. EntryRow(S, r) \in p.entries /\ EntryRow(S, r).entry_id = EntryId(S, r)
    BY <1>1 DEF EntryRow
  <2>4. QED BY <2>2, <2>3
<1>10. QED BY <1>2, <1>3, <1>4, <1>7, <1>8, <1>9 DEF ViewIsSound, p

-----------------------------------------------------------------------------
(* Every derivation is sound, whichever moments its three inputs are of.   *)
CorpusIsSound(c) ==
  /\ IsFiniteSet(c.sessions) /\ SessionsAreSound(c.sessions)
  /\ \A e \in c.entries : e.seq_no \in Nat /\ e.session_id = e.entry_id[1]
  /\ \A id \in DOMAIN c.first : EntryOfAnchor(c.first[id].anchor_id) = id

(* The first anchor of an entry is an anchor of the entry, in either order. *)
LEMMA FirstByPlace ==
  ASSUME NEW S \in SUBSET Receipts, NEW x, NEW y,
         NEW id \in {a.entry_id : a \in PlanProjection(S).anchors}
  PROVE  Corpus(x, y, PlanProjection(S).anchors, ByPlace).first[id]
           \in AnchorsOf(PlanProjection(S).anchors, id)
<1> DEFINE A == PlanProjection(S).anchors
           T == AnchorsOf(A, id)
           place == [a \in A |-> a.place]
<1>1. \A a \in A : a.place \in Nat
  <2>1. A = UNION {Anchors(S, r) : r \in S}
    BY DEF PlanProjection
  <2>2. \A r \in S : Places(r) \subseteq Nat
    BY ReceiptsAreOrdered DEF Places
  <2>3. \A r \in S : \A a \in Anchors(S, r) : a.place \in Nat
    BY <2>2 DEF Anchors, TextAnchor, ArtifactAnchor
  <2>4. QED BY <2>1, <2>3
<1> HIDE DEF A
<1>2. T # {} /\ T \subseteq A
  BY DEF AnchorsOf, A
<1>3. PICK a \in T : \A b \in T : place[a] <= place[b]
  <2>1. \A a \in T : place[a] \in Nat
    BY <1>1, <1>2
  <2> HIDE DEF place, T
  <2>2. QED BY <1>2, <2>1, LeastNumbered
<1>4. ASSUME NEW b \in T PROVE ~(b.place < a.place)
  <2>1. a \in A /\ b \in A
    BY <1>2
  <2>2. a.place \in Nat /\ b.place \in Nat /\ a.place <= b.place
    BY <1>1, <1>3, <2>1
  <2>3. QED BY <2>2
<1>5. Corpus(x, y, A, ByPlace).first[id]
        = CHOOSE a_1 \in T : \A b \in T : ~(b.place < a_1.place)
  BY DEF Corpus, ByPlace, A
<1> HIDE DEF T
<1>6. QED BY <1>4, <1>5 DEF T, A

LEMMA FirstByHash ==
  ASSUME NEW S \in SUBSET Receipts, NEW x, NEW y,
         NEW id \in {a.entry_id : a \in PlanProjection(S).anchors}
  PROVE  Corpus(x, y, PlanProjection(S).anchors, ByHash).first[id]
           \in AnchorsOf(PlanProjection(S).anchors, id)
<1> DEFINE A == PlanProjection(S).anchors
           T == AnchorsOf(A, id)
           rank == [a \in A |-> HashRank(a.anchor_id)]
<1>1. \A a \in A : HashRank(a.anchor_id) \in Nat
  BY HashesAreOrdered
<1> HIDE DEF A
<1>2. T # {} /\ T \subseteq A
  BY DEF AnchorsOf, A
<1>3. PICK a \in T : \A b \in T : rank[a] <= rank[b]
  <2>1. \A a \in T : rank[a] \in Nat
    BY <1>1, <1>2
  <2> HIDE DEF rank, T
  <2>2. QED BY <1>2, <2>1, LeastNumbered
<1>4. ASSUME NEW b \in T PROVE ~(HashRank(b.anchor_id) < HashRank(a.anchor_id))
  <2> DEFINE m == HashRank(a.anchor_id)
             n == HashRank(b.anchor_id)
  <2>1. a \in A /\ b \in A
    BY <1>2
  <2>2. m \in Nat /\ n \in Nat /\ m <= n
    BY <1>1, <1>3, <2>1
  <2> HIDE DEF m, n
  <2>3. ~(n < m)
    BY <2>2
  <2>4. QED BY <2>3 DEF m, n
<1>5. Corpus(x, y, A, ByHash).first[id]
        = CHOOSE a_1 \in T : \A b \in T : ~(HashRank(b.anchor_id) < HashRank(a_1.anchor_id))
  BY DEF Corpus, ByHash, A
<1> HIDE DEF T
<1>6. QED BY <1>4, <1>5 DEF T, A

(* The entry with the least number is one of them. *)
LEMMA ForemostIsOne ==
  ASSUME NEW E, E # {}, \A e \in E : e.seq_no \in Nat
  PROVE  Foremost(E) \in E
<1> DEFINE number == [e \in E |-> e.seq_no]
<1>1. PICK e \in E : \A f \in E : number[e] <= number[f]
  <2>1. \A e \in E : number[e] \in Nat
    OBVIOUS
  <2> HIDE DEF number
  <2>2. QED BY <2>1, LeastNumbered
<1>2. \A f \in E : e.seq_no <= f.seq_no
  BY <1>1
<1>3. QED BY <1>2 DEF Foremost

LEMMA NumbersAreNat ==
  ASSUME NEW S \in SUBSET Receipts, IsFiniteSet(S)
  PROVE  \A e \in PlanProjection(S).entries : e.seq_no \in Nat
<1>1. PlanProjection(S).entries = {EntryRow(S, r) : r \in S}
  BY DEF PlanProjection
<1>2. \A r \in S : EntryRow(S, r).seq_no \in Nat
  BY SeqNosDiffer DEF EntryRow
<1>3. QED BY <1>1, <1>2

LEMMA FiniteSessions ==
  ASSUME NEW S \in SUBSET Receipts, IsFiniteSet(S)
  PROVE  IsFiniteSet(PlanProjection(S).sessions)
<1> DEFINE row == [r \in S |-> SessionRow(SessionId(r), InSession(S, SessionId(r)))]
<1>1. PlanProjection(S).sessions = {row[r] : r \in S}
  BY DEF PlanProjection, SessionRows
<1>2. row = [r \in S |-> row[r]]
  OBVIOUS
<1> HIDE DEF row
<1>3. QED BY <1>1, <1>2, FiniteImage

LEMMA CorpusOfStore ==
  ASSUME NEW T \in SUBSET Receipts, IsFiniteSet(T),
         NEW U \in SUBSET Receipts, IsFiniteSet(U), NEW V \in SUBSET Receipts
  PROVE  CorpusIsSound(Corpus(PlanProjection(T).sessions, PlanProjection(U).entries,
                              PlanProjection(V).anchors, ByHash))
<1> DEFINE A == PlanProjection(V).anchors
           c == Corpus(PlanProjection(T).sessions, PlanProjection(U).entries, A, ByHash)
<1>1. /\ c.sessions = PlanProjection(T).sessions
      /\ c.entries = PlanProjection(U).entries
      /\ DOMAIN c.first = {a.entry_id : a \in A}
  BY DEF Corpus
<1>2. \A id \in DOMAIN c.first : c.first[id] \in AnchorsOf(A, id)
  BY <1>1, FirstByHash
<1>3. AnchorsAreSound(A)
  BY ProjectionIsSound DEF ViewIsSound
<1> HIDE DEF A, c
<1>4. \A id \in DOMAIN c.first : EntryOfAnchor(c.first[id].anchor_id) = id
  BY <1>2, <1>3 DEF AnchorsOf, AnchorsAreSound
<1>5. \A e \in c.entries : e.seq_no \in Nat /\ e.session_id = e.entry_id[1]
  BY <1>1, NumbersAreNat, ProjectionIsSound DEF ViewIsSound, EntriesAreSound
<1>6. IsFiniteSet(c.sessions) /\ SessionsAreSound(c.sessions)
  BY <1>1, FiniteSessions, ProjectionIsSound DEF ViewIsSound
<1>7. QED BY <1>4, <1>5, <1>6 DEF CorpusIsSound, c, A

LEMMA CorpusOfReplay ==
  ASSUME NEW T \in SUBSET Receipts, IsFiniteSet(T)
  PROVE  CorpusIsSound(Corpus(PlanProjection(T).sessions, PlanProjection(T).entries,
                              PlanProjection(T).anchors, ByPlace))
<1> DEFINE A == PlanProjection(T).anchors
           c == Corpus(PlanProjection(T).sessions, PlanProjection(T).entries, A, ByPlace)
<1>1. /\ c.sessions = PlanProjection(T).sessions
      /\ c.entries = PlanProjection(T).entries
      /\ DOMAIN c.first = {a.entry_id : a \in A}
  BY DEF Corpus
<1>2. \A id \in DOMAIN c.first : c.first[id] \in AnchorsOf(A, id)
  BY <1>1, FirstByPlace
<1>3. AnchorsAreSound(A)
  BY ProjectionIsSound DEF ViewIsSound
<1> HIDE DEF A, c
<1>4. \A id \in DOMAIN c.first : EntryOfAnchor(c.first[id].anchor_id) = id
  BY <1>2, <1>3 DEF AnchorsOf, AnchorsAreSound
<1>5. \A e \in c.entries : e.seq_no \in Nat /\ e.session_id = e.entry_id[1]
  BY <1>1, NumbersAreNat, ProjectionIsSound DEF ViewIsSound, EntriesAreSound
<1>6. IsFiniteSet(c.sessions) /\ SessionsAreSound(c.sessions)
  BY <1>1, FiniteSessions, ProjectionIsSound DEF ViewIsSound
<1>7. QED BY <1>4, <1>5, <1>6 DEF CorpusIsSound, c, A

LEMMA PrimaryAnchorIsOfSession ==
  ASSUME NEW c, CorpusIsSound(c), NEW s \in Stated(c)
  PROVE  EntryOfAnchor(PrimaryAnchor(c, s))[1] = s.session_id
<1> DEFINE E == Anchored(c, s)
           e == Foremost(E)
<1>1. E # {} /\ \A f \in E : /\ f.seq_no \in Nat
                            /\ f.session_id = s.session_id
                            /\ f.session_id = f.entry_id[1]
                            /\ f.entry_id \in DOMAIN c.first
  BY DEF Stated, Anchored, EntriesOf, CorpusIsSound
<1>2. e \in E
  <2> HIDE DEF E
  <2>1. QED BY <1>1, ForemostIsOne
<1> HIDE DEF E, e
<1>3. e.entry_id \in DOMAIN c.first /\ e.entry_id[1] = s.session_id
  BY <1>1, <1>2
<1>4. EntryOfAnchor(c.first[e.entry_id].anchor_id) = e.entry_id
  BY <1>3 DEF CorpusIsSound
<1>5. PrimaryAnchor(c, s) = c.first[e.entry_id].anchor_id
  BY DEF PrimaryAnchor, e, E
<1>6. QED BY <1>3, <1>4, <1>5

(* The id of an episode is hashed over its session. *)
LEMMA EpisodeNamesSession ==
  ASSUME NEW c, CorpusIsSound(c), NEW s \in c.sessions, NEW E
  PROVE  /\ EpisodeId(s, E)[1] = s.session_id
         /\ \E r \in Receipts : EpisodeId(s, E)[1] = SessionId(r)
         /\ s.workspace_root = EpisodeId(s, E)[1][4]
<1>1. EpisodeId(s, E)[1] = s.session_id
  BY DEF EpisodeId
<1>2. PICK r \in Receipts : s.session_id = SessionId(r) /\ s.workspace_root = r.workspace_root
  BY DEF CorpusIsSound, SessionsAreSound
<1>3. SessionId(r)[4] = r.workspace_root
  BY DEF SessionId
<1>4. QED BY <1>1, <1>2, <1>3

LEMMA PlanIsSound ==
  ASSUME NEW c, CorpusIsSound(c)
  PROVE  KnowledgeIsSound(PlanDerivation(c))
<1> DEFINE d == PlanDerivation(c)
           id(s) == EpisodeId(s, EntriesOf(c, s))
           St(s) == Statements(s, EntriesOf(c, s))
           Open(s) == {x \in St(s) : x.table # "claims"}
<1>1. /\ d.episodes = {Episode(s, EntriesOf(c, s)) : s \in Derived(c)}
      /\ d.statements = UNION {St(s) : s \in Stated(c)}
      /\ d.evidence = UNION {{[subject |-> x.id, anchor_id |-> PrimaryAnchor(c, s)] :
                                x \in St(s)} : s \in Stated(c)}
      /\ d.search_docs =
           {SearchDoc("episodes", id(s), s) : s \in Derived(c)}
             \cup UNION {{SearchDoc(x.table, x.id, s) : x \in Open(s)} : s \in Stated(c)}
  BY DEF PlanDerivation, SearchDocs
<1>2. Derived(c) \subseteq c.sessions /\ Stated(c) \subseteq Derived(c)
  BY DEF Derived, Stated
<1>3. ASSUME NEW s, NEW x \in St(s)
      PROVE  /\ x.id[1] = x.table /\ x.id[2] = id(s) /\ x.episode_id = id(s)
             /\ x.table \in {"insights", "claims", "procedures"}
  BY DEF Statements, Statement
<1>4. \A s : /\ Episode(s, EntriesOf(c, s)).episode_id = id(s)
             /\ Episode(s, EntriesOf(c, s)).session_id = s.session_id
  BY DEF Episode
<1>5. \A s \in Derived(c) : /\ id(s)[1] = s.session_id
                            /\ \E r \in Receipts : id(s)[1] = SessionId(r)
                            /\ s.workspace_root = id(s)[1][4]
  BY <1>2, EpisodeNamesSession
<1> HIDE DEF d, id, St
<1>6. IsFiniteSet(d.episodes)
  <2> DEFINE f == [s \in Derived(c) |-> Episode(s, EntriesOf(c, s))]
  <2>1. IsFiniteSet(Derived(c))
    BY <1>2, FS_Subset DEF CorpusIsSound
  <2>2. f = [s \in Derived(c) |-> f[s]] /\ d.episodes = {f[s] : s \in Derived(c)}
    BY <1>1
  <2> HIDE DEF f
  <2>3. QED BY <2>1, <2>2, FiniteImage
<1>7. EpisodesAreSound(d.episodes)
  BY <1>1, <1>4, <1>5 DEF EpisodesAreSound
<1>8. StatementsAreSound(d.statements)
  BY <1>1, <1>3 DEF StatementsAreSound
<1>9. EvidenceIsSound(d.evidence)
  <2> SUFFICES ASSUME NEW s \in Stated(c), NEW x \in St(s)
               PROVE  EntryOfAnchor(PrimaryAnchor(c, s))[1] = x.id[2][1]
    BY <1>1 DEF EvidenceIsSound
  <2>1. QED BY <1>2, <1>3, <1>5, PrimaryAnchorIsOfSession
<1>10. ASSUME NEW s \in Derived(c) PROVE \E e \in d.episodes : e.episode_id = id(s)
  <2>1. Episode(s, EntriesOf(c, s)) \in d.episodes
    BY <1>1
  <2>2. QED BY <1>4, <2>1
<1>11. ASSUME NEW k, NEW u, NEW s
       PROVE  /\ SearchDoc(k, u, s).doc_kind = k
              /\ SearchDoc(k, u, s).subject = u
              /\ SearchDoc(k, u, s).workspace_root = s.workspace_root
              /\ k = "episodes" => SearchDoc(k, u, s).title = u[2]
  BY DEF SearchDoc, DocTitle
<1> DEFINE Good(doc) ==
             /\ doc.workspace_root = CaseOfDoc(doc)[1][4]
             /\ \E e \in d.episodes : e.episode_id = CaseOfDoc(doc)
             /\ \/ doc.doc_kind = "episodes" /\ doc.title = doc.subject[2]
                \/ /\ doc.doc_kind \in {"insights", "procedures"}
                   /\ \E x \in d.statements : x.table = doc.doc_kind /\ x.id = doc.subject
<1>12. ASSUME NEW s \in Derived(c) PROVE Good(SearchDoc("episodes", id(s), s))
  <2> DEFINE doc == SearchDoc("episodes", id(s), s)
  <2>1. /\ doc.doc_kind = "episodes" /\ doc.subject = id(s)
        /\ doc.workspace_root = s.workspace_root /\ doc.title = doc.subject[2]
    BY <1>11
  <2> HIDE DEF doc
  <2>2. CaseOfDoc(doc) = id(s)
    BY <2>1 DEF CaseOfDoc
  <2>3. Good(doc)
    BY <1>5, <1>10, <2>1, <2>2
  <2>4. QED BY <2>3 DEF doc
<1>13. ASSUME NEW s \in Stated(c), NEW x \in Open(s) PROVE Good(SearchDoc(x.table, x.id, s))
  <2> DEFINE doc == SearchDoc(x.table, x.id, s)
  <2>1. /\ doc.doc_kind = x.table /\ doc.subject = x.id
        /\ doc.workspace_root = s.workspace_root
    BY <1>11
  <2> HIDE DEF doc
  <2>2. x.table \in {"insights", "procedures"} /\ x.id[2] = id(s) /\ x \in d.statements
    BY <1>1, <1>3
  <2>3. CaseOfDoc(doc) = id(s)
    BY <2>1, <2>2 DEF CaseOfDoc
  <2>4. s \in Derived(c)
    BY <1>2
  <2>5. Good(doc)
    BY <1>5, <1>10, <2>1, <2>2, <2>3, <2>4
  <2>6. QED BY <2>5 DEF doc
<1>14. SearchDocsAreSound(d)
  <2>1. \A doc \in d.search_docs : Good(doc)
    <3> HIDE DEF Good
    <3>1. QED BY <1>1, <1>12, <1>13
  <2>2. ASSUME NEW e \in d.episodes
        PROVE  \E doc \in d.search_docs :
                 doc.doc_kind = "episodes" /\ doc.subject = e.episode_id
    <3>1. PICK s \in Derived(c) : e = Episode(s, EntriesOf(c, s))
      BY <1>1
    <3>2. SearchDoc("episodes", id(s), s) \in d.search_docs
      BY <1>1
    <3>3. QED BY <1>4, <1>11, <3>1, <3>2
  <2>3. QED BY <2>1, <2>2 DEF SearchDocsAreSound
<1>15. QED BY <1>6, <1>7, <1>8, <1>9, <1>14 DEF KnowledgeIsSound, d

(* What a projection leaves of the derived rows is sound if they were. *)
LEMMA DetachedIsSound ==
  ASSUME NEW d, KnowledgeIsSound(d)
  PROVE  KnowledgeIsSound(Detached(d))
<1> DEFINE Without(e) == [episode_id |-> e.episode_id, session_id |-> Absent,
                          episode_kind |-> e.episode_kind]
           k == Detached(d)
<1>1. /\ k.episodes = {Without(e) : e \in d.episodes}
      /\ k.statements = d.statements
      /\ k.evidence = {}
      /\ k.search_docs = d.search_docs
  BY DEF Detached
<1>2. \A e : Without(e).episode_id = e.episode_id /\ Without(e).session_id = Absent
  OBVIOUS
<1>3. IsFiniteSet(k.episodes)
  <2> DEFINE f == [e \in d.episodes |-> Without(e)]
  <2>1. IsFiniteSet(d.episodes)
    BY DEF KnowledgeIsSound
  <2>2. f = [e \in d.episodes |-> f[e]] /\ k.episodes = {f[e] : e \in d.episodes}
    BY <1>1
  <2> HIDE DEF f
  <2>3. QED BY <2>1, <2>2, FiniteImage
<1> HIDE DEF Without, k
<1>4. EpisodesAreSound(k.episodes)
  BY <1>1, <1>2 DEF KnowledgeIsSound, EpisodesAreSound
<1>5. StatementsAreSound(k.statements) /\ EvidenceIsSound(k.evidence)
  BY <1>1 DEF KnowledgeIsSound, EvidenceIsSound
<1>6. \A x : (\E e \in k.episodes : e.episode_id = x)
               <=> (\E e \in d.episodes : e.episode_id = x)
  BY <1>1, <1>2
<1>7. SearchDocsAreSound(k)
  <2>1. SearchDocsAreSound(d)
    BY DEF KnowledgeIsSound
  <2>2. ASSUME NEW e \in k.episodes
        PROVE  \E doc \in k.search_docs :
                 doc.doc_kind = "episodes" /\ doc.subject = e.episode_id
    <3>1. PICK f \in d.episodes : f.episode_id = e.episode_id
      BY <1>6
    <3>2. PICK doc \in d.search_docs :
            doc.doc_kind = "episodes" /\ doc.subject = f.episode_id
      BY <2>1 DEF SearchDocsAreSound
    <3>3. QED BY <1>1, <3>1, <3>2
  <2>3. ASSUME NEW doc \in k.search_docs
        PROVE  /\ doc.workspace_root = CaseOfDoc(doc)[1][4]
               /\ \E e \in k.episodes : e.episode_id = CaseOfDoc(doc)
               /\ \/ doc.doc_kind = "episodes" /\ doc.title = doc.subject[2]
                  \/ /\ doc.doc_kind \in {"insights", "procedures"}
                     /\ \E x \in k.statements : x.table = doc.doc_kind /\ x.id = doc.subject
    <3>1. doc \in d.search_docs
      BY <1>1
    <3>2. \E e \in d.episodes : e.episode_id = CaseOfDoc(doc)
      BY <2>1, <3>1 DEF SearchDocsAreSound
    <3>3. \E e \in k.episodes : e.episode_id = CaseOfDoc(doc)
      BY <1>6, <3>2
    <3>4. /\ doc.workspace_root = CaseOfDoc(doc)[1][4]
          /\ \/ doc.doc_kind = "episodes" /\ doc.title = doc.subject[2]
             \/ /\ doc.doc_kind \in {"insights", "procedures"}
                /\ \E x \in d.statements : x.table = doc.doc_kind /\ x.id = doc.subject
      BY <2>1, <3>1 DEF SearchDocsAreSound
    <3>5. QED BY <1>1, <3>3, <3>4
  <2>4. QED BY <2>2, <2>3 DEF SearchDocsAreSound
<1>8. QED BY <1>3, <1>4, <1>5, <1>7 DEF KnowledgeIsSound, k

-----------------------------------------------------------------------------
(* Whatever is committed, late, repeated, or planned of three moments, the *)
(* rows of the store stay sound: each names in its id the session, and so  *)
(* the workspace, of what it was made of.                                  *)
LEMMA StoreStepKeepsInv ==
  ASSUME StoreInv, [StoreNext]_store_vars
  PROVE  StoreInv'
<1> USE DEF Ledger
<1>1. CASE UNCHANGED store_vars
  BY <1>1 DEF store_vars, StoreInv, IndexedIsBacked
<1>2. ASSUME NEW r \in Receipts, InsertReceipt(r) PROVE StoreInv'
  <2>1. Ledger' = Ledger \cup {r} /\ UNCHANGED <<view, knowledge>>
    BY <1>2 DEF InsertReceipt
  <2>2. Ledger' \in SUBSET Receipts /\ IsFiniteSet(Ledger')
    BY <2>1, FS_AddElement DEF StoreInv
  <2>3. marks' \in [Ledger' -> {Pending, Projected, Indexed}]
    BY <1>2 DEF InsertReceipt, StoreInv
  <2>4. Pending.index_state # "indexed"
    BY DEF Pending, Marks
  <2>5. ASSUME NEW x \in Ledger', marks'[x].index_state = "indexed"
        PROVE  x \in Ledger /\ marks[x].index_state = "indexed"
    BY <1>2, <2>4, <2>5 DEF InsertReceipt
  <2>6. IndexedIsBacked'
    BY <2>1, <2>5 DEF StoreInv, IndexedIsBacked
  <2>7. QED BY <2>1, <2>2, <2>3, <2>6 DEF StoreInv
<1>3. ASSUME NEW T \in SUBSET Receipts, ReplaceProjection(PlanProjection(T))
      PROVE  StoreInv'
  <2>1. /\ view' = PlanProjection(T) /\ knowledge' = Detached(knowledge)
        /\ marks' = MarkProjectionComplete(marks)
    BY <1>3 DEF ReplaceProjection
  <2>2. ViewIsSound(view') /\ KnowledgeIsSound(knowledge')
    BY <2>1, ProjectionIsSound, DetachedIsSound DEF StoreInv
  <2>3. marks' \in [Ledger -> {Projected}]
    BY <2>1, MarkTypes DEF StoreInv
  <2>4. Projected.index_state # "indexed"
    BY DEF Projected, Marks
  <2>5. IndexedIsBacked'
    BY <2>3, <2>4 DEF IndexedIsBacked
  <2>6. Ledger' = Ledger
    BY <2>3
  <2>7. QED BY <2>2, <2>3, <2>5, <2>6 DEF StoreInv
<1>4. ASSUME NEW T \in SUBSET Receipts, T \subseteq Ledger,
             ReplaceBoth(PlanProjection(T), PlanDerivationOf(PlanProjection(T)))
      PROVE  StoreInv'
  <2>1. /\ view' = PlanProjection(T)
        /\ knowledge' = PlanDerivationOf(PlanProjection(T))
        /\ DerivationFits(knowledge', view')
        /\ marks' = MarkDerivationComplete(MarkProjectionComplete(marks))
    BY <1>4 DEF ReplaceBoth
  <2>2. IsFiniteSet(T)
    BY <1>4, FS_Subset DEF StoreInv
  <2>3. ViewIsSound(view') /\ KnowledgeIsSound(knowledge')
    BY <2>1, <2>2, ProjectionIsSound, CorpusOfReplay, PlanIsSound DEF PlanDerivationOf
  <2>4. marks' \in [Ledger -> {Indexed}]
    BY <2>1, MarkTypes DEF StoreInv
  <2>5. IndexedIsBacked'
    BY <2>1 DEF IndexedIsBacked, DerivationFits
  <2>6. Ledger' = Ledger
    BY <2>4
  <2>7. QED BY <2>3, <2>4, <2>5, <2>6 DEF StoreInv
<1>5. ASSUME NEW T \in SUBSET Receipts, NEW U \in SUBSET Receipts,
             NEW V \in SUBSET Receipts, T \cup U \cup V \subseteq Ledger,
             ReplaceDerivation(DerivationFrom(T, U, V))
      PROVE  StoreInv'
  <2>1. /\ UNCHANGED view
        /\ knowledge' = DerivationFrom(T, U, V)
        /\ DerivationFits(knowledge', view')
        /\ marks' = MarkDerivationComplete(marks)
    BY <1>5 DEF ReplaceDerivation
  <2>2. IsFiniteSet(T) /\ IsFiniteSet(U)
    BY <1>5, FS_Subset DEF StoreInv
  <2>3. KnowledgeIsSound(knowledge')
    BY <2>1, <2>2, CorpusOfStore, PlanIsSound DEF DerivationFrom
  <2>4. marks' \in [Ledger -> {Pending, Indexed}]
    BY <2>1, MarkTypes DEF StoreInv
  <2>5. IndexedIsBacked'
    BY <2>1 DEF IndexedIsBacked, DerivationFits
  <2>6. Ledger' = Ledger
    BY <2>4
  <2>7. QED BY <2>1, <2>3, <2>4, <2>5, <2>6 DEF StoreInv
<1>6. CASE \E plan \in Replays :
             /\ plan.made_of \subseteq Ledger
             /\ \/ ReplaceProjection(plan.projection)
                \/ ReplaceBoth(plan.projection, plan.derivation)
  <2>1. PICK T \in SUBSET Receipts :
          /\ T \subseteq Ledger
          /\ \/ ReplaceProjection(PlanProjection(T))
             \/ ReplaceBoth(PlanProjection(T), PlanDerivationOf(PlanProjection(T)))
    BY <1>6 DEF Replays
  <2>2. QED BY <1>3, <1>4, <2>1
<1>7. CASE \E plan \in Derivations :
             plan.made_of \subseteq Ledger /\ ReplaceDerivation(plan.derivation)
  <2>1. PICK T \in SUBSET Receipts, U \in SUBSET Receipts, V \in SUBSET Receipts :
          T \cup U \cup V \subseteq Ledger /\ ReplaceDerivation(DerivationFrom(T, U, V))
    BY <1>7 DEF Derivations
  <2>2. QED BY <1>5, <2>1
<1>8. QED BY <1>1, <1>2, <1>6, <1>7 DEF StoreNext

THEOREM StoreStaysSound == StoreSpec => []StoreInv
<1>1. StoreInit => StoreInv
  <2> SUFFICES ASSUME StoreInit PROVE StoreInv
    OBVIOUS
  <2>1. Ledger = {} /\ IsFiniteSet(Ledger) /\ marks \in [Ledger -> {Pending, Projected, Indexed}]
    BY FS_EmptySet DEF StoreInit, Ledger
  <2>2. ViewIsSound(view)
    BY ProjectionIsSound DEF StoreInit, NoProjection
  <2>3. CorpusIsSound(Corpus({}, {}, {}, ByPlace))
    BY FS_EmptySet DEF Corpus, CorpusIsSound, SessionsAreSound
  <2>4. KnowledgeIsSound(knowledge)
    BY <2>3, PlanIsSound DEF StoreInit, NoDerivation
  <2>5. QED BY <2>1, <2>2, <2>4 DEF StoreInv, IndexedIsBacked
<1>2. StoreInv /\ [StoreNext]_store_vars => StoreInv'
  BY StoreStepKeepsInv
<1>3. QED BY <1>1, <1>2, PTL DEF StoreSpec
=============================================================================
