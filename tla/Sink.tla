-------------------------------- MODULE Sink --------------------------------
(***************************************************************************)
(* The raw-event sink: planning and applying appends to ingress_receipts   *)
(* and upserts to source_cursor (axiomsync-kernel ingest.rs, kernel.rs;    *)
(* axiomsync-store-sqlite context_db.rs).                                  *)
(*                                                                         *)
(* Planning reads the store on a connection of its own and hands the plan  *)
(* to the client; applying is a transaction that trusts the plan.  Nothing *)
(* ties the two together: a plan is a value that any number of clients may *)
(* hold, apply late, apply again after a lost response, or never apply.    *)
(* So the plans handed out are a set that only grows, and every plan of it *)
(* may be applied at any time.                                             *)
(*                                                                         *)
(* A busy database or a malformed request answers an error and changes     *)
(* nothing: it is a stuttering step.                                       *)
(*                                                                         *)
(* A definition marked "faulty" is what a plausible bug would make of the  *)
(* next one; it is no part of the model, and the properties must fail with *)
(* it (PROJECT.json, "mutants").                                           *)
(***************************************************************************)
EXTENDS Naturals, Sequences

CONSTANTS
  Requests,        \* the AppendRawEventsRequest values clients send
  CursorRequests,  \* the UpsertSourceCursorRequest values clients send
  Taxonomy,        \* RAW_EVENT_TAXONOMY
  CalendarEnd,     \* the last millisecond that has a date
  Absent           \* an optional field left out, or text that trims to nothing

VARIABLES
  receipts,       \* the rows of ingress_receipts
  source_cursor,  \* [CursorKeys -> a cursor row, or Absent]
  plans,          \* the IngestPlans handed to clients
  acked,          \* the IngestPlans whose apply has committed
  cursor_plans,   \* the SourceCursorUpsertPlans handed to clients
  cursor_acked    \* those whose apply has committed

ledger_vars == <<receipts, plans, acked>>
cursor_vars == <<source_cursor, cursor_plans, cursor_acked>>
vars == <<receipts, plans, acked, source_cursor, cursor_plans, cursor_acked>>

(* A batch is a finite sequence of events. *)
ASSUME RequestsAreBatches ==
  \A r \in Requests :
    Len(r.events) \in Nat /\ DOMAIN r.events = 1 .. Len(r.events)

Positions(r) == DOMAIN r.events

-----------------------------------------------------------------------------
(* Parse and normalise.                                                    *)

ValidEvent(e) ==
  /\ e.connector # Absent
  /\ e.session_key # Absent
  /\ e.event_kind \in Taxonomy
  /\ e.observed_at # Absent
  /\ \A a \in e.artifacts : Absent \notin {a.artifact_kind, a.uri}

ValidRequest(r) ==
  /\ r.batch_id # Absent
  /\ r.producer # Absent
  /\ r.received_at_ms >= 0
  /\ r.events # <<>>
  /\ \A i \in Positions(r) : ValidEvent(r.events[i])

ValidCursorRequest(c) ==
  /\ c.connector # Absent
  /\ c.cursor_key # Absent
  /\ c.cursor_value # Absent
  /\ c.updated_at_ms >= 0

(* ts_ms_to_rfc3339 has a text for ms. *)
HasDate(ms) == ms <= CalendarEnd

(* normalized_captured_at: a time of capture may be left out. *)
CapturedAtConverts(e) == e.captured_at # Absent => HasDate(e.captured_at)

(* computed_dedupe_key: the key the client gives, or a hash of these       *)
(* fields.  A hash is the tuple it is taken over.  Neither the connector,  *)
(* the workspace nor the batch is part of it.                              *)
DedupeKey(r, i) ==
  LET e == r.events[i]
  IN  IF e.dedupe_key # Absent
      THEN <<"given", e.dedupe_key>>
      ELSE <<"computed", r.producer, e.session_kind, e.session_key,
             e.entry_key, e.event_kind, e.observed_at, e.content_hash>>

(* The receipt id is a hash over the batch but neither over the session    *)
(* kind nor over a dedupe key the client gave.                             *)
ReceiptId(r, i) ==
  LET e == r.events[i]
  IN  <<r.batch_id, r.producer, e.session_key, e.entry_key,
        e.event_kind, e.observed_at, e.content_hash>>

Receipt(r, i) ==
  [receipt_id  |-> ReceiptId(r, i),
   dedupe_key  |-> DedupeKey(r, i),
   source_kind |-> r.producer,
   event       |-> r.events[i]]

-----------------------------------------------------------------------------
(* Plan.                                                                   *)

(* dedupe_candidates, and the query that keeps those the ledger holds. *)
Candidates(r) == {DedupeKey(r, i) : i \in Positions(r)}

(* Faulty: a key that a plan still carries counts as existing. *)
KeysSeen(keys) ==
  {k \in keys : \/ \E x \in receipts : x.dedupe_key = k
                \/ \E p \in plans : k \in Candidates(p.request)}

ExistingKeys(keys) == {k \in keys : \E x \in receipts : x.dedupe_key = k}

(* plan_append_raw_events: the first event of each key that does not exist *)
(* becomes a receipt, every other event is skipped.  The plan names its    *)
(* receipts and its skipped events by their positions in the batch.        *)
PlanAppend(r, existing) ==
  LET fresh == {i \in Positions(r) :
                  /\ DedupeKey(r, i) \notin existing
                  /\ \A j \in Positions(r) :
                       j < i => DedupeKey(r, j) # DedupeKey(r, i)}
  IN  [request  |-> r,
       receipts |-> fresh,
       skipped  |-> Positions(r) \ fresh]

CursorKey(c) == <<c.connector, c.cursor_key>>
CursorKeys == {CursorKey(c) : c \in CursorRequests}

PlanCursor(c) ==
  [key |-> CursorKey(c), value |-> c.cursor_value, updated_at |-> c.updated_at_ms]

-----------------------------------------------------------------------------
(* Apply.                                                                  *)

(* Faulty: without the unique index on dedupe_key; unique by entry.        *)
IgnoredById(table, row) == \E x \in table : x.receipt_id = row.receipt_id

IgnoredByEntry(table, row) ==
  \E x \in table : /\ x.event.session_key = row.event.session_key
                   /\ x.event.entry_key = row.event.entry_key

(* A row of the table has the primary key or the unique dedupe key of row. *)
Ignored(table, row) ==
  \E x \in table : \/ x.receipt_id = row.receipt_id
                   \/ x.dedupe_key = row.dedupe_key

(* Faulty: all rows of the plan checked before the first is inserted. *)
WrittenAtOnce(table, plan) ==
  {i \in plan.receipts : ~Ignored(table, Receipt(plan.request, i))}

(* "insert or ignore", row by row in the order of the batch: a receipt is  *)
(* written unless the table ignores it or an earlier receipt of the plan   *)
(* with the same id has just been written.                                 *)
Written(table, plan) ==
  {i \in plan.receipts :
     /\ ~Ignored(table, Receipt(plan.request, i))
     /\ \A j \in plan.receipts :
          (j < i /\ ReceiptId(plan.request, j) = ReceiptId(plan.request, i))
            => Ignored(table, Receipt(plan.request, j))}

(* Faulty: "insert or replace". *)
InsertOrReplace(table, plan) ==
  LET rows == {Receipt(plan.request, i) : i \in plan.receipts}
  IN  {x \in table : ~Ignored(rows, x)} \cup rows

InsertOrIgnore(table, plan) ==
  table \cup {Receipt(plan.request, i) : i \in Written(table, plan)}

-----------------------------------------------------------------------------
Init ==
  /\ receipts = {}
  /\ plans = {}
  /\ acked = {}
  /\ source_cursor = [k \in CursorKeys |-> Absent]
  /\ cursor_plans = {}
  /\ cursor_acked = {}

(* POST /sink/raw-events/plan, sink plan-append-raw-events.  The time of   *)
(* capture is converted for receipts only: of a skipped event it may be    *)
(* any.                                                                    *)
PlanAppendRawEvents(r) ==
  /\ ValidRequest(r)
  /\ \A i \in PlanAppend(r, ExistingKeys(Candidates(r))).receipts :
       CapturedAtConverts(r.events[i])
  /\ plans' = plans \cup {PlanAppend(r, ExistingKeys(Candidates(r)))}
  /\ UNCHANGED <<receipts, acked, cursor_vars>>

(* POST /sink/raw-events/apply, sink apply-ingest-plan: the transaction    *)
(* commits whatever rows it ignored.                                       *)
ApplyIngestPlan(plan) ==
  /\ receipts' = InsertOrIgnore(receipts, plan)
  /\ acked' = acked \cup {plan}
  /\ UNCHANGED <<plans, cursor_vars>>

(* POST /sink/source-cursors/plan: pure. *)
PlanSourceCursorUpsert(c) ==
  /\ ValidCursorRequest(c)
  /\ HasDate(c.updated_at_ms)
  /\ cursor_plans' = cursor_plans \cup {PlanCursor(c)}
  /\ UNCHANGED <<ledger_vars, source_cursor, cursor_acked>>

(* Faulty: a conflicting row keeps its updated_at. *)
ApplySourceCursorValue(plan) ==
  /\ source_cursor' =
       [source_cursor EXCEPT ![plan.key] =
          IF @ = Absent THEN plan ELSE [@ EXCEPT !.value = plan.value]]
  /\ cursor_acked' = cursor_acked \cup {plan}
  /\ UNCHANGED <<ledger_vars, cursor_plans>>

(* POST /sink/source-cursors/apply: the upsert compares nothing. *)
ApplySourceCursorPlan(plan) ==
  /\ source_cursor' = [source_cursor EXCEPT ![plan.key] = plan]
  /\ cursor_acked' = cursor_acked \cup {plan}
  /\ UNCHANGED <<ledger_vars, cursor_plans>>

Next ==
  \/ \E r \in Requests : PlanAppendRawEvents(r)
  \/ \E plan \in plans : ApplyIngestPlan(plan)
  \/ \E c \in CursorRequests : PlanSourceCursorUpsert(c)
  \/ \E plan \in cursor_plans : ApplySourceCursorPlan(plan)

Spec == Init /\ [][Next]_vars

-----------------------------------------------------------------------------
(* Properties.                                                             *)

(* Every plan was made by the planner from a request, whatever keys the    *)
(* store held at the time, and only plans handed out have been applied.    *)
TypeOK ==
  /\ \A x \in receipts :
       \E r \in Requests : \E i \in Positions(r) : x = Receipt(r, i)
  /\ \A p \in plans :
       \E r \in Requests : \E existing \in SUBSET Candidates(r) :
         p = PlanAppend(r, existing)
  /\ acked \subseteq plans
  /\ cursor_plans \subseteq {PlanCursor(c) : c \in CursorRequests}
  /\ cursor_acked \subseteq cursor_plans
  /\ source_cursor \in [CursorKeys -> cursor_acked \cup {Absent}]

(* The ledger never holds two rows of one event: neither the receipt id    *)
(* nor the dedupe key is shared by two rows, however many clients planned  *)
(* the same event before any of them applied.                              *)
OneReceiptPerKey ==
  \A x, y \in receipts :
    (x.receipt_id = y.receipt_id \/ x.dedupe_key = y.dedupe_key) => x = y

(* A row of the ledger has the dedupe key of position i of batch r. *)
Recorded(r, i) == \E x \in receipts : x.dedupe_key = DedupeKey(r, i)

(* An event skipped by a plan is in the ledger, or the plan itself carries *)
(* its first occurrence: a plan skips nothing because of a row that        *)
(* another client merely intends to write.                                 *)
SkippedIsRecordedOrCarried ==
  \A p \in plans : \A i \in p.skipped :
    \/ Recorded(p.request, i)
    \/ \E j \in p.receipts : /\ j < i
                             /\ DedupeKey(p.request, j) = DedupeKey(p.request, i)

(* No event of another key has the receipt id of position i of batch r, or *)
(* of another position of the batch with its key.                          *)
Uncontested(r, i) ==
  \A j \in Positions(r) : \A s \in Requests : \A k \in Positions(s) :
    (DedupeKey(r, j) = DedupeKey(r, i) /\ ReceiptId(s, k) = ReceiptId(r, j))
      => DedupeKey(s, k) = DedupeKey(r, i)

(* Once an apply has committed, every event of its batch, accepted or      *)
(* skipped, is on record under its dedupe key, if no event of another key  *)
(* can take its receipt id.                                                *)
AckedIsRecorded ==
  \A p \in acked : \A i \in Positions(p.request) :
    Uncontested(p.request, i) => Recorded(p.request, i)

(* A duplicate append is a no-op: the plan of a committed apply, applied   *)
(* again at any later time, would leave the ledger as it is.               *)
AppliedPlanIsAbsorbed ==
  \A p \in acked : InsertOrIgnore(receipts, p) = receipts

(* What apply_ingest does with a plan, statement by statement: each        *)
(* receipt in the order of the batch against the table the last one left.  *)
InsertRow(table, row) == IF Ignored(table, row) THEN table ELSE table \cup {row}

RowByRow(table, plan) ==
  LET last == Len(plan.request.events)
      after[i \in 0 .. last] ==
        IF i = 0 THEN table
        ELSE IF i \in plan.receipts
             THEN InsertRow(after[i - 1], Receipt(plan.request, i))
             ELSE after[i - 1]
  IN  after[last]

(* Applying a plan in one step leaves the table that inserting its rows    *)
(* one after the other leaves, for every plan and every ledger reached.    *)
ApplyIsRowByRow ==
  \A p \in plans : InsertOrIgnore(receipts, p) = RowByRow(receipts, p)

(* The ledger is append-only: no step removes or changes a row.            *)
LedgerOnlyGrows == [][receipts \subseteq receipts']_vars

(* Two events with one receipt id have one dedupe key: no batch holds two  *)
(* events that differ only in what the receipt id leaves out, the session  *)
(* kind and a dedupe key given by the client.                              *)
ReceiptIdsSeparate ==
  \A r, s \in Requests : \A i \in Positions(r), j \in Positions(s) :
    ReceiptId(r, i) = ReceiptId(s, j) => DedupeKey(r, i) = DedupeKey(s, j)

(* Planning a batch again after its apply has committed yields no receipts *)
(* and skips every event (docs/RELAY_INTEROP.md:107).                      *)
ReplanIsEmpty ==
  \A p \in acked :
    PlanAppend(p.request, ExistingKeys(Candidates(p.request))).receipts = {}

(* The receipts an apply answers as accepted are rows of the ledger, and   *)
(* what was a duplicate is answered as skipped                             *)
(* (docs/KERNEL_SINK_CONTRACT.md:106, context_db.rs:300-305).              *)
AcceptedReceiptsExist ==
  \A p \in acked : \A i \in p.receipts :
    \E x \in receipts : x.receipt_id = ReceiptId(p.request, i)

(* Sink implements Ledger: its rows are the receipts, and applying a plan  *)
(* promises the keys of the whole batch.                                   *)
PromisedKeys == UNION {Candidates(p.request) : p \in acked}

L == INSTANCE Ledger WITH rows <- receipts, promised <- PromisedKeys

LedgerSpec == L!Spec
=============================================================================
