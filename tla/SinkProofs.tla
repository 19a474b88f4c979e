----------------------------- MODULE SinkProofs -----------------------------
(***************************************************************************)
(* Theorems about Sink, for every set of requests.                         *)
(*                                                                         *)
(* The ledger's own invariants follow from one fact about "insert or       *)
(* ignore": it adds rows whose receipt id and dedupe key are both new to   *)
(* the table and to the plan.  That an acknowledged batch is on record     *)
(* needs the converse, that every receipt the insert did not write has a   *)
(* row that stands for it, and that rests on the fact that each key of a   *)
(* batch has a first occurrence (FirstPosition).                           *)
(***************************************************************************)
EXTENDS Sink, LeastElement

(* A non-empty set of positions of a batch has a first. *)
LEMMA FirstPosition ==
  ASSUME NEW r \in Requests, NEW T \in SUBSET Positions(r), T # {}
  PROVE  \E x \in T : \A y \in T : ~(y < x)
<1>1. Len(r.events) \in Nat /\ Positions(r) = 1 .. Len(r.events)
  BY RequestsAreBatches DEF Positions
<1>2. PICK x \in T : \A y \in T : x <= y
  BY <1>1, LeastNat
<1>3. \A y \in T : y \in Int
  BY <1>1
<1>4. QED BY <1>2, <1>3

-----------------------------------------------------------------------------
(* A plan is what the planner makes of a request, and carries no two        *)
(* receipts of one key.                                                     *)
LEMMA PlanShape ==
  ASSUME TypeOK, NEW p \in plans
  PROVE  /\ p.request \in Requests
         /\ p.receipts \subseteq Positions(p.request)
         /\ p.skipped = Positions(p.request) \ p.receipts
         /\ \E existing \in SUBSET Candidates(p.request) :
              p = PlanAppend(p.request, existing)
         /\ \A i, j \in p.receipts :
              DedupeKey(p.request, i) = DedupeKey(p.request, j) => i = j
<1>1. PICK r \in Requests : \E existing \in SUBSET Candidates(r) :
        p = PlanAppend(r, existing)
  BY DEF TypeOK
<1>2. PICK existing \in SUBSET Candidates(r) : p = PlanAppend(r, existing)
  BY <1>1
<1>3. /\ p.request = r
      /\ p.receipts \subseteq Positions(r)
      /\ p.skipped = Positions(r) \ p.receipts
  BY <1>2 DEF PlanAppend
<1>4. ASSUME NEW i \in p.receipts, NEW j \in p.receipts,
             DedupeKey(r, i) = DedupeKey(r, j)
      PROVE  i = j
  <2>1. ~(i < j) /\ ~(j < i)
    BY <1>2, <1>3, <1>4 DEF PlanAppend
  <2>2. i \in Int /\ j \in Int
    BY <1>3, RequestsAreBatches DEF Positions
  <2>3. QED BY <2>1, <2>2
<1>5. QED BY <1>2, <1>3, <1>4

-----------------------------------------------------------------------------
(* Type correctness: every row and every plan comes from a request, a plan *)
(* is applied only after it was handed out, and every source cursor is one *)
(* a committed apply left.                                                 *)
THEOREM TypeCorrect == Spec => []TypeOK
<1>1. Init => TypeOK
  BY DEF Init, TypeOK
<1>2. TypeOK /\ [Next]_vars => TypeOK'
  <2> SUFFICES ASSUME TypeOK, [Next]_vars PROVE TypeOK'
    OBVIOUS
  <2>1. ASSUME NEW r \in Requests, PlanAppendRawEvents(r) PROVE TypeOK'
    <3>1. ExistingKeys(Candidates(r)) \in SUBSET Candidates(r)
      BY DEF ExistingKeys
    <3>2. \A p \in plans' : \E q \in Requests : \E e \in SUBSET Candidates(q) :
            p = PlanAppend(q, e)
      BY <2>1, <3>1 DEF TypeOK, PlanAppendRawEvents
    <3>3. QED BY <2>1, <3>2 DEF TypeOK, PlanAppendRawEvents, cursor_vars
  <2>2. ASSUME NEW p \in plans, ApplyIngestPlan(p) PROVE TypeOK'
    <3>1. p.request \in Requests /\ p.receipts \subseteq Positions(p.request)
      BY PlanShape
    <3>2. \A x \in receipts' :
            \E r \in Requests : \E i \in Positions(r) : x = Receipt(r, i)
      BY <2>2, <3>1 DEF TypeOK, ApplyIngestPlan, InsertOrIgnore, Written
    <3>3. QED BY <2>2, <3>2 DEF TypeOK, ApplyIngestPlan, cursor_vars
  <2>3. ASSUME NEW c \in CursorRequests, PlanSourceCursorUpsert(c) PROVE TypeOK'
    BY <2>3 DEF TypeOK, PlanSourceCursorUpsert, ledger_vars
  <2>4. ASSUME NEW p \in cursor_plans, ApplySourceCursorPlan(p) PROVE TypeOK'
    <3>1. source_cursor' \in [CursorKeys -> cursor_acked' \cup {Absent}]
      BY <2>4 DEF TypeOK, ApplySourceCursorPlan
    <3>2. QED BY <2>4, <3>1 DEF TypeOK, ApplySourceCursorPlan, ledger_vars
  <2>5. CASE UNCHANGED vars
    BY <2>5 DEF TypeOK, vars
  <2>6. QED BY <2>1, <2>2, <2>3, <2>4, <2>5 DEF Next
<1>3. QED BY <1>1, <1>2, PTL DEF Spec

(* No step removes or changes a row of the ledger. *)
LEMMA StepOnlyGrows == [Next]_vars => receipts \subseteq receipts'
BY DEF Next, vars, PlanAppendRawEvents, ApplyIngestPlan, InsertOrIgnore,
       PlanSourceCursorUpsert, ApplySourceCursorPlan, ledger_vars

(* The ledger is append-only, with any requests and any plans in flight. *)
THEOREM AppendOnly == Spec => LedgerOnlyGrows
<1>1. [Next]_vars => [receipts \subseteq receipts']_vars
  BY StepOnlyGrows
<1>2. QED BY <1>1, PTL DEF Spec, LedgerOnlyGrows

-----------------------------------------------------------------------------
(* What "insert or ignore" adds is new to the table and distinct. *)
LEMMA WrittenAreNew ==
  ASSUME TypeOK, NEW p \in plans,
         NEW i \in Written(receipts, p), NEW j \in Written(receipts, p)
  PROVE  /\ ~Ignored(receipts, Receipt(p.request, i))
         /\ (\/ Receipt(p.request, i).receipt_id = Receipt(p.request, j).receipt_id
             \/ Receipt(p.request, i).dedupe_key = Receipt(p.request, j).dedupe_key)
            => i = j
<1>1. i \in p.receipts /\ j \in p.receipts /\ i \in Int /\ j \in Int
  BY PlanShape, RequestsAreBatches DEF Written, Positions
<1>2. ~Ignored(receipts, Receipt(p.request, i))
      /\ ~Ignored(receipts, Receipt(p.request, j))
  BY DEF Written
<1>3. CASE ReceiptId(p.request, i) = ReceiptId(p.request, j)
  <2>1. ~(i < j) /\ ~(j < i)
    BY <1>1, <1>2, <1>3 DEF Written
  <2>2. QED BY <1>1, <1>2, <2>1
<1>4. CASE DedupeKey(p.request, i) = DedupeKey(p.request, j)
  BY <1>1, <1>2, <1>4, PlanShape
<1>5. QED BY <1>2, <1>3, <1>4 DEF Receipt

(* Two clients that planned the same event, in whatever order they apply,  *)
(* never leave two rows of it: one row per receipt id and per dedupe key.  *)
THEOREM OneRowPerEvent == Spec => []OneReceiptPerKey
<1>1. Init => OneReceiptPerKey
  BY DEF Init, OneReceiptPerKey
<1>2. TypeOK /\ OneReceiptPerKey /\ [Next]_vars => OneReceiptPerKey'
  <2> SUFFICES ASSUME TypeOK, OneReceiptPerKey, [Next]_vars
               PROVE  OneReceiptPerKey'
    OBVIOUS
  <2>1. ASSUME NEW p \in plans, ApplyIngestPlan(p) PROVE OneReceiptPerKey'
    <3> SUFFICES ASSUME NEW x \in receipts', NEW y \in receipts',
                        x.receipt_id = y.receipt_id \/ x.dedupe_key = y.dedupe_key
                 PROVE  x = y
      BY DEF OneReceiptPerKey
    <3>1. receipts' = receipts \cup
                        {Receipt(p.request, i) : i \in Written(receipts, p)}
      BY <2>1 DEF ApplyIngestPlan, InsertOrIgnore
    <3>2. CASE x \in receipts /\ y \in receipts
      BY <3>2 DEF OneReceiptPerKey
    <3>3. ASSUME NEW i \in Written(receipts, p), x = Receipt(p.request, i),
                 y \in receipts
          PROVE  x = y
      BY <3>3, WrittenAreNew DEF Ignored
    <3>4. ASSUME NEW i \in Written(receipts, p), y = Receipt(p.request, i),
                 x \in receipts
          PROVE  x = y
      BY <3>4, WrittenAreNew DEF Ignored
    <3>5. ASSUME NEW i \in Written(receipts, p), x = Receipt(p.request, i),
                 NEW j \in Written(receipts, p), y = Receipt(p.request, j)
          PROVE  x = y
      BY <3>5, WrittenAreNew
    <3>6. QED BY <3>1, <3>2, <3>3, <3>4, <3>5
  <2>2. CASE UNCHANGED receipts
    BY <2>2 DEF OneReceiptPerKey
  <2>3. QED BY <2>1, <2>2 DEF Next, vars, PlanAppendRawEvents,
              PlanSourceCursorUpsert, ApplySourceCursorPlan, ledger_vars
<1>3. QED BY <1>1, <1>2, TypeCorrect, PTL DEF Spec

-----------------------------------------------------------------------------
(* A receipt the insert did not write is stood for by a row, old or new.   *)
LEMMA InsertCovers ==
  ASSUME TypeOK, NEW p \in plans, NEW i \in p.receipts
  PROVE  Ignored(InsertOrIgnore(receipts, p), Receipt(p.request, i))
<1> DEFINE T == {j \in p.receipts :
                   /\ ReceiptId(p.request, j) = ReceiptId(p.request, i)
                   /\ ~Ignored(receipts, Receipt(p.request, j))}
<1>1. T \subseteq Positions(p.request) /\ p.request \in Requests
  BY PlanShape
<1>2. CASE T = {}
  <2>1. Ignored(receipts, Receipt(p.request, i))
    BY <1>2
  <2>2. QED BY <2>1 DEF Ignored, InsertOrIgnore
<1>3. CASE T # {}
  <2>1. PICK j \in T : \A k \in T : ~(k < j)
    BY <1>1, <1>3, FirstPosition
  <2>2. j \in Written(receipts, p)
    BY <2>1 DEF Written
  <2>3. Receipt(p.request, j) \in InsertOrIgnore(receipts, p)
    BY <2>2 DEF InsertOrIgnore
  <2>4. Receipt(p.request, j).receipt_id = Receipt(p.request, i).receipt_id
    BY DEF Receipt
  <2>5. QED BY <2>3, <2>4 DEF Ignored
<1>4. QED BY <1>2, <1>3

(* An event the planner skips is in the ledger at that moment, or the plan *)
(* carries its first occurrence.                                           *)
LEMMA SkippedWhenPlanned ==
  ASSUME NEW r \in Requests,
         NEW i \in PlanAppend(r, ExistingKeys(Candidates(r))).skipped
  PROVE  \/ Recorded(r, i)
         \/ \E j \in PlanAppend(r, ExistingKeys(Candidates(r))).receipts :
              j < i /\ DedupeKey(r, j) = DedupeKey(r, i)
<1> DEFINE existing == ExistingKeys(Candidates(r))
           T == {j \in Positions(r) : DedupeKey(r, j) = DedupeKey(r, i)}
<1>1. i \in Positions(r)
  BY DEF PlanAppend
<1>2. PICK j \in T : \A k \in T : ~(k < j)
  BY <1>1, FirstPosition
<1>3. CASE DedupeKey(r, i) \in existing
  BY <1>3 DEF ExistingKeys, Recorded
<1>4. CASE DedupeKey(r, i) \notin existing
  <2>1. j \in PlanAppend(r, existing).receipts
    BY <1>2, <1>4 DEF PlanAppend
  <2>2. i \notin PlanAppend(r, existing).receipts
    BY DEF PlanAppend
  <2>3. i \in T /\ i # j /\ ~(i < j)
    BY <1>1, <1>2, <2>1, <2>2
  <2>4. i \in Int /\ j \in Int
    BY <1>1, <1>2, RequestsAreBatches DEF Positions
  <2>5. j < i
    BY <2>3, <2>4
  <2>6. QED BY <1>2, <2>1, <2>5
<1>5. QED BY <1>3, <1>4

(* No plan, however late it is applied, skips an event for the sake of a   *)
(* row that does not exist.                                                *)
THEOREM SkipsAreSafe == Spec => []SkippedIsRecordedOrCarried
<1>1. Init => SkippedIsRecordedOrCarried
  BY DEF Init, SkippedIsRecordedOrCarried
<1>2. SkippedIsRecordedOrCarried /\ [Next]_vars => SkippedIsRecordedOrCarried'
  <2> SUFFICES ASSUME SkippedIsRecordedOrCarried, [Next]_vars,
                      NEW p \in plans', NEW i \in p.skipped
               PROVE  \/ Recorded(p.request, i)'
                      \/ \E j \in p.receipts :
                           /\ j < i
                           /\ DedupeKey(p.request, j) = DedupeKey(p.request, i)
    BY DEF SkippedIsRecordedOrCarried
  <2>1. receipts \subseteq receipts'
    BY StepOnlyGrows
  <2>2. CASE p \in plans
    BY <2>1, <2>2 DEF SkippedIsRecordedOrCarried, Recorded
  <2>3. ASSUME NEW r \in Requests, p = PlanAppend(r, ExistingKeys(Candidates(r)))
        PROVE  \/ Recorded(p.request, i)'
               \/ \E j \in p.receipts :
                    /\ j < i
                    /\ DedupeKey(p.request, j) = DedupeKey(p.request, i)
    <3>1. p.request = r
      BY <2>3 DEF PlanAppend
    <3>2. QED BY <2>1, <2>3, <3>1, SkippedWhenPlanned DEF Recorded
  <2>4. p \in plans \/ \E r \in Requests :
                         p = PlanAppend(r, ExistingKeys(Candidates(r)))
    BY DEF Next, vars, PlanAppendRawEvents, ApplyIngestPlan,
           PlanSourceCursorUpsert, ApplySourceCursorPlan, ledger_vars
  <2>5. QED BY <2>2, <2>3, <2>4
<1>3. QED BY <1>1, <1>2, PTL DEF Spec

-----------------------------------------------------------------------------
(* The inductive invariant behind what an acknowledgement means: each      *)
(* receipt of a committed plan would be ignored if it were inserted again. *)
AckedIsCovered ==
  \A p \in acked : \A i \in p.receipts : Ignored(receipts, Receipt(p.request, i))

(* From the commit of its apply on, every receipt of a plan is stood for   *)
(* by a row of the ledger.                                                 *)
LEMMA AckedStaysCovered == Spec => []AckedIsCovered
<1>1. Init => AckedIsCovered
  BY DEF Init, AckedIsCovered
<1>2. TypeOK /\ AckedIsCovered /\ [Next]_vars => AckedIsCovered'
  <2> SUFFICES ASSUME TypeOK, AckedIsCovered, [Next]_vars,
                      NEW p \in acked', NEW i \in p.receipts
               PROVE  Ignored(receipts', Receipt(p.request, i))
    BY DEF AckedIsCovered, Ignored
  <2>1. CASE p \in acked
    <3>1. Ignored(receipts, Receipt(p.request, i))
      BY <2>1 DEF AckedIsCovered
    <3>2. QED BY <3>1, StepOnlyGrows DEF Ignored
  <2>2. ASSUME p \in plans, ApplyIngestPlan(p)
        PROVE  Ignored(receipts', Receipt(p.request, i))
    BY <2>2, InsertCovers DEF ApplyIngestPlan
  <2>3. p \in acked \/ (p \in plans /\ ApplyIngestPlan(p))
    BY DEF Next, vars, PlanAppendRawEvents, ApplyIngestPlan,
           PlanSourceCursorUpsert, ApplySourceCursorPlan, ledger_vars
  <2>4. QED BY <2>1, <2>2, <2>3
<1>3. QED BY <1>1, <1>2, TypeCorrect, PTL DEF Spec

(* Applying a committed plan again, at any later time, changes nothing.    *)
THEOREM DuplicateApplyIsNoOp == Spec => []AppliedPlanIsAbsorbed
<1>1. AckedIsCovered => AppliedPlanIsAbsorbed
  <2> SUFFICES ASSUME AckedIsCovered, NEW p \in acked
               PROVE  InsertOrIgnore(receipts, p) = receipts
    BY DEF AppliedPlanIsAbsorbed
  <2>1. Written(receipts, p) = {}
    BY DEF AckedIsCovered, Written
  <2>2. QED BY <2>1 DEF InsertOrIgnore
<1>2. QED BY <1>1, AckedStaysCovered, PTL

(* What took the place of a receipt of a committed plan has its key, unless *)
(* its receipt id is contested; and what the plan skipped is on record.     *)
LEMMA UncontestedIsRecorded ==
  ASSUME TypeOK, SkippedIsRecordedOrCarried, AckedIsCovered,
         NEW p \in acked, NEW i \in Positions(p.request),
         Uncontested(p.request, i)
  PROVE  Recorded(p.request, i)
<1>1. p \in plans /\ p.request \in Requests
  BY PlanShape DEF TypeOK
<1>2. ASSUME NEW j \in p.receipts,
             DedupeKey(p.request, j) = DedupeKey(p.request, i)
      PROVE  Recorded(p.request, i)
  <2>1. j \in Positions(p.request)
    BY <1>1, PlanShape
  <2>2. PICK x \in receipts : \/ x.receipt_id = ReceiptId(p.request, j)
                              \/ x.dedupe_key = DedupeKey(p.request, j)
    BY DEF AckedIsCovered, Ignored, Receipt
  <2>3. PICK r \in Requests : \E k \in Positions(r) : x = Receipt(r, k)
    BY DEF TypeOK
  <2> PICK k \in Positions(r) : x = Receipt(r, k)
    BY <2>3
  <2>4. x.receipt_id = ReceiptId(r, k) /\ x.dedupe_key = DedupeKey(r, k)
    BY DEF Receipt
  <2>5. QED BY <1>2, <2>1, <2>2, <2>4 DEF Uncontested, Recorded
<1>3. CASE i \in p.receipts
  BY <1>2, <1>3
<1>4. CASE i \in p.skipped
  BY <1>1, <1>2, <1>4 DEF SkippedIsRecordedOrCarried
<1>5. QED BY <1>1, <1>3, <1>4, PlanShape

(* Every event of an acknowledged batch is on record under its dedupe key, *)
(* unless an event of another key can take its receipt id.                 *)
THEOREM AcknowledgedIsOnRecord == Spec => []AckedIsRecorded
<1>1. TypeOK /\ SkippedIsRecordedOrCarried /\ AckedIsCovered => AckedIsRecorded
  BY UncontestedIsRecorded DEF AckedIsRecorded
<1>2. QED BY <1>1, TypeCorrect, SkipsAreSafe, AckedStaysCovered, PTL

-----------------------------------------------------------------------------
(* With receipt ids that separate keys, nothing is contested: every event  *)
(* of an acknowledged batch is on record.                                  *)
AllAckedRecorded ==
  \A p \in acked : \A i \in Positions(p.request) : Recorded(p.request, i)

LEMMA SeparateMeansRecorded ==
  ASSUME ReceiptIdsSeparate
  PROVE  Spec => []AllAckedRecorded
<1>1. TypeOK /\ AckedIsRecorded => AllAckedRecorded
  <2> SUFFICES ASSUME TypeOK, AckedIsRecorded,
                      NEW p \in acked, NEW i \in Positions(p.request)
               PROVE  Recorded(p.request, i)
    BY DEF AllAckedRecorded
  <2>1. p.request \in Requests
    BY PlanShape DEF TypeOK
  <2>2. Uncontested(p.request, i)
    BY <2>1 DEF Uncontested, ReceiptIdsSeparate
  <2>3. QED BY <2>2 DEF AckedIsRecorded
<1>2. QED BY <1>1, TypeCorrect, AcknowledgedIsOnRecord, PTL

(* Planning an acknowledged batch again finds nothing to append, unless    *)
(* two events share a receipt id and not a dedupe key.                     *)
THEOREM ReplanIsNoOp ==
  ASSUME ReceiptIdsSeparate
  PROVE  Spec => []ReplanIsEmpty
<1>1. AllAckedRecorded => ReplanIsEmpty
  <2> SUFFICES ASSUME AllAckedRecorded, NEW p \in acked
               PROVE  PlanAppend(p.request,
                        ExistingKeys(Candidates(p.request))).receipts = {}
    BY DEF ReplanIsEmpty
  <2>1. \A i \in Positions(p.request) :
          DedupeKey(p.request, i) \in ExistingKeys(Candidates(p.request))
    BY DEF AllAckedRecorded, Recorded, ExistingKeys, Candidates
  <2>2. QED BY <2>1 DEF PlanAppend
<1>2. QED BY <1>1, SeparateMeansRecorded, PTL

(* Every key promised by a commit is in the ledger. *)
PromisesKept == PromisedKeys \subseteq L!Keys(receipts)

(* The promise of the abstract ledger, of every reachable state. *)
LEMMA PromisesAreKept ==
  ASSUME ReceiptIdsSeparate
  PROVE  Spec => []PromisesKept
<1>1. AllAckedRecorded => PromisesKept
  BY DEF AllAckedRecorded, Recorded, PromisesKept, PromisedKeys, Candidates, L!Keys
<1>2. QED BY <1>1, SeparateMeansRecorded, PTL

(* Sink implements the abstract ledger: each step adds rows of new keys,   *)
(* and a commit promises only keys the ledger holds.                       *)
THEOREM SinkImplementsLedger ==
  ASSUME ReceiptIdsSeparate
  PROVE  Spec => LedgerSpec
<1>1. Init => L!Init
  BY DEF Init, L!Init, PromisedKeys
<1>2. OneReceiptPerKey' /\ PromisesKept' /\ [Next]_vars
        => [L!Append]_(L!ledgerVars)
  <2> SUFFICES ASSUME OneReceiptPerKey', PromisesKept', [Next]_vars
               PROVE  L!Append
    OBVIOUS
  <2>1. receipts \subseteq receipts'
    BY StepOnlyGrows
  <2>2. L!OneRowPerKey(receipts')
    BY DEF OneReceiptPerKey, L!OneRowPerKey
  <2>3. acked \subseteq acked'
    BY DEF Next, vars, PlanAppendRawEvents, ApplyIngestPlan,
           PlanSourceCursorUpsert, ApplySourceCursorPlan, ledger_vars
  <2>4. PromisedKeys \subseteq PromisedKeys'
    BY <2>3 DEF PromisedKeys
  <2>5. PromisedKeys' \subseteq L!Keys(receipts')
    BY DEF PromisesKept, L!Keys
  <2>6. QED BY <2>1, <2>2, <2>4, <2>5 DEF L!Append
<1>3. QED
  BY <1>1, <1>2, OneRowPerEvent, PromisesAreKept, PTL
  DEF Spec, LedgerSpec, L!Spec

-----------------------------------------------------------------------------
(* The table that the loop of apply_ingest has reached after position i.   *)
Reached(table, p, i) ==
  table \cup {Receipt(p.request, j) : j \in {k \in Written(table, p) : k <= i}}

(* The statement for position i takes the table from one to the next: a     *)
(* receipt of the plan is ignored there exactly if it is not one of those   *)
(* that InsertOrIgnore writes.                                              *)
LEMMA ReachedStep ==
  ASSUME TypeOK, NEW p \in plans, NEW i \in p.receipts
  PROVE  Reached(receipts, p, i) =
           InsertRow(Reached(receipts, p, i - 1), Receipt(p.request, i))
<1> DEFINE Row(j) == Receipt(p.request, j)
           T == Reached(receipts, p, i - 1)
           W == Written(receipts, p)
<1>1. /\ p.request \in Requests
      /\ p.receipts \in SUBSET Positions(p.request)
      /\ \A j \in p.receipts : j \in Int
  BY PlanShape, RequestsAreBatches DEF Positions
<1>2. W \subseteq p.receipts
  BY DEF Written
<1>3. CASE i \in W
  <2>1. Reached(receipts, p, i) = T \cup {Row(i)}
    <3>1. \A j \in W : j <= i <=> (j <= i - 1 \/ j = i)
      BY <1>1, <1>2
    <3>2. QED BY <1>3, <3>1 DEF Reached
  <2>2. ~Ignored(T, Row(i))
    <3>1. ~Ignored(receipts, Row(i))
      BY <1>3 DEF Written
    <3>2. ASSUME NEW j \in W, j <= i - 1 PROVE ~Ignored({Row(j)}, Row(i))
      <4>1. j # i
        BY <1>1, <1>2, <3>2
      <4>2. QED BY <1>3, <4>1, WrittenAreNew DEF Ignored
    <3>3. QED BY <3>1, <3>2 DEF Reached, Ignored
  <2>3. QED BY <2>1, <2>2 DEF InsertRow
<1>4. CASE i \notin W
  <2>1. Reached(receipts, p, i) = T
    <3>1. \A j \in W : j <= i <=> j <= i - 1
      BY <1>1, <1>2, <1>4
    <3>2. QED BY <3>1 DEF Reached
  <2>2. Ignored(T, Row(i))
    <3>1. CASE Ignored(receipts, Row(i))
      BY <3>1 DEF Ignored, Reached
    <3>2. CASE ~Ignored(receipts, Row(i))
      <4> DEFINE Same == {j \in p.receipts :
                            /\ j < i
                            /\ ReceiptId(p.request, j) = ReceiptId(p.request, i)
                            /\ ~Ignored(receipts, Row(j))}
      <4>1. Same # {} /\ Same \in SUBSET Positions(p.request)
        BY <1>1, <1>4, <3>2 DEF Written
      <4>2. PICK j \in Same : \A k \in Same : ~(k < j)
        <5> HIDE DEF Same
        <5> QED BY <1>1, <4>1, FirstPosition
      <4>3. j \in W
        <5>1. \A k \in p.receipts :
                (k < j /\ ReceiptId(p.request, k) = ReceiptId(p.request, j))
                  => Ignored(receipts, Row(k))
          BY <1>1, <4>2
        <5>2. QED BY <4>2, <5>1 DEF Written
      <4>4. j <= i - 1
        BY <1>1, <4>2
      <4>5. Row(j) \in T
        BY <4>3, <4>4 DEF Reached
      <4>6. Row(j).receipt_id = Row(i).receipt_id
        BY <4>2 DEF Receipt
      <4>7. QED BY <4>5, <4>6 DEF Ignored
    <3>3. QED BY <3>1, <3>2
  <2>3. QED BY <2>1, <2>2 DEF InsertRow
<1>5. QED BY <1>3, <1>4

(* Inserting the rows of a plan one after the other, each against the table *)
(* the last one left, leaves what applying the plan in one step leaves.     *)
THEOREM ApplyIsInsertion == Spec => []ApplyIsRowByRow
<1>1. TypeOK => ApplyIsRowByRow
  <2> SUFFICES ASSUME TypeOK, NEW p \in plans
               PROVE  InsertOrIgnore(receipts, p) = RowByRow(receipts, p)
    BY DEF ApplyIsRowByRow
  <2> DEFINE last == Len(p.request.events)
             Loop(g) == [i \in 0 .. last |->
                           IF i = 0 THEN receipts
                           ELSE IF i \in p.receipts
                                THEN InsertRow(g[i - 1], Receipt(p.request, i))
                                ELSE g[i - 1]]
             t == [i \in 0 .. last |-> Reached(receipts, p, i)]
             after == CHOOSE g : g = Loop(g)
  <2>1. /\ last \in Nat
        /\ Positions(p.request) = 1 .. last
        /\ p.receipts \subseteq 1 .. last
        /\ Written(receipts, p) \subseteq p.receipts
    BY PlanShape, RequestsAreBatches DEF Positions, Written
  <2>2. t = Loop(t)
    <3>1. Reached(receipts, p, 0) = receipts
      BY <2>1 DEF Reached
    <3>2. ASSUME NEW i \in 1 .. last, i \notin p.receipts
          PROVE  Reached(receipts, p, i) = Reached(receipts, p, i - 1)
      <4>1. \A k \in Written(receipts, p) : k <= i <=> k <= i - 1
        BY <2>1, <3>2
      <4>2. QED BY <4>1 DEF Reached
    <3>3. \A i \in 0 .. last : i = 0 \/ (i \in 1 .. last /\ i - 1 \in 0 .. last)
      BY <2>1
    <3>4. ASSUME NEW i \in 0 .. last PROVE t[i] = Loop(t)[i]
      BY <3>1, <3>2, <3>3, ReachedStep
    <3>5. QED BY <3>4
  <2>3. after = Loop(after)
    BY <2>2
  <2>4. after = t
    <3> DEFINE Differ == {i \in 0 .. last : after[i] # t[i]}
    <3>1. ASSUME Differ # {} PROVE FALSE
      <4>1. Differ \in SUBSET Nat
        BY <2>1
      <4>2. PICK i \in Differ : \A j \in Differ : i <= j
        <5> HIDE DEF Differ
        <5> QED BY <3>1, <4>1, LeastNat
      <4>3. i \in 0 .. last /\ after[i] # t[i]
        BY <4>2
      <4>4. after[i] = Loop(after)[i] /\ t[i] = Loop(t)[i]
        BY <2>2, <2>3
      <4>5. i # 0
        BY <4>3, <4>4
      <4>6. i - 1 \in 0 .. last /\ ~(i <= i - 1)
        BY <2>1, <4>3, <4>5
      <4>7. after[i - 1] = t[i - 1]
        BY <4>2, <4>6
      <4>8. QED BY <4>3, <4>4, <4>7
    <3>2. \A i \in 0 .. last : after[i] = t[i]
      BY <3>1
    <3>3. after = [i \in 0 .. last |-> after[i]]
      BY <2>3
    <3>4. QED BY <3>2, <3>3
  <2>5. RowByRow(receipts, p) = after[last]
    BY DEF RowByRow
  <2>6. t[last] = InsertOrIgnore(receipts, p)
    <3>1. {k \in Written(receipts, p) : k <= last} = Written(receipts, p)
      BY <2>1
    <3>2. last \in 0 .. last
      BY <2>1
    <3>3. QED BY <3>1, <3>2 DEF Reached, InsertOrIgnore
  <2>7. QED BY <2>4, <2>5, <2>6
<1>2. QED BY <1>1, TypeCorrect, PTL
=============================================================================
