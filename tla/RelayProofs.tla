---------------------------- MODULE RelayProofs ----------------------------
(***************************************************************************)
(* Theorems about Relay, for every set of batches and any number of        *)
(* restarts.                                                               *)
(*                                                                         *)
(* The invariant ties each harness to the sink: the plan it holds is one   *)
(* the sink handed out for its batch, raw_applied means that the sink has  *)
(* committed that plan, and cursors are planned only then.  It makes each  *)
(* step of Relay a step of Sink or a stutter, so that all that SinkProofs  *)
(* proves holds under Relay; what a sent batch and a cursor stand for then *)
(* follows from the commit that raw_applied stands for.                    *)
(***************************************************************************)
EXTENDS Relay, SinkProofs

CursorPlanLists == Seq({PlanCursor(c) : c \in CursorRequests})

Harnesses ==
  [raw_plan        : plans \cup {Absent},
   raw_applied     : BOOLEAN,
   cursor_plans    : CursorPlanLists,
   cursors_applied : BOOLEAN,
   loop            : {"none", "plan", "apply"},
   done            : Nat]

HarnessOK(b) ==
  LET d == delivery[b]
  IN  /\ d \in Harnesses
      /\ d.raw_plan # Absent => d.raw_plan.request = AppendRequest(b)
      /\ d.raw_applied => d.raw_plan # Absent /\ d.raw_plan \in acked
      /\ d.cursor_plans # <<>> => d.raw_applied
      /\ \A i \in DOMAIN d.cursor_plans :
           /\ i \in DOMAIN b.cursor_updates
           /\ d.cursor_plans[i] = PlanCursor(b.cursor_updates[i])
           /\ d.cursor_plans[i] \in cursor_plans
      /\ d.loop = "plan" => d.done = Len(d.cursor_plans)

DeliveryInv ==
  /\ delivery = [b \in Batches |-> delivery[b]]
  /\ \A b \in Batches : HarnessOK(b)
  /\ acked \cup cursor_acked \subseteq posted
  /\ posted \subseteq plans \cup cursor_plans
  /\ restarts \in 0 .. MaxRestarts
  /\ sent \subseteq Batches
  /\ \A b \in sent : delivery[b].raw_applied

-----------------------------------------------------------------------------
(* Each step of Relay is a step of Sink, or leaves the sink alone. *)
LEMMA StepIsSinkStep ==
  ASSUME DeliveryInv, [RelayNext]_all_vars
  PROVE  [Next]_vars
<1>1. ASSUME NEW b \in Batches, NEW answered \in BOOLEAN, PlanRaw(b, answered)
      PROVE  Next
  BY <1>1, RequestsAreTranslated DEF PlanRaw, Next
<1>2. ASSUME NEW b \in Batches, NEW answered \in BOOLEAN, ApplyRaw(b, answered)
      PROVE  [Next]_vars
  <2>1. delivery[b].raw_plan \in plans
    BY <1>2 DEF ApplyRaw, DeliveryInv, HarnessOK, Harnesses
  <2>2. QED BY <1>2, <2>1 DEF ApplyRaw, Next
<1>3. ASSUME NEW b \in Batches, NEW i \in DOMAIN b.cursor_updates,
             NEW answered \in BOOLEAN, PlanCursors(b, i, answered)
      PROVE  Next
  BY <1>3, RequestsAreTranslated DEF PlanCursors, Next
<1>4. ASSUME NEW b \in Batches, NEW i \in DOMAIN b.cursor_updates,
             NEW answered \in BOOLEAN, ApplyCursors(b, i, answered)
      PROVE  [Next]_vars
  <2>1. delivery[b].cursor_plans[i] \in cursor_plans
    BY <1>4 DEF ApplyCursors, DeliveryInv, HarnessOK
  <2>2. QED BY <1>4, <2>1 DEF ApplyCursors, Next
<1>5. CASE ArriveLate
  BY <1>5 DEF ArriveLate, Next
<1>6. ASSUME NEW b \in Batches, Restart(b) \/ CommitSent(b) PROVE UNCHANGED vars
  BY <1>6 DEF Restart, CommitSent
<1>7. CASE UNCHANGED all_vars
  BY <1>7 DEF all_vars
<1>8. QED BY <1>1, <1>2, <1>3, <1>4, <1>5, <1>6, <1>7 DEF RelayNext

(* The sink forgets no plan and no commit. *)
LEMMA SinkRemembers ==
  ASSUME [Next]_vars
  PROVE  plans \subseteq plans' /\ acked \subseteq acked' /\ cursor_plans \subseteq cursor_plans'
BY DEF Next, vars, PlanAppendRawEvents, ApplyIngestPlan, PlanSourceCursorUpsert,
       ApplySourceCursorPlan, ledger_vars, cursor_vars

(* A harness a step does not touch stays as it should be. *)
LEMMA OtherHarnessStays ==
  ASSUME NEW b, HarnessOK(b), delivery'[b] = delivery[b],
         plans \subseteq plans', acked \subseteq acked',
         cursor_plans \subseteq cursor_plans'
  PROVE  HarnessOK(b)'
BY DEF HarnessOK, Harnesses

(* So do all, if the one the step moves does. *)
LEMMA HarnessesStay ==
  ASSUME DeliveryInv, [Next]_vars, NEW b,
         \A c \in Batches \ {b} : delivery'[c] = delivery[c],
         b \in Batches => HarnessOK(b)'
  PROVE  \A c \in Batches : HarnessOK(c)'
BY SinkRemembers, OtherHarnessStays DEF DeliveryInv

(* An answered raw plan. *)
LEMMA PlanRawKeeps ==
  ASSUME DeliveryInv, [Next]_vars,
         NEW b \in Batches, NEW answered \in BOOLEAN, PlanRaw(b, answered)
  PROVE  DeliveryInv'
<1> DEFINE r == AppendRequest(b)
           plan == PlanAppend(r, ExistingKeys(Candidates(r)))
<1>1. /\ delivery' = [c \in Batches |-> delivery'[c]]
      /\ \A c \in Batches \ {b} : delivery'[c] = delivery[c]
      /\ delivery'[b] = IF answered THEN [delivery[b] EXCEPT !.raw_plan = plan]
                                    ELSE delivery[b]
  BY DEF PlanRaw, DeliveryInv
<1>2. plan \in plans' /\ plan.request = AppendRequest(b)
  BY DEF PlanRaw, PlanAppendRawEvents, PlanAppend
<1>3. HarnessOK(b) /\ delivery[b].raw_plan = Absent
  BY DEF PlanRaw, DeliveryInv
<1>4. UNCHANGED <<acked, cursor_plans, cursor_acked, posted, restarts, sent>>
  BY DEF PlanRaw, PlanAppendRawEvents, cursor_vars
<1>5. HarnessOK(b)'
  <2>1. CASE ~answered
    BY <1>1, <1>3, <2>1, SinkRemembers, OtherHarnessStays
  <2>2. CASE answered
    <3> HIDE DEF plan
    <3>1. delivery'[b] = [delivery[b] EXCEPT !.raw_plan = plan]
      BY <1>1, <2>2
    <3>2. ~delivery[b].raw_applied /\ delivery[b] \in Harnesses
      BY <1>3 DEF HarnessOK
    <3>3. /\ delivery'[b] \in Harnesses'
          /\ delivery'[b].raw_plan = plan
          /\ ~delivery'[b].raw_applied
          /\ delivery'[b].cursor_plans = delivery[b].cursor_plans
          /\ delivery'[b].loop = delivery[b].loop
          /\ delivery'[b].done = delivery[b].done
      BY <1>2, <3>1, <3>2 DEF Harnesses
    <3>4. QED BY <1>2, <1>3, <1>4, <3>2, <3>3 DEF HarnessOK
  <2>3. QED BY <2>1, <2>2
<1>6. \A c \in Batches : delivery'[c].raw_applied = delivery[c].raw_applied
  BY <1>1, <1>3 DEF HarnessOK, Harnesses
<1>7. QED BY <1>1, <1>4, <1>5, <1>6, HarnessesStay, SinkRemembers DEF DeliveryInv

(* A posted raw apply, answered or not. *)
LEMMA ApplyRawKeeps ==
  ASSUME DeliveryInv, [Next]_vars,
         NEW b \in Batches, NEW answered \in BOOLEAN, ApplyRaw(b, answered)
  PROVE  DeliveryInv'
<1>1. /\ delivery' = [c \in Batches |-> delivery'[c]]
      /\ \A c \in Batches \ {b} : delivery'[c] = delivery[c]
      /\ delivery'[b] = IF answered THEN [delivery[b] EXCEPT !.raw_applied = TRUE]
                                    ELSE delivery[b]
  BY DEF ApplyRaw, DeliveryInv
<1>2. /\ HarnessOK(b)
      /\ delivery[b].raw_plan # Absent
      /\ delivery[b].raw_plan \in plans
  BY DEF ApplyRaw, DeliveryInv, HarnessOK, Harnesses
<1>3. /\ acked' = IF answered THEN acked \cup {delivery[b].raw_plan} ELSE acked
      /\ UNCHANGED <<plans, cursor_plans, cursor_acked, restarts, sent>>
      /\ posted' = posted \cup {delivery[b].raw_plan}
  BY DEF ApplyRaw, ApplyIngestPlan, vars, cursor_vars
<1>4. HarnessOK(b)'
  <2>1. CASE ~answered
    BY <1>1, <1>2, <2>1, SinkRemembers, OtherHarnessStays
  <2>2. CASE answered
    <3>1. delivery'[b] = [delivery[b] EXCEPT !.raw_applied = TRUE]
      BY <1>1, <2>2
    <3>2. delivery[b] \in Harnesses
      BY <1>2 DEF HarnessOK
    <3>3. /\ delivery'[b] \in Harnesses'
          /\ delivery'[b].raw_plan = delivery[b].raw_plan
          /\ delivery'[b].raw_applied
          /\ delivery'[b].cursor_plans = delivery[b].cursor_plans
          /\ delivery'[b].loop = delivery[b].loop
          /\ delivery'[b].done = delivery[b].done
      BY <1>3, <3>1, <3>2 DEF Harnesses
    <3>4. delivery[b].raw_plan \in acked'
      BY <1>3, <2>2
    <3>5. QED BY <1>2, <1>3, <3>3, <3>4 DEF HarnessOK
  <2>3. QED BY <2>1, <2>2
<1>5. \A c \in Batches : delivery[c].raw_applied => delivery'[c].raw_applied
  BY <1>1, <1>2 DEF HarnessOK, Harnesses
<1>6. QED BY <1>1, <1>2, <1>3, <1>4, <1>5, HarnessesStay DEF DeliveryInv

(* One call of the loop over the cursor requests: an answered plan is that *)
(* of the i-th request and stands at the i-th place.                       *)
LEMMA PlanCursorsKeeps ==
  ASSUME DeliveryInv, [Next]_vars, NEW b \in Batches,
         NEW i \in DOMAIN b.cursor_updates, NEW answered \in BOOLEAN,
         PlanCursors(b, i, answered)
  PROVE  DeliveryInv'
<1> DEFINE d == delivery[b]
           e == delivery'[b]
           plan == PlanCursor(b.cursor_updates[i])
           before == PlansBefore(b, i)
           last == i = Len(b.cursor_updates)
<1>1. /\ delivery' = [c \in Batches |-> delivery'[c]]
      /\ \A c \in Batches \ {b} : delivery'[c] = delivery[c]
  BY DEF PlanCursors, DeliveryInv
<1>2. d \in Harnesses /\ HarnessOK(b) /\ d.raw_applied
  BY DEF PlanCursors, CursorsMayBePlanned, DeliveryInv, HarnessOK
<1>3. /\ UNCHANGED <<plans, acked, cursor_acked, posted, restarts, sent>>
      /\ cursor_plans' = cursor_plans \cup {plan}
      /\ b.cursor_updates[i] \in CursorRequests
  BY RequestsAreTranslated DEF PlanCursors, PlanSourceCursorUpsert, ledger_vars
<1>4. /\ i = Len(before) + 1
      /\ before \in CursorPlanLists
      /\ \A j \in DOMAIN before :
           /\ j \in DOMAIN b.cursor_updates
           /\ before[j] = PlanCursor(b.cursor_updates[j])
           /\ before[j] \in cursor_plans
  <2>1. CASE i = 1
    BY <2>1 DEF PlansBefore, CursorPlanLists
  <2>2. CASE i # 1
    <3>1. d.loop = "plan" /\ i = d.done + 1 /\ before = d.cursor_plans
      BY <2>2 DEF PlanCursors, PlansBefore
    <3>2. QED BY <1>2, <3>1 DEF HarnessOK, Harnesses
  <2>3. QED BY <2>1, <2>2
<1>5. e = [d EXCEPT !.cursor_plans = IF answered THEN Append(before, plan) ELSE before,
                    !.loop = IF answered /\ ~last THEN "plan" ELSE "none",
                    !.done = IF answered /\ ~last THEN i ELSE 0]
  BY DEF PlanCursors, DeliveryInv
<1>6. /\ i \in Nat
      /\ Append(before, plan) \in CursorPlanLists
      /\ Len(Append(before, plan)) = i
      /\ \A j \in DOMAIN Append(before, plan) :
           \/ j \in DOMAIN before /\ Append(before, plan)[j] = before[j]
           \/ j = i /\ Append(before, plan)[j] = plan
  BY <1>3, <1>4 DEF CursorPlanLists
<1>7. HarnessOK(b)'
  <2> HIDE DEF plan, before, last
  <2>1. /\ e \in Harnesses'
        /\ e.raw_plan = d.raw_plan
        /\ e.raw_applied = d.raw_applied
        /\ e.cursor_plans = IF answered THEN Append(before, plan) ELSE before
        /\ e.loop = IF answered /\ ~last THEN "plan" ELSE "none"
        /\ e.done = IF answered /\ ~last THEN i ELSE 0
    <3> DEFINE list == IF answered THEN Append(before, plan) ELSE before
               loop == IF answered /\ ~last THEN "plan" ELSE "none"
               n == IF answered /\ ~last THEN i ELSE 0
    <3>1. /\ list \in CursorPlanLists /\ loop \in {"none", "plan", "apply"}
          /\ n \in Nat
      BY <1>4, <1>6
    <3>2. e = [d EXCEPT !.cursor_plans = list, !.loop = loop, !.done = n]
      BY <1>5
    <3>3. d \in Harnesses /\ plans \subseteq plans'
      BY <1>2, <1>3
    <3> HIDE DEF list, loop, n, d, e
    <3>4. /\ e \in Harnesses' /\ e.raw_plan = d.raw_plan
          /\ e.raw_applied = d.raw_applied
          /\ e.cursor_plans = list /\ e.loop = loop /\ e.done = n
      BY <3>1, <3>2, <3>3 DEF Harnesses
    <3>5. QED BY <3>4 DEF list, loop, n
  <2>2. \A j \in DOMAIN e.cursor_plans :
          /\ j \in DOMAIN b.cursor_updates
          /\ e.cursor_plans[j] = PlanCursor(b.cursor_updates[j])
          /\ e.cursor_plans[j] \in cursor_plans'
    BY <1>3, <1>4, <1>6, <2>1 DEF plan
  <2>3. e.loop = "plan" => e.done = Len(e.cursor_plans)
    BY <1>6, <2>1
  <2>4. QED BY <1>2, <1>3, <2>1, <2>2, <2>3 DEF HarnessOK
<1>8. \A c \in Batches : delivery'[c].raw_applied = delivery[c].raw_applied
  BY <1>1, <1>2, <1>5 DEF Harnesses
<1>9. QED BY <1>1, <1>3, <1>7, <1>8, HarnessesStay DEF DeliveryInv

(* One call of the loop over the cursor plans, answered or not. *)
LEMMA ApplyCursorsKeeps ==
  ASSUME DeliveryInv, [Next]_vars, NEW b \in Batches,
         NEW i \in DOMAIN b.cursor_updates, NEW answered \in BOOLEAN,
         ApplyCursors(b, i, answered)
  PROVE  DeliveryInv'
<1> DEFINE d == delivery[b]
           e == delivery'[b]
           last == i = Len(d.cursor_plans)
<1>1. /\ delivery' = [c \in Batches |-> delivery'[c]]
      /\ \A c \in Batches \ {b} : delivery'[c] = delivery[c]
  BY DEF ApplyCursors, DeliveryInv
<1>2. /\ d \in Harnesses /\ HarnessOK(b)
      /\ i \in DOMAIN d.cursor_plans
      /\ d.cursor_plans[i] \in cursor_plans
  BY DEF ApplyCursors, DeliveryInv, HarnessOK
<1>3. /\ UNCHANGED <<plans, acked, cursor_plans, restarts, sent>>
      /\ cursor_acked' \subseteq cursor_acked \cup {d.cursor_plans[i]}
      /\ posted' = posted \cup {d.cursor_plans[i]}
  BY DEF ApplyCursors, ApplySourceCursorPlan, ledger_vars, vars
<1>4. e = [d EXCEPT !.cursors_applied = @ \/ (answered /\ last),
                    !.loop = IF answered /\ ~last THEN "apply" ELSE "none",
                    !.done = IF answered /\ ~last THEN i ELSE 0]
  BY DEF ApplyCursors, DeliveryInv
<1>5. i \in Nat
  BY <1>2 DEF Harnesses, CursorPlanLists
<1>6. HarnessOK(b)'
  <2> HIDE DEF last
  <2>1. /\ e \in Harnesses'
        /\ e.raw_plan = d.raw_plan
        /\ e.raw_applied = d.raw_applied
        /\ e.cursor_plans = d.cursor_plans
        /\ e.loop # "plan"
    <3> DEFINE applied == d.cursors_applied \/ (answered /\ last)
               loop == IF answered /\ ~last THEN "apply" ELSE "none"
               n == IF answered /\ ~last THEN i ELSE 0
    <3>1. /\ applied \in BOOLEAN /\ loop \in {"none", "plan", "apply"}
          /\ loop # "plan" /\ n \in Nat
      BY <1>5
    <3>2. e = [d EXCEPT !.cursors_applied = applied, !.loop = loop, !.done = n]
      BY <1>4
    <3>3. d \in Harnesses /\ plans \subseteq plans'
      BY <1>2, <1>3
    <3> HIDE DEF applied, loop, n, d, e
    <3>4. QED BY <3>1, <3>2, <3>3 DEF Harnesses
  <2>2. QED BY <1>2, <1>3, <2>1 DEF HarnessOK
<1>7. \A c \in Batches : delivery'[c].raw_applied = delivery[c].raw_applied
  BY <1>1, <1>2, <1>4 DEF Harnesses
<1>8. QED BY <1>1, <1>2, <1>3, <1>6, <1>7, HarnessesStay DEF DeliveryInv

-----------------------------------------------------------------------------
(* No step of Relay or of the network breaks the invariant. *)
LEMMA StepKeepsDelivery ==
  ASSUME DeliveryInv, [RelayNext]_all_vars
  PROVE  DeliveryInv'
<1>1. [Next]_vars
  BY StepIsSinkStep
<1>2. ASSUME NEW b \in Batches, Restart(b) PROVE DeliveryInv'
  <2>1. /\ delivery' = [c \in Batches |-> delivery'[c]]
        /\ \A c \in Batches \ {b} : delivery'[c] = delivery[c]
        /\ delivery'[b] = Harness
        /\ b \notin sent
    BY <1>2 DEF Restart, DeliveryInv
  <2>2. /\ UNCHANGED <<vars, posted, sent>>
        /\ restarts' \in 0 .. MaxRestarts
    BY <1>2, RestartsAreCounted DEF Restart, DeliveryInv
  <2>3. HarnessOK(b)'
    <3>1. Harness \in Harnesses' /\ DOMAIN Harness.cursor_plans = {}
      BY DEF Harness, Harnesses, CursorPlanLists
    <3>2. QED BY <2>1, <3>1 DEF HarnessOK, Harness
  <2>4. QED BY <1>1, <2>1, <2>2, <2>3, HarnessesStay DEF DeliveryInv, vars
<1>3. ASSUME NEW b \in Batches, CommitSent(b) PROVE DeliveryInv'
  BY <1>3 DEF CommitSent, CommitAllowed, DeliveryInv, vars, HarnessOK, Harnesses
<1>4. CASE ArriveLate
  <2>1. /\ UNCHANGED relay_vars
        /\ acked' \cup cursor_acked' \subseteq acked \cup cursor_acked \cup posted
    BY <1>4 DEF ArriveLate, ApplyIngestPlan, ApplySourceCursorPlan, ledger_vars,
                cursor_vars
  <2>2. \A b \in Batches : HarnessOK(b)'
    BY <1>1, <2>1, SinkRemembers, OtherHarnessStays DEF relay_vars, DeliveryInv
  <2>3. QED BY <1>1, <2>1, <2>2, SinkRemembers DEF relay_vars, DeliveryInv
<1>5. CASE UNCHANGED all_vars
  BY <1>5 DEF all_vars, relay_vars, vars, DeliveryInv, HarnessOK, Harnesses
<1>6. QED
  BY <1>1, <1>2, <1>3, <1>4, <1>5, PlanRawKeeps, ApplyRawKeeps, PlanCursorsKeeps,
     ApplyCursorsKeeps
  DEF RelayNext

LEMMA DeliveryHolds == RelaySpec => []DeliveryInv
<1>1. RelayInit => DeliveryInv
  <2> SUFFICES ASSUME RelayInit PROVE DeliveryInv
    OBVIOUS
  <2>1. Harness \in Harnesses /\ DOMAIN Harness.cursor_plans = {}
    BY DEF Harness, Harnesses, CursorPlanLists
  <2>2. \A b \in Batches : HarnessOK(b)
    BY <2>1 DEF RelayInit, HarnessOK, Harness
  <2>3. QED BY <2>2, RestartsAreCounted DEF RelayInit, Init, DeliveryInv
<1>2. DeliveryInv /\ [RelayNext]_all_vars => DeliveryInv'
  BY StepKeepsDelivery
<1>3. QED BY <1>1, <1>2, PTL DEF RelaySpec

(* Whatever Relay and the network do is a behaviour of the sink, so that   *)
(* every theorem about the sink holds under Relay.                         *)
THEOREM RelayImplementsSink == RelaySpec => Spec
<1>1. RelayInit => Init
  BY DEF RelayInit
<1>2. DeliveryInv /\ [RelayNext]_all_vars => [Next]_vars
  BY StepIsSinkStep
<1>3. QED BY <1>1, <1>2, DeliveryHolds, PTL DEF RelaySpec, Spec

-----------------------------------------------------------------------------
(* What Relay takes for planned, applied or posted is so in the sink,      *)
(* whatever was lost, late, repeated or started over.                      *)
THEOREM RelayTypeCorrect == RelaySpec => []RelayTypeOK
<1>1. DeliveryInv /\ TypeOK => RelayTypeOK
  <2> SUFFICES ASSUME DeliveryInv, TypeOK, NEW b \in Batches
               PROVE  LET d == delivery[b]
                      IN  /\ d.raw_plan # Absent => d.raw_plan \in plans
                          /\ d.raw_applied => d.raw_plan \in acked
                          /\ \A i \in DOMAIN d.cursor_plans :
                               /\ i \in DOMAIN b.cursor_updates
                               /\ d.cursor_plans[i] = PlanCursor(b.cursor_updates[i])
                          /\ d.loop \in {"none", "plan", "apply"}
                          /\ d.loop = "plan" => d.done = Len(d.cursor_plans)
    BY DEF RelayTypeOK, DeliveryInv
  <2>1. HarnessOK(b)
    BY DEF DeliveryInv
  <2>2. QED BY <2>1 DEF HarnessOK, Harnesses
<1>2. QED BY <1>1, DeliveryHolds, RelayImplementsSink, TypeCorrect, PTL

(* If the sink has no other client than Relay, receipt ids separate keys:  *)
(* no packet brings a key of its own, and the content hash, which is in    *)
(* both hashes, is taken over the payload, which names the session kind.   *)
RelayIsOnlyClient == Requests \subseteq {AppendRequest(b) : b \in Batches}

LEMMA TranslationSeparates ==
  ASSUME RelayIsOnlyClient
  PROVE  ReceiptIdsSeparate
<1> SUFFICES ASSUME NEW r \in Requests, NEW s \in Requests,
                    NEW i \in Positions(r), NEW j \in Positions(s),
                    ReceiptId(r, i) = ReceiptId(s, j)
             PROVE  DedupeKey(r, i) = DedupeKey(s, j)
  BY DEF ReceiptIdsSeparate
<1>1. ASSUME NEW q \in Requests, NEW k \in Positions(q)
      PROVE  \E p : q.events[k] = TranslatePacket(p)
  <2>1. PICK b \in Batches : q = AppendRequest(b)
    BY DEF RelayIsOnlyClient
  <2>2. q.events = [x \in DOMAIN b.packets |-> TranslatePacket(b.packets[x])]
    BY <2>1 DEF AppendRequest
  <2>3. QED BY <2>2 DEF Positions
<1>2. PICK p, q : r.events[i] = TranslatePacket(p) /\ s.events[j] = TranslatePacket(q)
  BY <1>1
<1>3. /\ r.producer = s.producer
      /\ r.events[i].session_key = s.events[j].session_key
      /\ r.events[i].entry_key = s.events[j].entry_key
      /\ r.events[i].event_kind = s.events[j].event_kind
      /\ r.events[i].observed_at = s.events[j].observed_at
      /\ r.events[i].content_hash = s.events[j].content_hash
  BY DEF ReceiptId
<1>4. r.events[i].session_kind = s.events[j].session_kind
  <2>1. ContentHash(p) = ContentHash(q)
    BY <1>2, <1>3 DEF TranslatePacket
  <2>2. p.payload = q.payload
    BY <2>1 DEF ContentHash
  <2>3. QED BY <1>2, <2>2 DEF TranslatePacket, SessionKind
<1>5. r.events[i].dedupe_key = Absent /\ s.events[j].dedupe_key = Absent
  BY <1>2 DEF TranslatePacket
<1>6. QED BY <1>3, <1>4, <1>5 DEF DedupeKey

(* A harness that takes its raw plan for applied has its batch on record.  *)
LEMMA AppliedIsRecorded ==
  ASSUME DeliveryInv, AllAckedRecorded, NEW b \in Batches, delivery[b].raw_applied
  PROVE  BatchRecorded(b)
<1>1. delivery[b].raw_plan \in acked /\ delivery[b].raw_plan.request = AppendRequest(b)
  BY DEF DeliveryInv, HarnessOK
<1>2. \A i \in Positions(AppendRequest(b)) : Recorded(AppendRequest(b), i)
  BY <1>1 DEF AllAckedRecorded
<1>3. Positions(AppendRequest(b)) = DOMAIN b.packets
  BY DEF AppendRequest, Positions
<1>4. QED BY <1>2, <1>3 DEF BatchRecorded

(* No batch is committed as sent before all of its events are on record,   *)
(* each under its own key.                                                 *)
THEOREM SentBatchesAreOnRecord ==
  ASSUME RelayIsOnlyClient
  PROVE  RelaySpec => []SentIsRecorded
<1>1. DeliveryInv /\ AllAckedRecorded => SentIsRecorded
  BY AppliedIsRecorded DEF SentIsRecorded, DeliveryInv
<1>2. Spec => []AllAckedRecorded
  BY TranslationSeparates, SeparateMeansRecorded
<1>3. QED BY <1>1, <1>2, DeliveryHolds, RelayImplementsSink, PTL

-----------------------------------------------------------------------------
(* A batch on record stays on record. *)
LEMMA RecordedStays ==
  ASSUME [Next]_vars, NEW b, BatchRecorded(b)
  PROVE  BatchRecorded(b)'
<1>1. receipts \subseteq receipts'
  BY StepOnlyGrows
<1>2. QED BY <1>1 DEF BatchRecorded, Recorded

(* Where a cursor plan that is on its way comes from: a batch on record.   *)
CursorOfRecordedBatch(q) ==
  \E b \in Batches :
    /\ \E i \in DOMAIN b.cursor_updates : q = PlanCursor(b.cursor_updates[i])
    /\ BatchRecorded(b)

PostedCursorsInv ==
  \A q \in posted : q \in cursor_plans /\ q \notin plans => CursorOfRecordedBatch(q)

(* The plan of a batch is not the plan of a cursor. *)
LEMMA PlansDiffer ==
  ASSUME TypeOK, NEW p \in plans, NEW q \in cursor_plans
  PROVE  p # q
<1>1. PICK r, existing : p = PlanAppend(r, existing)
  BY DEF TypeOK
<1>2. PICK c : q = PlanCursor(c)
  BY DEF TypeOK
<1>3. DOMAIN p = {"request", "receipts", "skipped"}
  BY <1>1 DEF PlanAppend
<1>4. DOMAIN q = {"key", "value", "updated_at"}
  BY <1>2 DEF PlanCursor
<1>5. QED BY <1>3, <1>4

LEMMA StepKeepsPosted ==
  ASSUME DeliveryInv, AllAckedRecorded, PostedCursorsInv, [RelayNext]_all_vars
  PROVE  PostedCursorsInv'
<1>1. [Next]_vars
  BY StepIsSinkStep
<1>2. plans \subseteq plans'
  BY <1>1, SinkRemembers
<1>3. ASSUME NEW q, CursorOfRecordedBatch(q) PROVE CursorOfRecordedBatch(q)'
  BY <1>1, <1>3, RecordedStays DEF CursorOfRecordedBatch
<1>4. ASSUME NEW q \in posted, q \in cursor_plans', q \notin plans'
      PROVE  CursorOfRecordedBatch(q)'
  <2>1. q \in cursor_plans /\ q \notin plans
    BY <1>2, <1>4 DEF DeliveryInv
  <2>2. CursorOfRecordedBatch(q)
    BY <1>4, <2>1 DEF PostedCursorsInv
  <2>3. QED BY <1>3, <2>2
<1>5. CASE posted' = posted
  BY <1>4, <1>5 DEF PostedCursorsInv
<1>6. ASSUME NEW b \in Batches, NEW answered \in BOOLEAN, ApplyRaw(b, answered)
      PROVE  PostedCursorsInv'
  <2>1. posted' = posted \cup {delivery[b].raw_plan} /\ delivery[b].raw_plan \in plans
    BY <1>6 DEF ApplyRaw, DeliveryInv, HarnessOK, Harnesses
  <2>2. QED BY <1>2, <1>4, <2>1 DEF PostedCursorsInv
<1>7. ASSUME NEW b \in Batches, NEW i \in DOMAIN b.cursor_updates,
             NEW answered \in BOOLEAN, ApplyCursors(b, i, answered)
      PROVE  PostedCursorsInv'
  <2>1. /\ i \in DOMAIN delivery[b].cursor_plans
        /\ delivery[b].cursor_plans[i] = PlanCursor(b.cursor_updates[i])
        /\ posted' = posted \cup {delivery[b].cursor_plans[i]}
    BY <1>7 DEF ApplyCursors, DeliveryInv, HarnessOK
  <2>2. delivery[b].raw_applied
    BY <2>1 DEF DeliveryInv, HarnessOK
  <2>3. BatchRecorded(b)
    BY <2>2, AppliedIsRecorded
  <2>4. CursorOfRecordedBatch(delivery[b].cursor_plans[i])
    BY <2>1, <2>3 DEF CursorOfRecordedBatch
  <2>5. CursorOfRecordedBatch(PlanCursor(b.cursor_updates[i]))'
    <3>1. PICK c \in Batches :
            /\ \E j \in DOMAIN c.cursor_updates :
                 PlanCursor(b.cursor_updates[i]) = PlanCursor(c.cursor_updates[j])
            /\ BatchRecorded(c)
      BY <2>1, <2>4 DEF CursorOfRecordedBatch
    <3>2. BatchRecorded(c)'
      BY <1>1, <3>1, RecordedStays
    <3>3. QED BY <3>1, <3>2 DEF CursorOfRecordedBatch
  <2>6. QED BY <1>4, <2>1, <2>5 DEF PostedCursorsInv
<1>8. ASSUME NEW b \in Batches, NEW answered \in BOOLEAN, NEW i
      PROVE  /\ PlanRaw(b, answered) => posted' = posted
             /\ PlanCursors(b, i, answered) => posted' = posted
             /\ Restart(b) \/ CommitSent(b) => posted' = posted
  BY DEF PlanRaw, PlanCursors, Restart, CommitSent
<1>9. ArriveLate \/ UNCHANGED all_vars => posted' = posted
  BY DEF ArriveLate, relay_vars, all_vars
<1>10. QED BY <1>5, <1>6, <1>7, <1>8, <1>9 DEF RelayNext

(* No cursor is ahead of the ledger, however late its upsert arrives: it   *)
(* was posted only when its batch was on record, and the ledger only grows. *)
THEOREM CursorStaysBehind ==
  ASSUME RelayIsOnlyClient
  PROVE  RelaySpec => []CursorBehindLedger
<1>1. RelayInit => PostedCursorsInv
  BY DEF RelayInit, PostedCursorsInv
<1>2. DeliveryInv /\ AllAckedRecorded /\ PostedCursorsInv /\ [RelayNext]_all_vars
        => PostedCursorsInv'
  BY StepKeepsPosted
<1>3. DeliveryInv /\ TypeOK /\ PostedCursorsInv => CursorBehindLedger
  <2> SUFFICES ASSUME DeliveryInv, TypeOK, PostedCursorsInv,
                      NEW k \in CursorKeys, source_cursor[k] # Absent
               PROVE  CursorOfRecordedBatch(source_cursor[k])
    BY DEF CursorBehindLedger, CursorOfRecordedBatch
  <2>1. source_cursor[k] \in cursor_acked
    BY DEF TypeOK
  <2>2. source_cursor[k] \in cursor_plans /\ source_cursor[k] \in posted
    BY <2>1 DEF TypeOK, DeliveryInv
  <2>3. source_cursor[k] \notin plans
    BY <2>2, PlansDiffer
  <2>4. QED BY <2>2, <2>3 DEF PostedCursorsInv
<1>4. Spec => []AllAckedRecorded
  BY TranslationSeparates, SeparateMeansRecorded
<1>5. QED BY <1>1, <1>2, <1>3, <1>4, DeliveryHolds, RelayImplementsSink, TypeCorrect,
             PTL DEF RelaySpec

-----------------------------------------------------------------------------
(* A batch of Relay's whose apply has committed is planned again to        *)
(* nothing, as its retries rely on (docs/RELAY_INTEROP.md:107).            *)
THEOREM RelayReplansNothing ==
  ASSUME RelayIsOnlyClient
  PROVE  RelaySpec => []ReplanIsEmpty
BY TranslationSeparates, RelayImplementsSink, ReplanIsNoOp, PTL

(* What Relay and the network make of the ledger is the abstract ledger.   *)
THEOREM RelayImplementsLedger ==
  ASSUME RelayIsOnlyClient
  PROVE  RelaySpec => LedgerSpec
BY TranslationSeparates, RelayImplementsSink, SinkImplementsLedger, PTL
=============================================================================
