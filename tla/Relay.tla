-------------------------------- MODULE Relay --------------------------------
(***************************************************************************)
(* The delivery of batches by Relay through the sink, as the harness of    *)
(* axiomsync-cli tests/relay_interop.rs performs it and                    *)
(* docs/RELAY_INTEROP.md describes it: plan and apply the raw events, then *)
(* plan and apply the source cursors, then commit the batch as sent.       *)
(*                                                                         *)
(* An apply that is not answered may have been lost, may have committed,   *)
(* or may still reach the store, once or more, at any later time.  Relay   *)
(* may restart, and then delivers what is not committed from the start.    *)
(***************************************************************************)
EXTENDS Sink

CONSTANTS
  Batches,     \* the RelayPacketBatches to deliver
  MaxRestarts  \* bound: how often a delivery is started over

VARIABLES
  delivery,  \* [Batches -> the RelayHarness of the batch]
  posted,    \* the plans whose apply has been posted
  restarts,  \* the number of deliveries started over
  sent       \* the batches committed as sent

relay_vars == <<delivery, posted, restarts, sent>>
all_vars == <<vars, relay_vars>>

(***************************************************************************)
(* translate_batch, and what the sink makes of its events.  The payload of *)
(* a packet is a record of the session_kind it names, if any, and the rest *)
(* of what it says.  An event names neither a session kind nor a content   *)
(* hash of its own: the sink takes the kind of the payload, or else a      *)
(* thread, and hashes the payload, in which the translation has put the    *)
(* packet's id.                                                            *)
(***************************************************************************)

(* Faulty: a hash of what is said, without the id and the session kind.    *)
HashOfRest(p) == <<p.payload.rest>>

ContentHash(p) == <<p.packet_id, p.payload>>

SessionKind(p) ==
  IF p.payload.session_kind # Absent THEN p.payload.session_kind ELSE "thread"

TranslatePacket(p) ==
  [connector    |-> p.connector,
   session_kind |-> SessionKind(p),
   session_key  |-> p.native_session_id,
   entry_key    |-> IF p.native_event_id # Absent THEN p.native_event_id
                                                  ELSE p.native_entry_id,
   event_kind   |-> p.event_type,
   observed_at  |-> IF HasDate(p.observed_at_ms) THEN p.observed_at_ms ELSE Absent,
   captured_at  |-> p.observed_at_ms,
   content_hash |-> ContentHash(p),
   dedupe_key   |-> Absent,
   artifacts    |-> {}]

AppendRequest(b) ==
  [batch_id |-> b.batch_id, producer |-> b.producer,
   received_at_ms |-> b.received_at_ms,
   events   |-> [i \in DOMAIN b.packets |-> TranslatePacket(b.packets[i])]]

ASSUME RestartsAreCounted == MaxRestarts \in Nat

ASSUME RequestsAreTranslated ==
  \A b \in Batches :
    /\ AppendRequest(b) \in Requests
    /\ \A i \in DOMAIN b.cursor_updates : b.cursor_updates[i] \in CursorRequests

-----------------------------------------------------------------------------
(* A RelayHarness.  loop is what a loop over the cursors is busy with, and *)
(* done how many of its calls have been answered.                          *)
Harness ==
  [raw_plan        |-> Absent,
   raw_applied     |-> FALSE,
   cursor_plans    |-> <<>>,
   cursors_applied |-> FALSE,
   loop            |-> "none",
   done            |-> 0]

RelayInit ==
  /\ Init
  /\ delivery = [b \in Batches |-> Harness]
  /\ posted = {}
  /\ restarts = 0
  /\ sent = {}

Free(b) == b \notin sent /\ delivery[b].loop = "none"

(* A call that is not answered leaves an error and the harness as it was.  *)
PlanRaw(b, answered) ==
  /\ Free(b)
  /\ delivery[b].raw_plan = Absent
  /\ PlanAppendRawEvents(AppendRequest(b))
  /\ delivery' =
       IF answered
       THEN [delivery EXCEPT ![b].raw_plan =
               PlanAppend(AppendRequest(b), ExistingKeys(Candidates(AppendRequest(b))))]
       ELSE delivery
  /\ UNCHANGED <<posted, restarts, sent>>

(* Faulty: an error of the call goes unnoticed. *)
ApplyRawUnchecked(b, answered) ==
  /\ Free(b)
  /\ delivery[b].raw_plan # Absent
  /\ posted' = posted \cup {delivery[b].raw_plan}
  /\ IF answered THEN ApplyIngestPlan(delivery[b].raw_plan) ELSE UNCHANGED vars
  /\ delivery' = [delivery EXCEPT ![b].raw_applied = TRUE]
  /\ UNCHANGED <<restarts, sent>>

ApplyRaw(b, answered) ==
  /\ Free(b)
  /\ delivery[b].raw_plan # Absent
  /\ posted' = posted \cup {delivery[b].raw_plan}
  /\ IF answered
     THEN /\ ApplyIngestPlan(delivery[b].raw_plan)
          /\ delivery' = [delivery EXCEPT ![b].raw_applied = TRUE]
     ELSE UNCHANGED <<vars, delivery>>
  /\ UNCHANGED <<restarts, sent>>

(* Faulty: the raw events need not be applied; the plans are not cleared.  *)
IsPlanned(b) == delivery[b].raw_plan # Absent
PlansKept(b, i) == delivery[b].cursor_plans

CursorsMayBePlanned(b) == delivery[b].raw_applied

PlansBefore(b, i) == IF i = 1 THEN <<>> ELSE delivery[b].cursor_plans

(* plan_cursors: the i-th request.  The first call clears the plans, and   *)
(* an error ends the loop and leaves the plans answered so far.            *)
PlanCursors(b, i, answered) ==
  LET d == delivery[b]
      last == i = Len(b.cursor_updates)
  IN  /\ b \notin sent
      /\ CursorsMayBePlanned(b)
      /\ \/ d.loop = "none" /\ i = 1
         \/ d.loop = "plan" /\ i = d.done + 1
      /\ PlanSourceCursorUpsert(b.cursor_updates[i])
      /\ delivery' =
           [delivery EXCEPT
              ![b].cursor_plans = IF answered
                                  THEN Append(PlansBefore(b, i), PlanCursor(b.cursor_updates[i]))
                                  ELSE PlansBefore(b, i),
              ![b].loop = IF answered /\ ~last THEN "plan" ELSE "none",
              ![b].done = IF answered /\ ~last THEN i ELSE 0]
      /\ UNCHANGED <<posted, restarts, sent>>

(* apply_cursors: the i-th plan.  An error ends the loop. *)
ApplyCursors(b, i, answered) ==
  LET d == delivery[b]
      last == i = Len(d.cursor_plans)
  IN  /\ b \notin sent
      /\ i \in DOMAIN d.cursor_plans
      /\ \/ d.loop = "none" /\ i = 1
         \/ d.loop = "apply" /\ i = d.done + 1
      /\ posted' = posted \cup {d.cursor_plans[i]}
      /\ IF answered THEN ApplySourceCursorPlan(d.cursor_plans[i])
                     ELSE UNCHANGED vars
      /\ delivery' =
           [delivery EXCEPT
              ![b].cursors_applied = @ \/ (answered /\ last),
              ![b].loop = IF answered /\ ~last THEN "apply" ELSE "none",
              ![b].done = IF answered /\ ~last THEN i ELSE 0]
      /\ UNCHANGED <<restarts, sent>>

(* A posted apply reaches the store late, or once more. *)
ArriveLate ==
  /\ \/ \E plan \in posted \cap plans : ApplyIngestPlan(plan)
     \/ \E plan \in posted \cap cursor_plans : ApplySourceCursorPlan(plan)
  /\ UNCHANGED relay_vars

(* Relay loses the harness of a batch and builds a new one. *)
Restart(b) ==
  /\ b \notin sent
  /\ restarts < MaxRestarts
  /\ delivery' = [delivery EXCEPT ![b] = Harness]
  /\ restarts' = restarts + 1
  /\ UNCHANGED <<vars, posted, sent>>

(* Faulty: asks for a counter that the end of the loop has reset. *)
LoopIsDone(b) == delivery[b].done = Len(delivery[b].cursor_plans)
                   /\ delivery[b].raw_applied /\ delivery[b].cursors_applied

CommitAllowed(b) == delivery[b].raw_applied /\ delivery[b].cursors_applied

(* The commit to Relay's own ledger. *)
CommitSent(b) ==
  /\ Free(b)
  /\ CommitAllowed(b)
  /\ sent' = sent \cup {b}
  /\ UNCHANGED <<vars, delivery, posted, restarts>>

RelayNext ==
  \/ \E b \in Batches :
       \/ \E answered \in BOOLEAN : PlanRaw(b, answered) \/ ApplyRaw(b, answered)
       \/ \E i \in DOMAIN b.cursor_updates, answered \in BOOLEAN :
            PlanCursors(b, i, answered) \/ ApplyCursors(b, i, answered)
       \/ Restart(b)
       \/ CommitSent(b)
  \/ ArriveLate

(***************************************************************************)
(* Relay follows the delivery sequence and retries: a call that stays      *)
(* possible is answered at last, and one whose loop is started over again  *)
(* and again too.                                                          *)
(***************************************************************************)
Persistence ==
  \A b \in Batches :
    /\ WF_all_vars(PlanRaw(b, TRUE))
    /\ WF_all_vars(ApplyRaw(b, TRUE) /\ ~delivery[b].raw_applied)
    /\ \A i \in DOMAIN b.cursor_updates :
         /\ WF_all_vars(PlanCursors(b, i, TRUE) /\ Len(delivery[b].cursor_plans) < i)
         /\ SF_all_vars(ApplyCursors(b, i, TRUE))
    /\ SF_all_vars(CommitSent(b))

RelaySpec == RelayInit /\ [][RelayNext]_all_vars
FairRelaySpec == RelaySpec /\ Persistence

-----------------------------------------------------------------------------
(* Properties.                                                             *)

(* A harness never holds more than it has been answered, and only plans    *)
(* that were posted have been applied.                                     *)
RelayTypeOK ==
  /\ TypeOK
  /\ sent \subseteq Batches
  /\ restarts \in 0 .. MaxRestarts
  /\ acked \cup cursor_acked \subseteq posted
  /\ posted \subseteq plans \cup cursor_plans
  /\ \A b \in Batches :
       LET d == delivery[b]
       IN  /\ d.raw_plan # Absent => d.raw_plan \in plans
           /\ d.raw_applied => d.raw_plan \in acked
           /\ \A i \in DOMAIN d.cursor_plans :
                /\ i \in DOMAIN b.cursor_updates
                /\ d.cursor_plans[i] = PlanCursor(b.cursor_updates[i])
           /\ d.loop \in {"none", "plan", "apply"}
           /\ d.loop = "plan" => d.done = Len(d.cursor_plans)

BatchRecorded(b) ==
  \A i \in DOMAIN b.packets : Recorded(AppendRequest(b), i)

(* A batch committed as sent is in the ledger, every packet of it under    *)
(* its own dedupe key, whatever was lost, repeated or started over on the  *)
(* way.                                                                    *)
SentIsRecorded == \A b \in sent : BatchRecorded(b)

(* A source cursor never runs ahead of the ledger: whoever resumes from it *)
(* skips only events on record (docs/RELAY_INTEROP.md, "raw apply" comes   *)
(* first).                                                                 *)
CursorBehindLedger ==
  \A k \in CursorKeys : source_cursor[k] # Absent =>
    \E b \in Batches :
      /\ \E i \in DOMAIN b.cursor_updates :
           source_cursor[k] = PlanCursor(b.cursor_updates[i])
      /\ BatchRecorded(b)

(* Every batch whose requests the sink can take, and with a cursor update, *)
(* is committed.                                                           *)
Acceptable(b) ==
  /\ ValidRequest(AppendRequest(b))
  /\ b.cursor_updates # <<>>
  /\ \A i \in DOMAIN b.cursor_updates :
       /\ ValidCursorRequest(b.cursor_updates[i])
       /\ HasDate(b.cursor_updates[i].updated_at_ms)

BatchesAreSent == \A b \in Batches : Acceptable(b) => <>(b \in sent)
=============================================================================
