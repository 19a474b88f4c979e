------------------------------- MODULE MCRelay -------------------------------
(***************************************************************************)
(* Two batches for Relay that overlap in a packet and in a cursor.         *)
(***************************************************************************)
EXTENDS Relay

CONSTANT absent

MCTaxonomy == {"message_captured"}

Packet(id, event, entry, kind) ==
  [packet_id |-> id, connector |-> "web", native_session_id |-> "s1",
   native_event_id |-> event, native_entry_id |-> entry,
   event_type |-> "message_captured", observed_at_ms |-> 1,
   payload |-> [session_kind |-> kind, rest |-> "p1"]]

Update(key, value, at) ==
  [connector |-> "web", cursor_key |-> key, cursor_value |-> value,
   updated_at_ms |-> at]

(* Two packets of one entry that differ in the packet's id and the session *)
(* kind: one names no kind, the other is of a run.                         *)
Hello == Packet("p1", "e1", "e2", absent)
Reply == Packet("p2", absent, "e1", "run")

RelayBatch(id, packets, updates) ==
  [batch_id |-> id, producer |-> "relay", received_at_ms |-> 1,
   packets |-> packets, cursor_updates |-> updates]

Both ==
  RelayBatch("b1", <<Hello, Reply>>,
             <<Update("c1", "v1", 1), Update("c2", "v1", 1)>>)
Last == RelayBatch("b2", <<Reply>>, <<Update("c1", "v2", 2)>>)

OverlappingBatches == {Both, Last}

MCRequests == {AppendRequest(b) : b \in Batches}
MCCursorRequests ==
  UNION {{b.cursor_updates[i] : i \in DOMAIN b.cursor_updates} : b \in Batches}
=============================================================================
