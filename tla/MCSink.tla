------------------------------- MODULE MCSink -------------------------------
(***************************************************************************)
(* Small sets of requests for Sink.  A message is captured by two          *)
(* connectors, sent again under another batch id, and followed by one that *)
(* differs from another only in its session kind or in a given key.        *)
(***************************************************************************)
EXTENDS Sink, Integers

CONSTANTS absent

MCTaxonomy == {"message_captured", "note_recorded", "command_finished"}

Event(connector, kind, entry, hash, given) ==
  [connector    |-> connector,
   session_kind |-> kind,
   session_key  |-> <<"s1">>,
   entry_key    |-> entry,
   event_kind   |-> "message_captured",
   observed_at  |-> 1,
   captured_at  |-> absent,
   content_hash |-> <<hash>>,
   dedupe_key   |-> given,
   artifacts    |-> {}]

Web == Event("web", "thread", "e1", "h1", absent)
Edited == Event("web", "thread", "e1", "h2", absent)
EditedRun == Event("web", "run", "e1", "h2", absent)
Latest == Event("desktop", "thread", "e1", "h4", absent)
Keyed == Event("web", "thread", "e2", "h3", "k1")
Unsupported == [Web EXCEPT !.event_kind = "chat"]
Nameless == [Web EXCEPT !.artifacts = {[artifact_kind |-> "file", uri |-> absent]}]
Undated == [Web EXCEPT !.connector = "desktop", !.captured_at = CalendarEnd + 1]

Batch(id, events) ==
  [batch_id |-> <<id>>, producer |-> "relay", received_at_ms |-> 1, events |-> events]

(* In batch b1, Edited and EditedRun get one receipt id and two keys; in   *)
(* b2, Keyed carries the key of an event whose receipt id Web takes.       *)
CollidingRequests ==
  {Batch("b1", <<Web, Edited, EditedRun>>),
   Batch("b1", <<EditedRun, Latest>>),
   Batch("b2", <<Web, [Web EXCEPT !.dedupe_key = "k1"], Keyed>>)}

(* The batch b6 can be planned only once Web is on record and skipped.     *)
AnyRequests ==
  CollidingRequests \cup
    {Batch("b3", <<Unsupported, Web>>), Batch("b4", <<>>), Batch("b5", <<Nameless>>),
     [Batch("b5", <<Web>>) EXCEPT !.received_at_ms = -1], Batch("b6", <<Undated>>)}

(* What the command line makes of five runs: the second is dated after the *)
(* last day of the calendar, the last three do not compile.                *)
Imp == INSTANCE Imports WITH Absent <- absent, MaxMillis <- 9

Run(actor, argv, at) ==
  [run_id |-> "r1", command_event_id |-> "e1", workspace_root |-> "w1",
   task_id |-> "t1", actor |-> actor, argv |-> argv, cwd |-> "w1",
   outputs |-> {"out"}, verification |-> <<"tests", "passed">>,
   finished_at_ms |-> at]

ImportedRuns ==
  UNION {Imp!CompileCliRun(p) :
           p \in {Run("agent", <<"make">>, 1), Run("agent", <<"make">>, 9),
                  Run("agent", <<"make">>, 10), Run(absent, <<"make">>, 1),
                  Run("agent", <<>>, 1)}}

(* A captured message that is sent with another under one batch id and     *)
(* alone under a second, and imported runs.                                *)
RacingRequests == {Batch("b1", <<Web, Keyed>>), Batch("b2", <<Web>>)} \cup ImportedRuns

Cursor(value, at) ==
  [connector |-> "web", cursor_key |-> "thread", cursor_value |-> value,
   updated_at_ms |-> at]

MCCursorRequests ==
  {Cursor("c1", 1), Cursor("c2", 2), Cursor(absent, 3), Cursor("c3", -1),
   Cursor("c3", CalendarEnd + 1)}
NoCursorRequests == {}
=============================================================================
