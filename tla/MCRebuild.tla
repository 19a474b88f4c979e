----------------------------- MODULE MCRebuild -----------------------------
(***************************************************************************)
(* Small ledgers for Rebuild.                                              *)
(***************************************************************************)
EXTENDS Rebuild, TLC

CONSTANTS absent, o1, o2

Text(name, length, says, commands) ==
  [name |-> name, length |-> length, blank |-> FALSE, says |-> says,
   commands |-> commands]

Blank == [name |-> "spaces", length |-> 2, blank |-> TRUE, says |-> {},
          commands |-> <<>>]

Plain(id, at, key, workspace, text) ==
  [receipt_id |-> id, observed_at |-> at, session_kind |-> "thread",
   connector |-> "web", session_key |-> key, workspace_root |-> workspace,
   event_kind |-> "message_captured", title |-> absent, page_title |-> absent,
   actor |-> "user", text |-> text, uris |-> <<>>]

(* Four events of one session, which may be received in any order: a       *)
(* command; a long text that states a root cause, with a title that only   *)
(* counts if it comes first; a text with two artifacts and a page title;   *)
(* an artifact without text, at the same time as the root cause.           *)
Command == Plain(3, 1, "s1", "w1", Text("make", 9, {}, <<"make test">>))
Cause == [Plain(2, 2, "s1", "w1",
                Text("because", 200, {"root_cause", "check_passed"}, <<>>))
            EXCEPT !.title = <<"Thread", 6>>]
Report == [Plain(5, 3, "s1", "w1",
                 Text("fix", 7, {"fix", "approved"}, <<"make all", "make all">>))
             EXCEPT !.uris = <<"a.log", "b.log">>, !.title = <<"Title", 5>>,
                    !.page_title = <<"Page", 4>>]
Silent == [Plain(1, 2, "s1", "w1", absent)
             EXCEPT !.uris = <<"c.log">>, !.event_kind = "check_result"]

(* A blank text in a session of its own.                                   *)
Empty == [Plain(4, 1, "s3", absent, Blank) EXCEPT !.session_kind = "run"]

(* What the command line imports: a run, and the states of one task as two *)
(* workspaces export them.  No payload of theirs has a title or a text.    *)
Imp == INSTANCE Imports WITH Absent <- absent, MaxMillis <- 9, CalendarEnd <- 9

Imported(id, actor, request) ==
  LET e == request.events[1]
  IN  [receipt_id |-> id, observed_at |-> e.observed_at,
       session_kind |-> e.session_kind, connector |-> e.connector,
       session_key |-> e.session_key, workspace_root |-> e.workspace_root,
       event_kind |-> e.event_kind, title |-> absent, page_title |-> absent,
       actor |-> actor, text |-> absent, uris |-> <<>>]

Run ==
  [run_id |-> "r1", command_event_id |-> "c1", workspace_root |-> "w1",
   task_id |-> "t1", actor |-> "agent", argv |-> <<"make">>, cwd |-> "w1",
   outputs |-> {"out"}, verification |-> <<"tests", "passed">>,
   finished_at_ms |-> 1]

WorkState(workspace) ==
  [snapshot_id |-> "n1", workspace_root |-> workspace, run_id |-> "r1",
   task_id |-> "t1", status |-> "open", progress |-> "begun",
   files |-> {"task", "result", "events"}, evidence_uris |-> {},
   exported_at_ms |-> 2]

ImportedRuns == {Imported(7, "agent", q) : q \in Imp!CompileCliRun(Run)}
ImportedStates(id, workspace) ==
  {Imported(id, "user", q) : q \in Imp!CompileWorkState(WorkState(workspace))}

TwoEvents == {Command, Report}
FourEvents == {Cause, Report, Silent, Empty}
RunAndState == ImportedRuns \cup ImportedStates(8, "w1")
SharedTask == ImportedStates(8, "w1") \cup ImportedStates(9, "w2")

TwoOperators == {o1, o2}
OneOperator == {o1}
OperatorSymmetry == Permutations(TwoOperators)

MCPassedKinds == {"verification_passed", "check_result"}

(* The hash of an artifact's anchor comes before that of the text's, and   *)
(* b.log before the others.                                                *)
MCHashRank(anchor_id) ==
  CASE anchor_id[1] = "text" -> 3
    [] anchor_id[1] = "artifact" /\ anchor_id[2][2] = "b.log" -> 1
    [] OTHER -> 2
=============================================================================
