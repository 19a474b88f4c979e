------------------------------ MODULE MCReads ------------------------------
(***************************************************************************)
(* Requests for the events of a workspace and of none, with several tokens.*)
(***************************************************************************)
EXTENDS Reads

CONSTANTS absent, blank, r1, t1, t2, admin

Because == [name |-> "because", length |-> 7, blank |-> FALSE,
            says |-> {"root_cause"}, commands |-> <<>>]

Event(id, kind, key, workspace) ==
  [receipt_id |-> id, observed_at |-> id, session_kind |-> kind,
   connector |-> "web", session_key |-> key, workspace_root |-> workspace,
   event_kind |-> "message_captured", title |-> <<"Thread", 6>>,
   page_title |-> absent, actor |-> "user", text |-> Because, uris |-> <<>>]

(* A thread of a workspace and a run of none that say the same, the thread *)
(* with an artifact.                                                       *)
First == [Event(1, "thread", "s1", "w1") EXCEPT !.uris = <<"a.log">>]
Second == Event(2, "run", "s2", absent)

TwoSessions == {First, Second}

MCPassedKinds == {"check_result"}

MCHashRank(anchor_id) == IF anchor_id[1] = "text" THEN 2 ELSE 1
MCCaseRank(case_id) ==
  CASE case_id[1] = SessionId(First) -> 3 [] case_id[1] = SessionId(Second) -> 2
    [] OTHER -> 1

MCWorkspaceId(root) ==
  CASE root = "w1" -> 1 [] root = "w2" -> 2 [] root = blank -> 0
    [] OTHER -> absent

MCEquals(text, phrase) == text[1] = phrase
MCContains(text, words) == text[1] = words

(* Only the insights say "because". *)
MCQuery == [phrase |-> "because", tokens |-> {"because"}, session_kind |-> absent,
            connector |-> absent, workspace_root |-> absent, limit |-> 0]

MCSnapshot ==
  ApplyPlan(ApplyPlan(ApplyPlan(EmptySnapshot, PlanWorkspaceTokenGrant(1, t1)),
                      PlanWorkspaceTokenGrant(2, t2)),
            PlanAdminTokenGrant(admin))

-----------------------------------------------------------------------------
(* Requests.                                                               *)
Rest(op, target, token) ==
  [via |-> "rest", op |-> op, target |-> target, token |-> token, bound |-> absent,
   method |-> "none"]

Message(via, op, target, token, bound) ==
  [via |-> via, op |-> op, target |-> target, token |-> token, bound |-> bound,
   form |-> "object", has_id |-> TRUE, version |-> "2.0", method |-> "tools/call"]

Mcp(op, target, token) == Message("mcp", op, target, token, absent)
Stdio(op, target, bound) == Message("stdio", op, target, absent, bound)

Cli(op, target) == [Rest(op, target, absent) EXCEPT !.via = "cli"]

Thread(x) == SessionId(x)
Case(x) == <<Thread(x), x.title>>
Text(x) == <<"text", EntryId({x}, x)>>
Log(x) == <<EntryId({x}, x), "a.log">>

Faults ==
  LET call == Mcp("case", Case(First), t1)
      line == Stdio("case", Case(First), 1)
  IN  {[call EXCEPT !.form = "text"], [call EXCEPT !.version = "1.0"],
       [line EXCEPT !.form = "text"], [line EXCEPT !.form = "value"],
       [line EXCEPT !.method = "none"], [line EXCEPT !.has_id = FALSE],
       [call EXCEPT !.op = "none"], [line EXCEPT !.target = absent],
       [call EXCEPT !.op = "unknown"], [line EXCEPT !.method = "unknown"],
       [call EXCEPT !.method = "tools/list", !.token = admin],
       [line EXCEPT !.method = "resources/read", !.op = "search"]}

Unselected ==
  {Rest("search", absent, admin), Mcp("search", absent, admin),
   Mcp("runs", blank, t1), Stdio("documents", absent, 1), Rest("runs", absent, t1)}

MCRequests ==
  Faults \cup Unselected \cup
  {Rest("case", Case(First), t1), Rest("case", Case(First), t2),
   Rest("evidence", Text(First), t1), Rest("document", Log(First), t2),
   Rest("task", Thread(First), t1), Rest("run", Thread(Second), admin),
   Rest("search", "w1", t1), Rest("runs", blank, t1), Rest("runs", "w1", t1),
   Mcp("case", Case(First), t1), Mcp("thread", Thread(First), t1),
   Mcp("run", Thread(Second), admin), Mcp("documents", "w1", t1),
   Stdio("thread", Thread(First), 2), Stdio("evidence", Text(First), 1),
   Stdio("document", Log(First), absent),
   Cli("task", Thread(First)), Rest("health", absent, absent),
   Cli("doctor", absent)}
=============================================================================
