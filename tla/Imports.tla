------------------------------- MODULE Imports -------------------------------
(***************************************************************************)
(* The trusted local imports of the command line (axiomsync-cli lib.rs,    *)
(* the payloads of axiomsync-domain model.rs): a payload compiles to one   *)
(* request of one event, which an operator then plans and applies like any *)
(* other; a payload that does not compile, to none.                        *)
(*                                                                         *)
(* An imported run is a record of run_id, command_event_id, workspace_root,*)
(* task_id, actor, argv, cwd, outputs (the uris of stdout and stderr, if   *)
(* any), verification (its kind and status) and finished_at_ms; an exported*)
(* work state one of snapshot_id, workspace_root, run_id, task_id, status, *)
(* progress, files (the three uris), evidence_uris and exported_at_ms.     *)
(* Text that trims to nothing is Absent.                                   *)
(***************************************************************************)
EXTENDS Naturals, Sequences

CONSTANTS
  Absent,
  MaxMillis,     \* the last millisecond of an i64
  CalendarEnd    \* the last millisecond that has a date

(* CliCommandPayload::validate, with its command, verification and uris. *)
ValidCliRun(p) ==
  /\ Absent \notin {p.run_id, p.command_event_id, p.workspace_root, p.task_id, p.actor}
  /\ p.argv # <<>>
  /\ p.cwd # Absent
  /\ Absent \notin {p.verification[1], p.verification[2]} \cup p.outputs

(* WorkStateExportPayload::validate. *)
ValidWorkState(p) ==
  Absent \notin {p.snapshot_id, p.workspace_root, p.run_id, p.task_id,
                 p.status, p.progress} \cup p.files \cup p.evidence_uris

(* The text of a time, which the sink takes for missing if there is none. *)
ObservedAt(millis) == IF millis <= CalendarEnd THEN millis ELSE Absent

(* One event.  It gives no content hash, so that the sink hashes what it   *)
(* carries, which is the payload without the ids and the time of the event.*)
Import(batch_id, entry_key, millis, event, content) ==
  [batch_id |-> batch_id, producer |-> "axiomsync-cli", received_at_ms |-> millis,
   events   |-> <<[connector      |-> event.connector,
                   session_kind   |-> event.session_kind,
                   session_key    |-> event.session_key,
                   workspace_root |-> event.workspace_root,
                   entry_key      |-> entry_key,
                   event_kind     |-> event.event_kind,
                   observed_at    |-> ObservedAt(millis),
                   captured_at    |-> millis,
                   content_hash   |-> content,
                   dedupe_key     |-> Absent,
                   artifacts      |-> {}]>>]

PlanCliRun(p) ==
  Import(<<"cli-run", p.command_event_id>>, p.command_event_id, p.finished_at_ms,
         [connector |-> "cli_local_exec", session_kind |-> "run",
          session_key |-> <<"run", p.run_id>>, workspace_root |-> p.workspace_root,
          event_kind |-> "command_finished"],
         <<p.workspace_root, p.task_id, p.actor, p.argv, p.cwd, p.outputs,
           p.verification>>)

PlanWorkState(p) ==
  Import(<<"work-state", p.snapshot_id>>, p.snapshot_id, p.exported_at_ms,
         [connector |-> "work_state_export", session_kind |-> "task",
          session_key |-> <<"task", p.task_id>>, workspace_root |-> p.workspace_root,
          event_kind |-> "task_state_imported"],
         <<p.workspace_root, p.run_id, p.task_id, p.status, p.progress, p.files,
           p.evidence_uris>>)

(* compile_cli_run_import, compile_work_state_import: with millis_to_i64. *)
CompileCliRun(p) ==
  {PlanCliRun(q) : q \in {q \in {p} : ValidCliRun(q) /\ q.finished_at_ms <= MaxMillis}}

CompileWorkState(p) ==
  {PlanWorkState(q) : q \in {q \in {p} : ValidWorkState(q) /\ q.exported_at_ms <= MaxMillis}}
=============================================================================
