------------------------------ MODULE AuthStore ------------------------------
(***************************************************************************)
(* Grants of tokens in auth.json (axiomsync-kernel logic/auth.rs,          *)
(* kernel.rs; the AuthStore of axiomsync-cli lib.rs).                      *)
(*                                                                         *)
(* Applying a plan reads the file, and writes a new one beside it that a   *)
(* rename puts in its place.  A mutex of the process covers all of it; two *)
(* processes share only the two file names.  Any step may fail, and a      *)
(* process may die between two of them.                                    *)
(***************************************************************************)
EXTENDS Auth, FiniteSets

CONSTANTS
  Writers,     \* the threads that apply plans
  Processes,   \* the processes they run in
  ProcessOf,   \* [Writers -> Processes]
  Absent       \* no file, no token, nobody

ASSUME WritersHaveProcesses == ProcessOf \in [Writers -> Processes]
ASSUME AbsentIsNothing == Absent \notin Writers /\ Absent \notin Snapshots

VARIABLES
  file,     \* what auth.json holds, Absent if there is none
  tmp,      \* what auth.json.tmp holds
  writer,   \* [Writers -> the state of an apply]
  lock,     \* [Processes -> the holder of auth_write_lock, or Absent]
  applied,  \* the plans whose apply has written
  acked     \* the plans whose apply has been answered

vars == <<file, tmp, writer, lock, applied, acked>>

-----------------------------------------------------------------------------
(* Files.  Contents that do not parse: a file truncated and not yet        *)
(* written, or a longer snapshot overwritten by a shorter one.             *)
Truncated == [broken |-> "truncated"]
Torn == [broken |-> "torn"]

Parses(contents) == contents \notin {Absent, Truncated, Torn}

Size(snapshot) == 2 * Cardinality(snapshot.grants) + Cardinality(snapshot.admins)

(* A snapshot written at the start of a file. *)
Overwritten(contents, snapshot) ==
  IF Parses(contents) /\ Size(contents) > Size(snapshot) THEN Torn ELSE snapshot

(* read_snapshot: nothing, if the file does not parse. *)
ReadSnapshot ==
  CASE file = Absent -> {EmptySnapshot}
    [] Parses(file) -> {file}
    [] OTHER -> {}

-----------------------------------------------------------------------------
(* An apply: where it stands, its plan, the snapshot it will write, and    *)
(* the name of the file it has open, if it still has a name.               *)
Idle == [pc |-> "idle", plan |-> Absent, next |-> Absent, open |-> Absent]

Init ==
  /\ file = Absent
  /\ tmp = Absent
  /\ writer = [w \in Writers |-> Idle]
  /\ lock = [p \in Processes |-> Absent]
  /\ applied = {}
  /\ acked = {}

At(w, pc) == writer[w].pc = pc

(* Faulty: no mutex. *)
BeginUnlocked(w, plan) ==
  /\ At(w, "idle")
  /\ writer' = [writer EXCEPT ![w] = [Idle EXCEPT !.pc = "read", !.plan = plan]]
  /\ UNCHANGED <<file, tmp, lock, applied, acked>>

Begin(w, plan) ==
  /\ At(w, "idle")
  /\ lock[ProcessOf[w]] = Absent
  /\ lock' = [lock EXCEPT ![ProcessOf[w]] = w]
  /\ writer' = [writer EXCEPT ![w] = [Idle EXCEPT !.pc = "read", !.plan = plan]]
  /\ UNCHANGED <<file, tmp, applied, acked>>

Read(w) ==
  /\ At(w, "read")
  /\ \E snapshot \in ReadSnapshot :
       writer' = [writer EXCEPT ![w].pc = "open",
                                ![w].next = ApplyPlan(snapshot, writer[w].plan)]
  /\ UNCHANGED <<file, tmp, lock, applied, acked>>

(* Faulty: auth.json itself is truncated and written. *)
OpenFile(w) ==
  /\ At(w, "open")
  /\ file' = Truncated
  /\ writer' = [writer EXCEPT ![w].pc = "write", ![w].open = "file"]
  /\ UNCHANGED <<tmp, lock, applied, acked>>

(* Open auth.json.tmp, created or truncated. *)
OpenTmp(w) ==
  /\ At(w, "open")
  /\ tmp' = Truncated
  /\ writer' = [writer EXCEPT ![w].pc = "write", ![w].open = "tmp"]
  /\ UNCHANGED <<file, lock, applied, acked>>

(* write_all and sync_data, whatever name the open file has by now. *)
Write(w) ==
  /\ At(w, "write")
  /\ tmp' = IF writer[w].open = "tmp" THEN Overwritten(tmp, writer[w].next) ELSE tmp
  /\ file' = IF writer[w].open = "file" THEN Overwritten(file, writer[w].next) ELSE file
  /\ writer' = [writer EXCEPT ![w].pc = "rename"]
  /\ applied' = applied \cup {writer[w].plan}
  /\ UNCHANGED <<lock, acked>>

(* The files that other applies have open get another name, or none. *)
Renamed(state) ==
  [state EXCEPT !.open = CASE state.open = "tmp" -> "file"
                           [] state.open = "file" -> "gone"
                           [] OTHER -> @]

Rename(w) ==
  /\ At(w, "rename")
  /\ tmp # Absent
  /\ file' = tmp
  /\ tmp' = Absent
  /\ writer' = [x \in Writers |-> IF x = w THEN [writer[w] EXCEPT !.pc = "done"]
                                           ELSE Renamed(writer[x])]
  /\ UNCHANGED <<lock, applied, acked>>

Unlock(w) == lock' = [lock EXCEPT ![ProcessOf[w]] = Absent]

(* The apply returns: its answer, and the mutex. *)
Answer(w) ==
  /\ At(w, "done")
  /\ writer' = [writer EXCEPT ![w] = Idle]
  /\ acked' = acked \cup {writer[w].plan}
  /\ Unlock(w)
  /\ UNCHANGED <<file, tmp, applied>>

(* Faulty: an apply that fails keeps the mutex. *)
FailLocked(w) ==
  /\ writer[w].pc \in {"read", "open", "write", "rename"}
  /\ writer' = [writer EXCEPT ![w] = Idle]
  /\ UNCHANGED <<file, tmp, lock, applied, acked>>

(* A read, open, write or rename fails, and leaves what it had not done;   *)
(* reading fails if the file does not parse, renaming if there is no file. *)
Fail(w) ==
  /\ writer[w].pc \in {"read", "open", "write", "rename"}
  /\ writer' = [writer EXCEPT ![w] = Idle]
  /\ Unlock(w)
  /\ UNCHANGED <<file, tmp, applied, acked>>

(* A process dies with its threads; what it wrote stays. *)
Crash(p) ==
  /\ writer' = [w \in Writers |-> IF ProcessOf[w] = p THEN Idle ELSE writer[w]]
  /\ lock' = [lock EXCEPT ![p] = Absent]
  /\ UNCHANGED <<file, tmp, applied, acked>>

Proceed(w) ==
  Read(w) \/ OpenTmp(w) \/ Write(w) \/ Rename(w) \/ Answer(w) \/ Fail(w)

Next ==
  \/ \E w \in Writers : Proceed(w) \/ \E plan \in Plans : Begin(w, plan)
  \/ \E p \in Processes : Crash(p)

Spec == Init /\ [][Next]_vars

(* A thread that runs goes on. *)
FairSpec == Spec /\ \A w \in Writers : WF_vars(Proceed(w))

-----------------------------------------------------------------------------
(* Properties.                                                             *)

OneGrantEach(snapshot) ==
  \A f, g \in snapshot.grants : f.workspace_id = g.workspace_id => f = g

(* The files hold snapshots, or are absent or broken, and the thread that  *)
(* is within an apply holds the mutex of its process.                      *)
AuthTypeOK ==
  /\ \A contents \in {file, tmp} :
       Parses(contents) => contents \in Snapshots /\ OneGrantEach(contents)
  /\ applied \subseteq Plans
  /\ acked \subseteq applied
  /\ \A w \in Writers : ~At(w, "idle") <=> lock[ProcessOf[w]] = w

(* auth.json is absent or parses at every moment, whenever an apply or its *)
(* process ends: only whole files are renamed (cli lib.rs:430-463).        *)
FileIsWhole == file = Absent \/ Parses(file)

(* An apply that was answered stays in force: its workspace has the grant, *)
(* or one that an apply wrote over it, and its admin token stays.          *)
InForce(plan, snapshot) ==
  IF plan.kind = "admin" THEN plan.hash \in snapshot.admins
  ELSE \E g \in snapshot.grants :
         /\ g.workspace_id = plan.workspace_id
         /\ \/ g.hash = plan.hash
            \/ \E q \in applied \ {plan} :
                 /\ q.kind = "workspace"
                 /\ q.workspace_id = plan.workspace_id
                 /\ q.hash = g.hash

AckedGrantHolds ==
  \A plan \in acked : Parses(file) /\ InForce(plan, file)

(* A token opens a workspace, or the admin routes, only if a plan that     *)
(* grants just that was applied: not by a grant of the other kind, nor of  *)
(* another workspace, whichever applies race, fail or die half-way.        *)
AuthorizedIsGranted ==
  Parses(file) =>
    \A t \in Tokens :
      /\ AuthorizesAdmin(file, t) => PlanAdminTokenGrant(t) \in applied
      /\ \A w \in Workspaces :
           AuthorizesWorkspace(file, t, w) =>
             PlanWorkspaceTokenGrant(w, t) \in applied

(* A mutex that is taken is released. *)
LockIsReleased ==
  \A p \in Processes : lock[p] # Absent ~> lock[p] = Absent

(* auth.json implements Grants. *)
Own(grants, w) == {g \in grants : g.workspace_id = w}

HashOf(own) == IF own = {} THEN Absent ELSE (CHOOSE g \in own : TRUE).hash

GrantOf(w) == HashOf(Own(IF Parses(file) THEN file.grants ELSE {}, w))

G == INSTANCE Grants WITH
       TokenHashes <- {WorkspaceHash(t) : t \in Tokens} \cup {AdminHash(t) : t \in Tokens},
       NoToken <- Absent,
       grants <- [w \in Workspaces |-> GrantOf(w)],
       admins <- IF Parses(file) THEN file.admins ELSE {}

GrantsSpec == G!Spec
=============================================================================
