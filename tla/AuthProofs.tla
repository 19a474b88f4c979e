----------------------------- MODULE AuthProofs -----------------------------
(***************************************************************************)
(* Theorems about AuthStore, for every set of tokens and workspaces and    *)
(* any number of threads.  Types and what is authorised hold for any       *)
(* number of processes.  That auth.json is whole, keeps what was answered  *)
(* and implements Grants holds for the threads of one process, and rests   *)
(* on what the thread that holds the mutex knows of the two files          *)
(* (HolderInv).                                                            *)
(***************************************************************************)
EXTENDS AuthStore, TLAPS

Steps == {"idle", "read", "open", "write", "rename", "done"}

States ==
  [pc : Steps, plan : Plans \cup {Absent}, next : Snapshots \cup {Absent},
   open : {"tmp", "file", "gone", Absent}]

Contents == Snapshots \cup {Absent, Truncated, Torn}

(* A snapshot is none of the other things a file may hold. *)
LEMMA SnapshotsParse ==
  ASSUME NEW s \in Snapshots
  PROVE  Parses(s)
<1>1. DOMAIN s = {"grants", "admins"}
  BY DEF Snapshots
<1>2. DOMAIN Truncated = {"broken"} /\ DOMAIN Torn = {"broken"}
  BY DEF Truncated, Torn
<1>3. "broken" \notin {"grants", "admins"}
  OBVIOUS
<1>4. s # Truncated /\ s # Torn
  BY <1>1, <1>2, <1>3
<1>5. QED BY <1>4, AbsentIsNothing DEF Parses

LEMMA PlanKinds ==
  ASSUME NEW plan \in Plans
  PROVE  \/ /\ plan.kind = "workspace"
            /\ plan.workspace_id \in Workspaces
            /\ \E t \in Tokens : plan = PlanWorkspaceTokenGrant(plan.workspace_id, t)
            /\ \E t \in Tokens : plan.hash = WorkspaceHash(t)
         \/ /\ plan.kind = "admin"
            /\ \E t \in Tokens : plan = PlanAdminTokenGrant(t)
            /\ \E t \in Tokens : plan.hash = AdminHash(t)
BY DEF Plans, PlanWorkspaceTokenGrant, PlanAdminTokenGrant

(* Applying a plan to a snapshot gives a snapshot with one grant for each  *)
(* workspace.                                                              *)
LEMMA AppliedIsSnapshot ==
  ASSUME NEW s \in Snapshots, OneGrantEach(s), NEW plan \in Plans
  PROVE  ApplyPlan(s, plan) \in Snapshots /\ OneGrantEach(ApplyPlan(s, plan))
<1>1. CASE plan.kind = "workspace"
  <2> DEFINE new == [workspace_id |-> plan.workspace_id, hash |-> plan.hash]
             kept == {g \in s.grants : g.workspace_id # plan.workspace_id}
  <2>1. ApplyPlan(s, plan) = [grants |-> kept \cup {new}, admins |-> s.admins]
    BY <1>1 DEF ApplyPlan, Snapshots
  <2>2. new \in [workspace_id : Workspaces, hash : {WorkspaceHash(t) : t \in Tokens}]
    BY <1>1, PlanKinds
  <2>3. ApplyPlan(s, plan) \in Snapshots
    BY <2>1, <2>2 DEF Snapshots
  <2>4. OneGrantEach(ApplyPlan(s, plan))
    BY <2>1 DEF OneGrantEach
  <2>5. QED BY <2>3, <2>4
<1>2. CASE plan.kind = "admin"
  <2>1. ApplyPlan(s, plan) = [grants |-> s.grants, admins |-> s.admins \cup {plan.hash}]
    BY <1>2 DEF ApplyPlan, Snapshots
  <2>2. plan.hash \in {AdminHash(t) : t \in Tokens}
    BY <1>2, PlanKinds
  <2>3. QED BY <2>1, <2>2 DEF Snapshots, OneGrantEach
<1>3. QED BY <1>1, <1>2, PlanKinds

LEMMA EmptyIsSnapshot == EmptySnapshot \in Snapshots /\ OneGrantEach(EmptySnapshot)
BY DEF EmptySnapshot, Snapshots, OneGrantEach

(* What is read is a snapshot. *)
LEMMA ReadIsSnapshot ==
  ASSUME AuthTypeOK, NEW s \in ReadSnapshot
  PROVE  s \in Snapshots /\ OneGrantEach(s)
BY EmptyIsSnapshot DEF AuthTypeOK, ReadSnapshot
-----------------------------------------------------------------------------
(* Type correctness.                                                       *)
Holds(w) == lock[ProcessOf[w]] = w

TypeInv ==
  /\ writer \in [Writers -> States]
  /\ lock \in [Processes -> Writers \cup {Absent}]
  /\ file \in Contents
  /\ tmp \in Contents
  /\ AuthTypeOK
  /\ \A w \in Writers :
       /\ ~At(w, "idle") => writer[w].plan \in Plans
       /\ writer[w].pc \in {"open", "write", "rename"} =>
            writer[w].next \in Snapshots /\ OneGrantEach(writer[w].next)
       /\ writer[w].pc \in {"rename", "done"} => writer[w].plan \in applied

LEMMA IdleIsState == Idle \in States
BY DEF Idle, States, Steps

LEMMA InitTypeInv == Init => TypeInv
<1> SUFFICES ASSUME Init PROVE TypeInv
  OBVIOUS
<1>1. writer \in [Writers -> States] /\ \A w \in Writers : writer[w] = Idle
  BY IdleIsState DEF Init
<1>2. AuthTypeOK
  BY <1>1, AbsentIsNothing, WritersHaveProcesses
  DEF Init, AuthTypeOK, Parses, At, Idle
<1>3. QED BY <1>1, <1>2 DEF Init, TypeInv, Contents, At, Idle

(* A writer that changes its state, as the other writers see it. *)
LEMMA OneMoves ==
  ASSUME TypeInv, NEW w \in Writers, NEW state \in States,
         writer' = [writer EXCEPT ![w] = state]
  PROVE  /\ writer' \in [Writers -> States]
         /\ writer'[w] = state
         /\ \A v \in Writers \ {w} : writer'[v] = writer[v]
BY DEF TypeInv

LEMMA BeginKeepsTypes ==
  ASSUME TypeInv, NEW w \in Writers, NEW plan \in Plans, Begin(w, plan)
  PROVE  TypeInv'
<1> DEFINE state == [Idle EXCEPT !.pc = "read", !.plan = plan]
<1>1. state \in States /\ state.pc = "read" /\ state.plan = plan
  BY DEF Idle, States, Steps
<1>2. /\ writer' \in [Writers -> States]
      /\ writer'[w] = state
      /\ \A v \in Writers \ {w} : writer'[v] = writer[v]
  BY <1>1, OneMoves DEF Begin
<1>3. lock' \in [Processes -> Writers \cup {Absent}]
  BY WritersHaveProcesses DEF Begin, TypeInv
<1>4. \A v \in Writers : ~At(v, "idle")' <=> lock'[ProcessOf[v]] = v
  BY <1>1, <1>2, WritersHaveProcesses, AbsentIsNothing
  DEF Begin, TypeInv, AuthTypeOK, At
<1>5. AuthTypeOK'
  BY <1>4 DEF Begin, TypeInv, AuthTypeOK, At, Parses
<1>6. QED BY <1>1, <1>2, <1>3, <1>5 DEF Begin, TypeInv, At

LEMMA ReadKeepsTypes ==
  ASSUME TypeInv, NEW w \in Writers, Read(w)
  PROVE  TypeInv'
<1>1. PICK s \in ReadSnapshot :
        writer' = [writer EXCEPT ![w].pc = "open",
                                 ![w].next = ApplyPlan(s, writer[w].plan)]
  BY DEF Read
<1> DEFINE next == ApplyPlan(s, writer[w].plan)
           state == [writer[w] EXCEPT !.pc = "open", !.next = next]
<1>2. writer[w] \in States /\ writer[w].plan \in Plans /\ ~At(w, "idle")
  BY DEF Read, TypeInv, At
<1>3. next \in Snapshots /\ OneGrantEach(next)
  BY <1>2, ReadIsSnapshot, AppliedIsSnapshot DEF TypeInv
<1>4. /\ state \in States /\ state.pc = "open" /\ state.next = next
      /\ state.plan = writer[w].plan
  BY <1>2, <1>3 DEF States, Steps
<1>5. writer' = [writer EXCEPT ![w] = state]
  BY <1>1
<1>6. /\ writer' \in [Writers -> States]
      /\ writer'[w] = state
      /\ \A v \in Writers \ {w} : writer'[v] = writer[v]
  BY <1>4, <1>5, OneMoves
<1>7. AuthTypeOK'
  BY <1>2, <1>4, <1>6 DEF Read, TypeInv, AuthTypeOK, At, Parses
<1>8. QED BY <1>2, <1>3, <1>4, <1>6, <1>7 DEF Read, TypeInv, At

LEMMA OpenTmpKeepsTypes ==
  ASSUME TypeInv, NEW w \in Writers, OpenTmp(w)
  PROVE  TypeInv'
<1> DEFINE state == [writer[w] EXCEPT !.pc = "write", !.open = "tmp"]
<1>1. writer[w] \in States /\ writer[w].pc = "open"
  BY DEF OpenTmp, TypeInv, At
<1>2. /\ state \in States /\ state.pc = "write" /\ state.next = writer[w].next
      /\ state.plan = writer[w].plan
  BY <1>1 DEF States, Steps
<1>3. /\ writer' \in [Writers -> States]
      /\ writer'[w] = state
      /\ \A v \in Writers \ {w} : writer'[v] = writer[v]
  BY <1>2, OneMoves DEF OpenTmp
<1>4. AuthTypeOK'
  BY <1>1, <1>2, <1>3 DEF OpenTmp, TypeInv, AuthTypeOK, At, Parses
<1>5. QED BY <1>1, <1>2, <1>3, <1>4 DEF OpenTmp, TypeInv, At, Contents

(* What an open file holds once it is written. *)
LEMMA OverwrittenIs ==
  ASSUME NEW contents \in Contents, NEW s \in Snapshots, OneGrantEach(s)
  PROVE  /\ Overwritten(contents, s) \in {s, Torn}
         /\ Overwritten(contents, s) \in Contents
         /\ Parses(Overwritten(contents, s)) => Overwritten(contents, s) = s
BY DEF Overwritten, Contents, Parses

LEMMA WriteKeepsTypes ==
  ASSUME TypeInv, NEW w \in Writers, Write(w)
  PROVE  TypeInv'
<1> DEFINE state == [writer[w] EXCEPT !.pc = "rename"]
           next == writer[w].next
<1>1. writer[w] \in States /\ writer[w].pc = "write"
  BY DEF Write, TypeInv, At
<1>2. /\ state \in States /\ state.pc = "rename" /\ state.next = next
      /\ state.plan = writer[w].plan
  BY <1>1 DEF States, Steps
<1>3. /\ writer' \in [Writers -> States]
      /\ writer'[w] = state
      /\ \A v \in Writers \ {w} : writer'[v] = writer[v]
  BY <1>2, OneMoves DEF Write
<1>4. next \in Snapshots /\ OneGrantEach(next) /\ writer[w].plan \in Plans
  BY <1>1 DEF TypeInv, At
<1>5. file' \in {file, Overwritten(file, next)} /\ tmp' \in {tmp, Overwritten(tmp, next)}
  BY DEF Write
<1>6. file' \in Contents /\ tmp' \in Contents
  BY <1>4, <1>5, OverwrittenIs DEF TypeInv
<1>7. \A contents \in {file', tmp'} :
        Parses(contents) => contents \in Snapshots /\ OneGrantEach(contents)
  BY <1>4, <1>5, OverwrittenIs DEF TypeInv, AuthTypeOK
<1>8. AuthTypeOK'
  BY <1>1, <1>2, <1>3, <1>4, <1>7 DEF Write, TypeInv, AuthTypeOK, At, Parses
<1>9. QED BY <1>1, <1>2, <1>3, <1>4, <1>6, <1>8 DEF Write, TypeInv, At

(* Renaming touches only the names of the files that others have open. *)
LEMMA RenamedIs ==
  ASSUME NEW state \in States
  PROVE  /\ Renamed(state) \in States
         /\ Renamed(state).pc = state.pc
         /\ Renamed(state).plan = state.plan
         /\ Renamed(state).next = state.next
BY DEF Renamed, States

LEMMA RenameMoves ==
  ASSUME TypeInv, NEW w \in Writers, Rename(w)
  PROVE  /\ writer' \in [Writers -> States]
         /\ writer[w].pc = "rename" /\ writer'[w].pc = "done"
         /\ \A v \in Writers :
              /\ v # w => writer'[v].pc = writer[v].pc
              /\ writer'[v].plan = writer[v].plan
              /\ writer'[v].next = writer[v].next
<1>1. writer[w] \in States /\ writer[w].pc = "rename"
  BY DEF Rename, TypeInv, At
<1> DEFINE state == [writer[w] EXCEPT !.pc = "done"]
<1>2. state \in States /\ state.pc = "done" /\ state.plan = writer[w].plan
      /\ state.next = writer[w].next
  BY <1>1 DEF States, Steps
<1>3. \A v \in Writers : writer'[v] = IF v = w THEN state ELSE Renamed(writer[v])
  BY DEF Rename
<1>4. \A v \in Writers : writer[v] \in States
  BY DEF TypeInv
<1>5. writer' = [v \in Writers |-> writer'[v]]
  BY DEF Rename
<1>6. \A v \in Writers : writer'[v] \in States
  BY <1>2, <1>3, <1>4, RenamedIs
<1>7. writer' \in [Writers -> States]
  <2> HIDE DEF state
  <2>1. QED BY <1>5, <1>6
<1>8. ASSUME NEW v \in Writers
      PROVE  /\ v # w => writer'[v].pc = writer[v].pc
             /\ writer'[v].plan = writer[v].plan
             /\ writer'[v].next = writer[v].next
  <2>1. CASE v = w
    BY <1>2, <1>3, <2>1
  <2>2. CASE v # w
    BY <1>3, <1>4, <2>2, RenamedIs
  <2>3. QED BY <2>1, <2>2
<1>9. QED BY <1>1, <1>2, <1>3, <1>7, <1>8

LEMMA RenameKeepsTypes ==
  ASSUME TypeInv, NEW w \in Writers, Rename(w)
  PROVE  TypeInv'
<1>1. AuthTypeOK'
  BY RenameMoves DEF Rename, TypeInv, AuthTypeOK, At, Parses
<1>2. QED BY <1>1, RenameMoves DEF Rename, TypeInv, At, Contents

(* A writer that goes idle and releases the mutex of its process. *)
LEMMA ReleaseKeepsTypes ==
  ASSUME TypeInv, NEW w \in Writers, ~At(w, "idle"),
         writer' = [writer EXCEPT ![w] = Idle], Unlock(w),
         UNCHANGED <<file, tmp, applied>>, acked' \subseteq applied
  PROVE  TypeInv'
<1>1. /\ writer' \in [Writers -> States]
      /\ writer'[w] = Idle
      /\ \A v \in Writers \ {w} : writer'[v] = writer[v]
  BY IdleIsState, OneMoves
<1>2. lock' \in [Processes -> Writers \cup {Absent}]
  BY WritersHaveProcesses DEF Unlock, TypeInv
<1>3. lock[ProcessOf[w]] = w
  BY DEF TypeInv, AuthTypeOK
<1>4. \A v \in Writers : ~At(v, "idle")' <=> lock'[ProcessOf[v]] = v
  BY <1>1, <1>3, WritersHaveProcesses, AbsentIsNothing
  DEF Unlock, TypeInv, AuthTypeOK, At, Idle
<1>5. AuthTypeOK'
  BY <1>4 DEF TypeInv, AuthTypeOK, At, Parses
<1>6. QED BY <1>1, <1>2, <1>5 DEF TypeInv, At, Idle

LEMMA CrashKeepsTypes ==
  ASSUME TypeInv, NEW p \in Processes, Crash(p)
  PROVE  TypeInv'
<1>1. \A w \in Writers : writer'[w] = IF ProcessOf[w] = p THEN Idle ELSE writer[w]
  BY DEF Crash
<1>2. writer' \in [Writers -> States]
  BY IdleIsState DEF Crash, TypeInv
<1>3. lock' \in [Processes -> Writers \cup {Absent}]
  BY DEF Crash, TypeInv
<1>4. \A w \in Writers : ~At(w, "idle")' <=> lock'[ProcessOf[w]] = w
  BY <1>1, WritersHaveProcesses, AbsentIsNothing
  DEF Crash, TypeInv, AuthTypeOK, At, Idle
<1>5. AuthTypeOK'
  BY <1>4 DEF Crash, TypeInv, AuthTypeOK, At, Parses
<1>6. QED BY <1>1, <1>2, <1>3, <1>5 DEF Crash, TypeInv, At, Idle

LEMMA StepKeepsTypes == TypeInv /\ [Next]_vars => TypeInv'
<1> SUFFICES ASSUME TypeInv, [Next]_vars PROVE TypeInv'
  OBVIOUS
<1>1. ASSUME NEW w \in Writers, Proceed(w) PROVE TypeInv'
  <2>1. CASE Answer(w)
    <3>1. acked' \subseteq applied /\ ~At(w, "idle")
      BY <2>1 DEF Answer, TypeInv, AuthTypeOK, At
    <3>2. QED BY <2>1, <3>1, ReleaseKeepsTypes DEF Answer
  <2>2. CASE Fail(w)
    <3>1. acked' \subseteq applied /\ ~At(w, "idle")
      BY <2>2 DEF Fail, TypeInv, AuthTypeOK, At
    <3>2. QED BY <2>2, <3>1, ReleaseKeepsTypes DEF Fail
  <2>3. QED BY <1>1, <2>1, <2>2, ReadKeepsTypes, OpenTmpKeepsTypes,
               WriteKeepsTypes, RenameKeepsTypes DEF Proceed
<1>2. CASE UNCHANGED vars
  BY <1>2 DEF vars, TypeInv, AuthTypeOK, At, Parses
<1>3. QED BY <1>1, <1>2, BeginKeepsTypes, CrashKeepsTypes DEF Next

LEMMA TypesHold == Spec => []TypeInv
BY InitTypeInv, StepKeepsTypes, PTL DEF Spec

(* Whatever any number of threads and processes do, the files hold         *)
(* snapshots with one grant for each workspace, or do not parse, and the   *)
(* threads within an apply are the holders of the mutexes.                 *)
THEOREM TypeCorrect == Spec => []AuthTypeOK
<1>1. TypeInv => AuthTypeOK
  BY DEF TypeInv
<1>2. QED BY <1>1, TypesHold, PTL

-----------------------------------------------------------------------------
(* Nobody is authorised by mistake: what the files hold, and what writers  *)
(* will write, was granted by plans applied, or by the writer's own.       *)
GrantedBy(s, plans) ==
  /\ \A g \in s.grants : \E q \in plans :
       q.kind = "workspace" /\ q.workspace_id = g.workspace_id /\ q.hash = g.hash
  /\ \A h \in s.admins : \E q \in plans : q.kind = "admin" /\ q.hash = h

GrantsInv ==
  /\ \A contents \in {file, tmp} : Parses(contents) => GrantedBy(contents, applied)
  /\ \A w \in Writers :
       writer[w].pc \in {"open", "write", "rename"} =>
         GrantedBy(writer[w].next, applied \cup {writer[w].plan})

LEMMA GrantsStay ==
  ASSUME NEW s, NEW P, NEW Q, P \subseteq Q, GrantedBy(s, P)
  PROVE  GrantedBy(s, Q)
BY DEF GrantedBy

LEMMA AppliedIsGranted ==
  ASSUME NEW s \in Snapshots, NEW plan \in Plans, NEW P, GrantedBy(s, P)
  PROVE  GrantedBy(ApplyPlan(s, plan), P \cup {plan})
<1>1. CASE plan.kind = "workspace"
  <2>1. ApplyPlan(s, plan).admins = s.admins
    BY <1>1 DEF ApplyPlan, Snapshots
  <2>2. \A g \in ApplyPlan(s, plan).grants :
          g \in s.grants \/ g = [workspace_id |-> plan.workspace_id, hash |-> plan.hash]
    BY <1>1 DEF ApplyPlan, Snapshots
  <2>3. QED BY <1>1, <2>1, <2>2 DEF GrantedBy
<1>2. CASE plan.kind = "admin"
  <2>1. ApplyPlan(s, plan).grants = s.grants
    BY <1>2 DEF ApplyPlan, Snapshots
  <2>2. ApplyPlan(s, plan).admins = s.admins \cup {plan.hash}
    BY <1>2 DEF ApplyPlan, Snapshots
  <2>3. QED BY <1>2, <2>1, <2>2 DEF GrantedBy
<1>3. QED BY <1>1, <1>2, PlanKinds

LEMMA StepKeepsGrants == TypeInv /\ GrantsInv /\ [Next]_vars => GrantsInv'
<1> SUFFICES ASSUME TypeInv, GrantsInv, [Next]_vars PROVE GrantsInv'
  OBVIOUS
<1>1. ASSUME NEW w \in Writers, NEW plan \in Plans, Begin(w, plan)
      PROVE  GrantsInv'
  <2>1. /\ writer'[w].pc = "read"
        /\ \A v \in Writers \ {w} : writer'[v] = writer[v]
    BY <1>1 DEF Begin, TypeInv, Idle
  <2>2. QED BY <1>1, <2>1 DEF Begin, GrantsInv, Parses
<1>2. ASSUME NEW w \in Writers, Read(w) PROVE GrantsInv'
  <2>1. PICK s \in ReadSnapshot :
          writer' = [writer EXCEPT ![w].pc = "open",
                                   ![w].next = ApplyPlan(s, writer[w].plan)]
    BY <1>2 DEF Read
  <2>2. writer[w] \in States /\ writer[w].plan \in Plans
    BY <1>2 DEF Read, TypeInv, At
  <2>3. /\ writer'[w].next = ApplyPlan(s, writer[w].plan)
        /\ writer'[w].plan = writer[w].plan
        /\ \A v \in Writers \ {w} : writer'[v] = writer[v]
    BY <2>1, <2>2 DEF TypeInv, States
  <2>4. s \in Snapshots /\ GrantedBy(s, applied)
    BY ReadIsSnapshot DEF ReadSnapshot, GrantsInv, GrantedBy, EmptySnapshot, TypeInv
  <2>5. GrantedBy(writer'[w].next, applied' \cup {writer'[w].plan})
    BY <1>2, <2>2, <2>3, <2>4, AppliedIsGranted DEF Read
  <2>6. QED BY <1>2, <2>3, <2>5 DEF Read, GrantsInv, Parses
<1>3. ASSUME NEW w \in Writers, OpenTmp(w) PROVE GrantsInv'
  <2>1. /\ writer'[w].next = writer[w].next
        /\ writer'[w].plan = writer[w].plan
        /\ \A v \in Writers \ {w} : writer'[v] = writer[v]
    BY <1>3 DEF OpenTmp, TypeInv, States
  <2>2. ~Parses(tmp') /\ file' = file /\ applied' = applied
    BY <1>3 DEF OpenTmp, Parses
  <2>3. GrantedBy(writer'[w].next, applied' \cup {writer'[w].plan})
    BY <1>3, <2>1, <2>2 DEF OpenTmp, At, GrantsInv
  <2>4. QED BY <2>1, <2>2, <2>3 DEF GrantsInv, Parses
<1>4. ASSUME NEW w \in Writers, Write(w) PROVE GrantsInv'
  <2> DEFINE next == writer[w].next
  <2>1. /\ writer'[w].next = next
        /\ writer'[w].plan = writer[w].plan
        /\ \A v \in Writers \ {w} : writer'[v] = writer[v]
    BY <1>4 DEF Write, TypeInv, States
  <2>2. applied' = applied \cup {writer[w].plan} /\ applied \subseteq applied'
    BY <1>4 DEF Write
  <2>3. next \in Snapshots /\ OneGrantEach(next) /\ GrantedBy(next, applied')
    BY <1>4, <2>2 DEF Write, At, TypeInv, GrantsInv
  <2>4. file' \in {file, Overwritten(file, next)} /\ tmp' \in {tmp, Overwritten(tmp, next)}
    BY <1>4 DEF Write
  <2>5. /\ Parses(file') => file' \in {file, next}
        /\ Parses(tmp') => tmp' \in {tmp, next}
    BY <2>3, <2>4, OverwrittenIs DEF TypeInv
  <2>6. \A contents \in {file', tmp'} : Parses(contents) => GrantedBy(contents, applied')
    BY <2>2, <2>3, <2>5, GrantsStay DEF GrantsInv
  <2>7. GrantedBy(writer'[w].next, applied' \cup {writer'[w].plan})
    BY <2>1, <2>3, GrantsStay
  <2>8. \A v \in Writers \ {w} : writer'[v].pc \in {"open", "write", "rename"} =>
          GrantedBy(writer'[v].next, applied' \cup {writer'[v].plan})
    <3> SUFFICES ASSUME NEW v \in Writers \ {w}, writer'[v].pc \in {"open", "write", "rename"}
                 PROVE  GrantedBy(writer'[v].next, applied' \cup {writer'[v].plan})
      OBVIOUS
    <3>1. GrantedBy(writer[v].next, applied \cup {writer[v].plan})
      BY <2>1 DEF GrantsInv
    <3>2. QED BY <2>1, <2>2, <3>1, GrantsStay
  <2>9. QED BY <2>6, <2>7, <2>8 DEF GrantsInv, Parses
<1>5. ASSUME NEW w \in Writers, Rename(w) PROVE GrantsInv'
  <2>1. file' = tmp /\ ~Parses(tmp') /\ applied' = applied
    BY <1>5 DEF Rename, Parses
  <2>2. QED BY <1>5, <2>1, RenameMoves DEF GrantsInv, Parses
<1>6. ASSUME NEW w \in Writers, writer' = [writer EXCEPT ![w] = Idle],
             UNCHANGED <<file, tmp, applied>>
      PROVE  GrantsInv'
  <2>1. /\ writer'[w].pc = "idle"
        /\ \A v \in Writers \ {w} : writer'[v] = writer[v]
    BY <1>6 DEF TypeInv, Idle
  <2>2. QED BY <1>6, <2>1 DEF GrantsInv, Parses
<1>7. ASSUME NEW p \in Processes, Crash(p) PROVE GrantsInv'
  <2>1. \A w \in Writers : writer'[w].pc = "idle" \/ writer'[w] = writer[w]
    BY <1>7 DEF Crash, Idle
  <2>2. QED BY <1>7, <2>1 DEF Crash, GrantsInv, Parses
<1>8. CASE UNCHANGED vars
  BY <1>8 DEF vars, GrantsInv, Parses
<1>9. QED BY <1>1, <1>2, <1>3, <1>4, <1>5, <1>6, <1>7, <1>8
          DEF Next, Proceed, Answer, Fail

(* No token opens a workspace, nor anything an admin's opens, that no      *)
(* applied plan granted to it, for any number of threads and processes     *)
(* that fail, die and overwrite each other's files.                        *)
THEOREM OnlyGrantedIsAuthorized == Spec => []AuthorizedIsGranted
<1>1. Init => GrantsInv
  BY DEF Init, GrantsInv, Parses, Idle
<1>2. TypeInv /\ GrantsInv => AuthorizedIsGranted
  <2> SUFFICES ASSUME TypeInv, GrantsInv, Parses(file), NEW t \in Tokens
               PROVE  /\ AuthorizesAdmin(file, t) => PlanAdminTokenGrant(t) \in applied
                      /\ \A w \in Workspaces :
                           AuthorizesWorkspace(file, t, w) =>
                             PlanWorkspaceTokenGrant(w, t) \in applied
    BY DEF AuthorizedIsGranted
  <2>1. GrantedBy(file, applied) /\ applied \subseteq Plans
    BY DEF GrantsInv, TypeInv, AuthTypeOK
  <2>2. ASSUME AuthorizesAdmin(file, t) PROVE PlanAdminTokenGrant(t) \in applied
    <3>1. PICK q \in applied : q.kind = "admin" /\ q.hash = AdminHash(t)
      BY <2>1, <2>2 DEF AuthorizesAdmin, GrantedBy
    <3>2. QED BY <2>1, <3>1, PlanKinds DEF PlanAdminTokenGrant
  <2>3. ASSUME NEW w \in Workspaces, AuthorizesWorkspace(file, t, w)
        PROVE  PlanWorkspaceTokenGrant(w, t) \in applied
    <3>1. PICK q \in applied :
            q.kind = "workspace" /\ q.workspace_id = w /\ q.hash = WorkspaceHash(t)
      BY <2>1, <2>3 DEF AuthorizesWorkspace, Granted, GrantedBy
    <3>2. QED BY <2>1, <3>1, PlanKinds DEF PlanWorkspaceTokenGrant
  <2>4. QED BY <2>2, <2>3
<1>3. QED BY <1>1, <1>2, StepKeepsGrants, TypesHold, PTL DEF Spec

-----------------------------------------------------------------------------
(* The threads of one process.                                             *)
OneProcess == \A v, w \in Writers : ProcessOf[v] = ProcessOf[w]

(* The snapshot that a read would give. *)
Current == IF Parses(file) THEN file ELSE EmptySnapshot

(* What the thread that holds the mutex knows of the two files. *)
HolderKnows(w) ==
  /\ writer[w].pc \in {"open", "write", "rename"} =>
       writer[w].next = ApplyPlan(Current, writer[w].plan)
  /\ At(w, "write") => tmp = Truncated /\ writer[w].open = "tmp"
  /\ At(w, "rename") => tmp = writer[w].next
  /\ At(w, "done") => Parses(file) /\ InForce(writer[w].plan, file)

HolderInv ==
  /\ FileIsWhole
  /\ AckedGrantHolds
  /\ \A w \in Writers : HolderKnows(w)

(* The mutex admits one thread. *)
LEMMA Alone ==
  ASSUME TypeInv, OneProcess, NEW w \in Writers, ~At(w, "idle"),
         NEW v \in Writers, v # w
  PROVE  At(v, "idle")
BY DEF TypeInv, AuthTypeOK, OneProcess

(* The plan of a finished apply is in force, and an earlier one stays so,  *)
(* or the new one has written over it.                                     *)
LEMMA PlanIsInForce ==
  ASSUME NEW s \in Snapshots, NEW plan \in Plans
  PROVE  InForce(plan, ApplyPlan(s, plan))
<1>1. CASE plan.kind = "workspace"
  <2> DEFINE new == [workspace_id |-> plan.workspace_id, hash |-> plan.hash]
  <2>1. new \in ApplyPlan(s, plan).grants
    BY <1>1 DEF ApplyPlan, Snapshots
  <2>2. QED BY <1>1, <2>1 DEF InForce
<1>2. CASE plan.kind = "admin"
  <2>1. plan.hash \in ApplyPlan(s, plan).admins
    BY <1>2 DEF ApplyPlan, Snapshots
  <2>2. QED BY <1>2, <2>1 DEF InForce
<1>3. QED BY <1>1, <1>2, PlanKinds

LEMMA ForceStays ==
  ASSUME NEW s \in Snapshots, NEW plan \in applied, NEW q \in Plans,
         applied \subseteq Plans, InForce(q, s)
  PROVE  InForce(q, ApplyPlan(s, plan))
<1>1. plan \in Plans
  OBVIOUS
<1>2. CASE plan.kind = "workspace"
  <2> DEFINE new == [workspace_id |-> plan.workspace_id, hash |-> plan.hash]
  <2>1. /\ ApplyPlan(s, plan).admins = s.admins
        /\ new \in ApplyPlan(s, plan).grants
        /\ \A g \in s.grants :
             g.workspace_id # plan.workspace_id => g \in ApplyPlan(s, plan).grants
    BY <1>2 DEF ApplyPlan, Snapshots
  <2>2. CASE q.kind = "admin"
    BY <2>1, <2>2 DEF InForce
  <2>3. CASE q.kind = "workspace" /\ q.workspace_id = plan.workspace_id
    <3>1. new.hash = q.hash \/ plan \in applied \ {q}
      OBVIOUS
    <3>2. QED BY <1>2, <2>1, <2>3, <3>1 DEF InForce
  <2>4. CASE q.kind = "workspace" /\ q.workspace_id # plan.workspace_id
    BY <2>1, <2>4 DEF InForce
  <2>5. QED BY <2>2, <2>3, <2>4, PlanKinds
<1>3. CASE plan.kind = "admin"
  <2>1. /\ ApplyPlan(s, plan).grants = s.grants
        /\ s.admins \subseteq ApplyPlan(s, plan).admins
    BY <1>3 DEF ApplyPlan, Snapshots
  <2>2. QED BY <2>1 DEF InForce
<1>4. QED BY <1>1, <1>2, <1>3, PlanKinds

LEMMA CurrentIsSnapshot ==
  ASSUME TypeInv
  PROVE  Current \in Snapshots /\ OneGrantEach(Current)
BY EmptyIsSnapshot DEF Current, TypeInv, AuthTypeOK

(* A step that leaves auth.json and what was answered alone. *)
LEMMA FileKept ==
  ASSUME HolderInv, file' = file, acked' = acked, applied \subseteq applied'
  PROVE  /\ FileIsWhole' /\ AckedGrantHolds'
         /\ Current' = Current
<1>1. ASSUME NEW plan \in acked PROVE (Parses(file) /\ InForce(plan, file))'
  BY <1>1 DEF HolderInv, AckedGrantHolds, Parses, InForce
<1>2. QED BY <1>1 DEF HolderInv, FileIsWhole, AckedGrantHolds, Current, Parses

LEMMA IdleKnows ==
  ASSUME NEW w \in Writers, At(w, "idle") \/ At(w, "read")
  PROVE  HolderKnows(w)
BY DEF HolderKnows, At

LEMMA StepKeepsHolder ==
  ASSUME OneProcess, TypeInv, TypeInv', HolderInv, [Next]_vars
  PROVE  HolderInv'
<1>1. ASSUME NEW w \in Writers, NEW plan \in Plans, Begin(w, plan)
      PROVE  HolderInv'
  <2>1. At(w, "read")' /\ \A v \in Writers \ {w} : At(v, "idle")'
    BY <1>1, Alone DEF Begin, TypeInv, AuthTypeOK, OneProcess, At, Idle
  <2>2. QED BY <1>1, <2>1, FileKept DEF Begin, HolderInv, HolderKnows, At
<1>2. ASSUME NEW w \in Writers, Read(w) PROVE HolderInv'
  <2>1. PICK s \in ReadSnapshot :
          writer' = [writer EXCEPT ![w].pc = "open",
                                   ![w].next = ApplyPlan(s, writer[w].plan)]
    BY <1>2 DEF Read
  <2>2. s = Current
    BY DEF ReadSnapshot, Current, Parses, HolderInv, FileIsWhole
  <2>3. /\ writer'[w].pc = "open"
        /\ writer'[w].next = ApplyPlan(Current, writer'[w].plan)
        /\ \A v \in Writers \ {w} : writer'[v] = writer[v]
    BY <2>1, <2>2 DEF TypeInv, States
  <2>4. \A v \in Writers \ {w} : At(v, "idle")'
    BY <1>2, <2>3, Alone DEF Read, At
  <2>5. FileIsWhole' /\ AckedGrantHolds' /\ Current' = Current
    BY <1>2, FileKept DEF Read
  <2>6. QED BY <2>3, <2>4, <2>5 DEF HolderInv, HolderKnows, At
<1>3. ASSUME NEW w \in Writers, OpenTmp(w) PROVE HolderInv'
  <2>1. /\ writer'[w].pc = "write" /\ writer'[w].open = "tmp"
        /\ writer'[w].next = writer[w].next /\ writer'[w].plan = writer[w].plan
        /\ \A v \in Writers \ {w} : writer'[v] = writer[v]
    BY <1>3 DEF OpenTmp, TypeInv, States
  <2>2. \A v \in Writers \ {w} : At(v, "idle")'
    BY <1>3, <2>1, Alone DEF OpenTmp, At
  <2>3. FileIsWhole' /\ AckedGrantHolds' /\ Current' = Current
    BY <1>3, FileKept DEF OpenTmp
  <2>4. writer[w].next = ApplyPlan(Current, writer[w].plan)
    BY <1>3 DEF OpenTmp, At, HolderInv, HolderKnows
  <2>5. QED BY <1>3, <2>1, <2>2, <2>3, <2>4 DEF OpenTmp, HolderInv, HolderKnows, At
<1>4. ASSUME NEW w \in Writers, Write(w) PROVE HolderInv'
  <2>1. /\ writer'[w].pc = "rename"
        /\ writer'[w].next = writer[w].next /\ writer'[w].plan = writer[w].plan
        /\ \A v \in Writers \ {w} : writer'[v] = writer[v]
    BY <1>4 DEF Write, TypeInv, States
  <2>2. \A v \in Writers \ {w} : At(v, "idle")'
    BY <1>4, <2>1, Alone DEF Write, At
  <2>3. /\ tmp = Truncated /\ writer[w].open = "tmp"
        /\ writer[w].next = ApplyPlan(Current, writer[w].plan)
    BY <1>4 DEF Write, At, HolderInv, HolderKnows
  <2>4. tmp' = writer[w].next /\ file' = file
    BY <1>4, <2>3 DEF Write, Overwritten, Parses
  <2>5. FileIsWhole' /\ AckedGrantHolds' /\ Current' = Current
    BY <1>4, <2>4, FileKept DEF Write
  <2>6. QED BY <2>1, <2>2, <2>3, <2>4, <2>5 DEF HolderInv, HolderKnows, At
<1>5. ASSUME NEW w \in Writers, Rename(w) PROVE HolderInv'
  <2>1. /\ writer'[w].pc = "done" /\ writer'[w].plan = writer[w].plan
        /\ \A v \in Writers \ {w} : writer'[v].pc = writer[v].pc
    BY <1>5, RenameMoves
  <2>2. \A v \in Writers \ {w} : At(v, "idle")'
    BY <1>5, <2>1, Alone DEF Rename, At
  <2>3. /\ writer[w].plan \in Plans /\ writer[w].plan \in applied
        /\ writer[w].next \in Snapshots
    BY <1>5 DEF Rename, At, TypeInv
  <2>4. file' = ApplyPlan(Current, writer[w].plan) /\ file' \in Snapshots
    BY <1>5, <2>3 DEF Rename, At, HolderInv, HolderKnows
  <2>5. Parses(file')
    BY <2>4, SnapshotsParse
  <2>6. applied' = applied /\ acked' = acked
    BY <1>5 DEF Rename
  <2>7. InForce(writer[w].plan, file)'
    <3>1. InForce(writer[w].plan, ApplyPlan(Current, writer[w].plan))
      BY <2>3, CurrentIsSnapshot, PlanIsInForce
    <3>2. QED BY <2>1, <2>4, <2>6, <3>1 DEF InForce
  <2>8. ASSUME NEW q \in acked PROVE (Parses(file) /\ InForce(q, file))'
    <3>1. q \in Plans /\ applied \subseteq Plans
      BY DEF TypeInv, AuthTypeOK
    <3>2. InForce(q, Current)
      BY DEF HolderInv, AckedGrantHolds, Current
    <3>3. InForce(q, ApplyPlan(Current, writer[w].plan))
      BY <2>3, <3>1, <3>2, CurrentIsSnapshot, ForceStays
    <3>4. QED BY <2>4, <2>5, <2>6, <3>3 DEF InForce, Parses
  <2>9. QED BY <2>1, <2>2, <2>5, <2>6, <2>7, <2>8
            DEF HolderInv, HolderKnows, FileIsWhole, AckedGrantHolds, At, Parses
<1>6. ASSUME NEW w \in Writers, Answer(w) PROVE HolderInv'
  <2>1. writer'[w] = Idle /\ \A v \in Writers \ {w} : writer'[v] = writer[v]
    BY <1>6 DEF Answer, TypeInv
  <2>2. \A v \in Writers : At(v, "idle")'
    BY <1>6, <2>1, Alone DEF Answer, At, Idle
  <2>3. Parses(file) /\ InForce(writer[w].plan, file)
    BY <1>6 DEF Answer, At, HolderInv, HolderKnows
  <2>4. acked' = acked \cup {writer[w].plan} /\ UNCHANGED <<file, applied>>
    BY <1>6 DEF Answer
  <2>5. AckedGrantHolds'
    BY <2>3, <2>4 DEF HolderInv, AckedGrantHolds, InForce, Parses
  <2>6. FileIsWhole'
    BY <2>3, <2>4 DEF FileIsWhole, Parses
  <2>7. QED BY <2>2, <2>5, <2>6 DEF HolderInv, HolderKnows, At
<1>7. ASSUME NEW w \in Writers, Fail(w) PROVE HolderInv'
  <2>1. writer'[w] = Idle /\ \A v \in Writers \ {w} : writer'[v] = writer[v]
    BY <1>7 DEF Fail, TypeInv
  <2>2. \A v \in Writers : At(v, "idle")'
    BY <1>7, <2>1, Alone DEF Fail, At, Idle
  <2>3. FileIsWhole' /\ AckedGrantHolds'
    BY <1>7, FileKept DEF Fail
  <2>4. QED BY <2>2, <2>3 DEF HolderInv, HolderKnows, At
<1>8. ASSUME NEW p \in Processes, Crash(p) PROVE HolderInv'
  <2>1. FileIsWhole' /\ AckedGrantHolds' /\ Current' = Current
    BY <1>8, FileKept DEF Crash
  <2>2. \A w \in Writers : At(w, "idle")' \/ writer'[w] = writer[w]
    BY <1>8 DEF Crash, At, Idle
  <2>3. QED BY <1>8, <2>1, <2>2 DEF Crash, HolderInv, HolderKnows, At, InForce, Parses
<1>9. CASE UNCHANGED vars
  BY <1>9 DEF vars, HolderInv, HolderKnows, FileIsWhole, AckedGrantHolds, InForce,
              Parses, Current, At
<1>10. QED BY <1>1, <1>2, <1>3, <1>4, <1>5, <1>6, <1>7, <1>8, <1>9 DEF Next, Proceed

LEMMA HolderHolds ==
  ASSUME OneProcess
  PROVE  Spec => []HolderInv
<1>1. Init => HolderInv
  BY DEF Init, HolderInv, HolderKnows, FileIsWhole, AckedGrantHolds, At, Idle
<1>2. TypeInv /\ TypeInv' /\ HolderInv /\ [Next]_vars => HolderInv'
  BY StepKeepsHolder
<1>3. QED BY <1>1, <1>2, TypesHold, PTL DEF Spec

(* In one process auth.json is absent or parses at every moment, whichever *)
(* step fails and whenever the process dies.                               *)
THEOREM FileStaysWhole ==
  ASSUME OneProcess
  PROVE  Spec => []FileIsWhole
<1>1. HolderInv => FileIsWhole
  BY DEF HolderInv
<1>2. QED BY <1>1, HolderHolds, PTL

(* In one process a grant that was answered stays in force until another   *)
(* grant of its workspace is written over it.                              *)
THEOREM AnsweredGrantStays ==
  ASSUME OneProcess
  PROVE  Spec => []AckedGrantHolds
<1>1. HolderInv => AckedGrantHolds
  BY DEF HolderInv
<1>2. QED BY <1>1, HolderHolds, PTL

-----------------------------------------------------------------------------
(* auth.json implements Grants.                                            *)
LEMMA GrantIsCurrent ==
  /\ \A w : GrantOf(w) = HashOf(Own(Current.grants, w))
  /\ (IF Parses(file) THEN file.admins ELSE {}) = Current.admins
<1>1. CASE Parses(file)
  BY <1>1 DEF GrantOf, Current
<1>2. CASE ~Parses(file)
  BY <1>2 DEF GrantOf, Current, EmptySnapshot
<1>3. QED BY <1>1, <1>2

LEMMA HashOfOne == \A g : HashOf({g}) = g.hash
<1> TAKE g
<1>1. (CHOOSE h \in {g} : TRUE) = g
  OBVIOUS
<1>2. QED BY <1>1 DEF HashOf

LEMMA GrantChangesHash ==
  ASSUME NEW s \in Snapshots, NEW plan \in Plans, plan.kind = "workspace", NEW w
  PROVE  HashOf(Own(ApplyPlan(s, plan).grants, w))
           = IF w = plan.workspace_id THEN plan.hash ELSE HashOf(Own(s.grants, w))
<1> DEFINE new == [workspace_id |-> plan.workspace_id, hash |-> plan.hash]
           after == ApplyPlan(s, plan).grants
<1>1. after = {g \in s.grants : g.workspace_id # plan.workspace_id} \cup {new}
  BY DEF ApplyPlan, Snapshots
<1>2. CASE w = plan.workspace_id
  <2>1. Own(after, w) = {new}
    BY <1>1, <1>2 DEF Own
  <2>2. HashOf({new}) = plan.hash
    <3>1. HashOf({new}) = new.hash
      BY HashOfOne
    <3>2. QED BY <3>1
  <2>3. HashOf(Own(after, w)) = HashOf({new})
    <3> HIDE DEF after, new
    <3>1. QED BY <2>1
  <2>4. QED BY <1>2, <2>2, <2>3
<1>3. CASE w # plan.workspace_id
  <2>1. Own(after, w) = Own(s.grants, w)
    BY <1>1, <1>3 DEF Own
  <2>2. HashOf(Own(after, w)) = HashOf(Own(s.grants, w))
    <3> HIDE DEF after
    <3>1. QED BY <2>1
  <2>3. QED BY <1>3, <2>2
<1>4. QED BY <1>2, <1>3

(* A step that leaves auth.json alone stutters. *)
LEMMA SameFileSameGrants ==
  ASSUME file' = file
  PROVE  UNCHANGED <<[w \in Workspaces |-> GrantOf(w)],
                     IF Parses(file) THEN file.admins ELSE {}>>
BY DEF GrantOf, Parses

(* A rename is the grant of its plan. *)
LEMMA RenameGrants ==
  ASSUME TypeInv, TypeInv', HolderInv, HolderInv', NEW w \in Writers, Rename(w)
  PROVE  G!Next
<1> DEFINE plan == writer[w].plan
<1>1. plan \in Plans /\ file' = ApplyPlan(Current, plan) /\ Parses(file')
  BY RenameMoves DEF Rename, At, TypeInv, HolderInv, HolderKnows, Parses
<1>2. Current \in Snapshots /\ Current' = ApplyPlan(Current, plan)
  BY <1>1, CurrentIsSnapshot DEF Current, Parses
<1>3. /\ \A v : GrantOf(v) = HashOf(Own(Current.grants, v))
      /\ (IF Parses(file) THEN file.admins ELSE {}) = Current.admins
  BY GrantIsCurrent
<1>4. /\ \A v : GrantOf(v)' = HashOf(Own(ApplyPlan(Current, plan).grants, v))
      /\ (IF Parses(file) THEN file.admins ELSE {})' = ApplyPlan(Current, plan).admins
  BY <1>1 DEF GrantOf, Parses
<1>5. CASE plan.kind = "workspace"
  <2>1. PICK t \in Tokens : plan.hash = WorkspaceHash(t)
    BY <1>1, <1>5, PlanKinds
  <2>2. plan.workspace_id \in Workspaces
    BY <1>1, <1>5, PlanKinds
  <2>3. \A v : GrantOf(v)' = IF v = plan.workspace_id THEN plan.hash ELSE GrantOf(v)
    BY <1>2, <1>3, <1>4, <1>5, GrantChangesHash, <1>1
  <2>4. [v \in Workspaces |-> GrantOf(v)]'
          = [[v \in Workspaces |-> GrantOf(v)] EXCEPT ![plan.workspace_id] = plan.hash]
    BY <2>2, <2>3
  <2>5. ApplyPlan(Current, plan).admins = Current.admins
    BY <1>2, <1>5 DEF ApplyPlan, Snapshots
  <2>6. G!Grant(plan.workspace_id, plan.hash)
    BY <1>3, <1>4, <2>4, <2>5 DEF G!Grant
  <2>7. QED BY <2>1, <2>2, <2>6 DEF G!Next
<1>6. CASE plan.kind = "admin"
  <2>1. PICK t \in Tokens : plan.hash = AdminHash(t)
    BY <1>1, <1>6, PlanKinds
  <2>2. /\ ApplyPlan(Current, plan).grants = Current.grants
        /\ ApplyPlan(Current, plan).admins = Current.admins \cup {plan.hash}
    BY <1>2, <1>6 DEF ApplyPlan, Snapshots
  <2>3. \A v : GrantOf(v)' = GrantOf(v)
    BY <1>3, <1>4, <2>2
  <2>4. [v \in Workspaces |-> GrantOf(v)]' = [v \in Workspaces |-> GrantOf(v)]
    BY <2>3
  <2>5. G!GrantAdmin(plan.hash)
    BY <1>3, <1>4, <2>2, <2>4 DEF G!GrantAdmin
  <2>6. QED BY <2>1, <2>5 DEF G!Next
<1>7. QED BY <1>1, <1>5, <1>6, PlanKinds

(* In one process every apply is one atomic grant, at its rename, and what *)
(* fails or dies before it grants nothing.                                 *)
THEOREM StoreImplementsGrants ==
  ASSUME OneProcess
  PROVE  Spec => GrantsSpec
<1>1. Init => G!Init
  <2>1. \A w : Own({}, w) = {}
    BY DEF Own
  <2>2. HashOf({}) = Absent
    BY DEF HashOf
  <2>3. Init => ~Parses(file)
    BY DEF Init, Parses
  <2>4. QED BY <2>1, <2>2, <2>3 DEF G!Init, GrantOf
<1>2. TypeInv /\ TypeInv' /\ HolderInv /\ HolderInv' /\ [Next]_vars
        => [G!Next]_<<[w \in Workspaces |-> GrantOf(w)],
                      IF Parses(file) THEN file.admins ELSE {}>>
  <2> SUFFICES ASSUME TypeInv, TypeInv', HolderInv, HolderInv', [Next]_vars,
                      file' # file
               PROVE  G!Next
    BY SameFileSameGrants
  <2>1. ASSUME NEW w \in Writers, Write(w) PROVE FALSE
    BY <2>1 DEF Write, At, HolderInv, HolderKnows
  <2>2. PICK w \in Writers : Rename(w)
    BY <2>1 DEF Next, Proceed, vars, Begin, Read, OpenTmp, Answer, Fail, Crash
  <2>3. QED BY <2>2, RenameGrants
<1>3. QED BY <1>1, <1>2, TypesHold, HolderHolds, PTL DEF Spec, GrantsSpec, G!Spec

=============================================================================
