--------------------------- MODULE MigrationProofs ---------------------------
(***************************************************************************)
(* Proofs about Migration: what an opened store has, for any processes and *)
(* any database they may find.                                             *)
(***************************************************************************)
EXTENDS Migration, SequenceTheorems, TLAPS

(* The script is a sequence, whichever statements it is of. *)
LEMMA ScriptIsSequence ==
  /\ Len(Script) \in Nat
  /\ DOMAIN Script = 1 .. Len(Script)
<1> DEFINE S == {SchemaSql[i] : i \in 1 .. 29} \cup {AddedColumns[i] : i \in 1 .. 7}
                  \cup {Guards[i] : i \in 1 .. 2}
<1>1. SchemaSql \in Seq(S)
  <2>1. SchemaSql = [i \in 1 .. 29 |-> SchemaSql[i]]
    BY DEF SchemaSql
  <2>2. QED BY <2>1
<1>2. AddedColumns \in Seq(S)
  <2>1. AddedColumns = [i \in 1 .. 7 |-> AddedColumns[i]]
    BY DEF AddedColumns
  <2>2. QED BY <2>1
<1>3. Guards \in Seq(S)
  <2>1. Guards = [i \in 1 .. 2 |-> Guards[i]]
    BY DEF Guards
  <2>2. QED BY <2>1
<1>4. Script \in Seq(S)
  <2> HIDE DEF S
  <2>1. SchemaSql \o AddedColumns \in Seq(S)
    BY <1>1, <1>2
  <2>2. QED BY <1>3, <2>1 DEF Script
<1>5. QED BY <1>4

(* What is added later is columns, and no index. *)
LEMMA ColumnsAreColumns == \A c \in Columns : c[1] = "column"
<1>1. DOMAIN AddedColumns = 1 .. 7
  BY DEF AddedColumns
<1>2. \A i \in 1 .. 7 : AddedColumns[i][1] = "column"
  BY DEF AddedColumns, Column
<1>3. QED BY <1>1, <1>2 DEF Columns

-----------------------------------------------------------------------------
(* Who is at a statement has seen to the ones before it. *)
States == [at : 0 .. VersionStep + 1, missing : BOOLEAN, error : Errors]

Ensured(at) == \A i \in DOMAIN Script : i < at => Script[i] \in store

MigrationInv ==
  /\ IndexesHaveColumns(store)
  /\ version \in {0, CurrentVersion}
  /\ opener \in [Openers -> States]
  /\ \A o \in Openers : Ensured(opener[o].at)
  /\ VersionMeansCurrent

LEMMA EnsuredStays ==
  ASSUME store \subseteq store'
  PROVE  /\ \A n : Ensured(n) => Ensured(n)'
         /\ IsCurrent => IsCurrent'
BY DEF Ensured, IsCurrent

(* Where an opener goes it has seen to what is before. *)
LEMMA OpenerSteps ==
  ASSUME MigrationInv, NEW o \in Openers, store \subseteq store',
         NEW at \in 0 .. VersionStep + 1, NEW missing \in BOOLEAN, NEW error \in Errors,
         Goes(o, State(at, missing, error)), Ensured(at)'
  PROVE  /\ opener' \in [Openers -> States]
         /\ \A q \in Openers : Ensured(opener[q].at)'
<1>1. State(at, missing, error) \in States
  BY DEF State, States
<1>2. opener' = [opener EXCEPT ![o] = State(at, missing, error)]
  BY DEF Goes
<1>3. opener' \in [Openers -> States]
  BY <1>1, <1>2 DEF MigrationInv
<1>4. ASSUME NEW q \in Openers PROVE Ensured(opener[q].at)'
  <2>1. CASE q = o
    <3>1. opener'[q].at = at
      BY <1>2, <2>1 DEF MigrationInv, State
    <3>2. QED BY <3>1 DEF Ensured
  <2>2. CASE q # o
    <3>1. opener'[q] = opener[q] /\ Ensured(opener[q].at)
      BY <1>2, <2>2 DEF MigrationInv
    <3>2. QED BY <3>1 DEF Ensured
  <2>3. QED BY <2>1, <2>2
<1>5. QED BY <1>3, <1>4

LEMMA NothingBefore == \A n \in {0, 1} : Ensured(n)'
BY ScriptIsSequence DEF Ensured

(* An opener that proceeds has seen to its statement. *)
LEMMA ProceedEnsures ==
  ASSUME MigrationInv, NEW o \in Openers, store \subseteq store', Proceeds(o),
         \/ opener[o].at \in DOMAIN Script /\ Statement(o) \in store'
         \/ opener[o].at = VersionStep
  PROVE  /\ opener' \in [Openers -> States]
         /\ \A q \in Openers : Ensured(opener[q].at)'
<1>1. VersionStep \in Nat /\ DOMAIN Script = 1 .. VersionStep - 1
  BY ScriptIsSequence DEF VersionStep
<1>2. opener[o].at \in 0 .. VersionStep
  BY <1>1
<1>3. PICK n \in 0 .. VersionStep + 1 : n = opener[o].at + 1
  BY <1>1, <1>2
<1>4. Ensured(n)'
  <2>1. SUFFICES ASSUME NEW i \in DOMAIN Script, i < n PROVE Script[i] \in store'
    BY DEF Ensured
  <2>2. CASE i = opener[o].at
    BY <1>1, <2>2 DEF Statement
  <2>3. CASE i < opener[o].at
    BY <2>3 DEF MigrationInv, Ensured
  <2>4. QED BY <1>1, <1>2, <1>3, <2>1, <2>2, <2>3
<1>5. Goes(o, State(n, FALSE, "none"))
  BY <1>3 DEF Proceeds
<1>6. QED BY <1>4, <1>5, OpenerSteps DEF Errors

(* An opener that is closed, opens or aborts has nothing to see to. *)
LEMMA CloseEnsures ==
  ASSUME MigrationInv, NEW o \in Openers, store \subseteq store',
         NEW n \in {0, 1}, NEW error \in Errors, Goes(o, State(n, FALSE, error))
  PROVE  /\ opener' \in [Openers -> States]
         /\ \A q \in Openers : Ensured(opener[q].at)'
<1>1. n \in 0 .. VersionStep + 1
  BY ScriptIsSequence DEF VersionStep
<1>2. QED BY <1>1, NothingBefore, OpenerSteps

(* Statements keep indexes with their columns. *)
LEMMA IndexesStay ==
  ASSUME IndexesHaveColumns(store), NEW x, Allowed(x)
  PROVE  IndexesHaveColumns(store \cup Creates(x))
<1>1. SUFFICES ASSUME NEW y \in store \cup Creates(x), y[1] = "index",
                      Column(y[2], y[3]) \in Columns
               PROVE  Column(y[2], y[3]) \in store
  BY DEF IndexesHaveColumns
<1>2. CASE y \in store
  BY <1>1, <1>2 DEF IndexesHaveColumns
<1>3. CASE y = x
  BY <1>1, <1>3 DEF Allowed
<1>4. CASE y \in Columns
  BY <1>1, <1>4, ColumnsAreColumns
<1>5. QED BY <1>1, <1>2, <1>3, <1>4 DEF Creates

LEMMA StepKeepsMigrationInv ==
  ASSUME MigrationInv, [Next]_vars
  PROVE  MigrationInv'
<1> DEFINE Grown ==
             /\ store \subseteq store' /\ IndexesHaveColumns(store')
             /\ version' = version
           Moved ==
             /\ opener' \in [Openers -> States]
             /\ \A q \in Openers : Ensured(opener[q].at)'
<1>1. ASSUME Grown, Moved PROVE MigrationInv'
  <2>1. VersionMeansCurrent'
    BY <1>1, EnsuredStays DEF MigrationInv, VersionMeansCurrent
  <2>2. QED BY <1>1, <2>1 DEF MigrationInv, IndexesHaveColumns
<1>2. ASSUME UNCHANGED <<store, version>> PROVE Grown
  BY <1>2 DEF MigrationInv
<1> HIDE DEF Grown, Moved
<1>3. ASSUME NEW o \in Openers, Open(o) PROVE MigrationInv'
  <2>1. Goes(o, State(1, FALSE, "none")) /\ UNCHANGED <<store, version>>
    BY <1>3 DEF Open
  <2>2. Moved
    BY <2>1, CloseEnsures DEF Moved, Errors
  <2>3. QED BY <1>1, <1>2, <2>1, <2>2
<1>4. ASSUME NEW o \in Openers, Create(o) PROVE MigrationInv'
  <2>1. opener[o].at \in DOMAIN Script /\ version' = version
    BY <1>4 DEF Create, IsAt
  <2>2. CASE Statement(o) \in store /\ Proceeds(o) /\ UNCHANGED store
    <3>1. Moved
      BY <2>1, <2>2, ProceedEnsures DEF Moved
    <3>2. QED BY <1>1, <1>2, <2>1, <2>2, <3>1
  <2>3. CASE /\ Allowed(Statement(o)) /\ Proceeds(o)
             /\ store' = store \cup Creates(Statement(o))
    <3>1. store \subseteq store' /\ Statement(o) \in store'
      BY <2>3 DEF Creates
    <3>2. Moved
      BY <2>1, <2>3, <3>1, ProceedEnsures DEF Moved
    <3>3. IndexesHaveColumns(store')
      <4>1. PICK x : x = Statement(o)
        OBVIOUS
      <4>2. IndexesHaveColumns(store \cup Creates(x))
        BY <2>3, <4>1, IndexesStay DEF MigrationInv
      <4>3. QED BY <2>3, <4>1, <4>2
    <3>4. Grown
      BY <2>1, <3>1, <3>3 DEF Grown
    <3>5. QED BY <1>1, <3>2, <3>4
  <2>4. CASE Aborts(o, "no such column") /\ UNCHANGED store
    <3>1. Moved
      BY <2>4, CloseEnsures DEF Moved, Aborts, Errors
    <3>2. QED BY <1>1, <1>2, <2>1, <2>4, <3>1
  <2>5. QED BY <1>4, <2>2, <2>3, <2>4 DEF Create
<1>5. ASSUME NEW o \in Openers, LookAtColumns(o) PROVE MigrationInv'
  <2>1. opener[o].at \in DOMAIN Script /\ UNCHANGED <<store, version>>
    BY <1>5 DEF LookAtColumns, IsAt
  <2>2. CASE Statement(o) \in store /\ Proceeds(o)
    <3>1. Moved
      BY <2>1, <2>2, ProceedEnsures DEF Moved
    <3>2. QED BY <1>1, <1>2, <2>1, <3>1
  <2>3. CASE SeesMissing(o)
    <3>1. PICK n \in 0 .. VersionStep + 1 : n = opener[o].at
      BY <2>1, ScriptIsSequence DEF VersionStep
    <3>2. Ensured(n)'
      BY <2>1, <3>1 DEF MigrationInv, Ensured
    <3>3. Goes(o, State(n, TRUE, "none"))
      BY <2>3, <3>1 DEF SeesMissing
    <3>4. Moved
      BY <2>1, <3>2, <3>3, OpenerSteps DEF Moved, Errors
    <3>5. QED BY <1>1, <1>2, <2>1, <3>4
  <2>4. QED BY <1>5, <2>2, <2>3 DEF LookAtColumns
<1>6. ASSUME NEW o \in Openers, AddColumn(o) PROVE MigrationInv'
  <2>1. /\ opener[o].at \in DOMAIN Script /\ Statement(o)[1] = "column"
        /\ store' = store \cup {Statement(o)} /\ version' = version
    BY <1>6 DEF AddColumn, IsAt
  <2>2. store \subseteq store' /\ Statement(o) \in store'
    BY <2>1
  <2>3. Moved
    <3>1. CASE Aborts(o, "duplicate column")
      BY <2>2, <3>1, CloseEnsures DEF Moved, Aborts, Errors
    <3>2. CASE Proceeds(o)
      BY <2>1, <2>2, <3>2, ProceedEnsures DEF Moved
    <3>3. QED BY <1>6, <3>1, <3>2 DEF AddColumn
  <2>4. IndexesHaveColumns(store')
    BY <2>1 DEF MigrationInv, IndexesHaveColumns
  <2>5. QED BY <1>1, <2>1, <2>2, <2>3, <2>4 DEF Grown
<1>7. ASSUME NEW o \in Openers, SetVersion(o) PROVE MigrationInv'
  <2>1. /\ opener[o].at = VersionStep /\ Proceeds(o)
        /\ store' = store /\ version' = CurrentVersion
    BY <1>7 DEF SetVersion
  <2>2. Moved
    BY <2>1, ProceedEnsures DEF Moved
  <2>3. IsCurrent
    BY <2>1, ScriptIsSequence DEF MigrationInv, Ensured, IsCurrent, VersionStep
  <2>4. VersionMeansCurrent'
    BY <2>1, <2>3 DEF VersionMeansCurrent, IsCurrent
  <2>5. QED BY <2>1, <2>2, <2>4 DEF MigrationInv, Moved, IndexesHaveColumns
<1>8. ASSUME NEW o \in Openers, Close(o) \/ Fault(o) PROVE MigrationInv'
  <2>1. Goes(o, State(0, FALSE, "none")) /\ UNCHANGED <<store, version>>
    BY <1>8 DEF Close, Fault, Closed
  <2>2. Moved
    BY <2>1, CloseEnsures DEF Moved, Errors
  <2>3. QED BY <1>1, <1>2, <2>1, <2>2
<1>9. CASE UNCHANGED vars
  BY <1>9 DEF vars, MigrationInv, IndexesHaveColumns, Ensured, VersionMeansCurrent,
              IsCurrent
<1>10. QED BY <1>3, <1>4, <1>5, <1>6, <1>7, <1>8, <1>9 DEF Next, Proceed

LEMMA MigrationInvHolds == Spec => []MigrationInv
<1>1. Init => MigrationInv
  <2> SUFFICES ASSUME Init PROVE MigrationInv
    OBVIOUS
  <2>1. IndexesHaveColumns(store)
    BY OldStoresAreWhole DEF Init
  <2>2. \A o \in Openers : opener[o] = Closed /\ opener[o].at = 0
    BY DEF Init, Closed, State
  <2>3. Closed \in States
    BY ScriptIsSequence DEF Closed, State, States, Errors, VersionStep
  <2>4. \A o \in Openers : Ensured(opener[o].at)
    BY <2>2, ScriptIsSequence DEF Ensured
  <2>5. QED BY <2>1, <2>3, <2>4 DEF Init, MigrationInv, VersionMeansCurrent, CurrentVersion
<1>2. MigrationInv /\ [Next]_vars => MigrationInv'
  BY StepKeepsMigrationInv
<1>3. QED BY <1>1, <1>2, PTL DEF Spec

(* Indexes have their columns whichever statements failed, and every       *)
(* opener is at a statement.                                               *)
THEOREM TypeCorrect == Spec => []MigrationTypeOK
<1>1. MigrationInv => MigrationTypeOK
  BY DEF MigrationInv, MigrationTypeOK, States
<1>2. QED BY <1>1, MigrationInvHolds, PTL

(* Whoever has opened the store finds the current schema, whatever other   *)
(* processes, crashes and failures there were.                             *)
THEOREM OpenedStoreIsCurrent == Spec => []OpenedIsCurrent
<1>1. MigrationInv => OpenedIsCurrent
  BY ScriptIsSequence DEF MigrationInv, OpenedIsCurrent, Opened, Ensured, IsCurrent,
     VersionStep
<1>2. QED BY <1>1, MigrationInvHolds, PTL

(* The version is written when everything else is there, and what is there *)
(* stays.                                                                  *)
THEOREM VersionComesLast == Spec => []VersionMeansCurrent
<1>1. MigrationInv => VersionMeansCurrent
  BY DEF MigrationInv
<1>2. QED BY <1>1, MigrationInvHolds, PTL
=============================================================================
