------------------------------ MODULE Migration ------------------------------
(***************************************************************************)
(* Opening the store (axiomsync-store-sqlite context_db.rs, schema.sql).   *)
(*                                                                         *)
(* Every command opens context.db: it runs schema.sql, then                *)
(* migrate_current, which adds the columns and the triggers that a database*)
(* of an older version lacks, and writes user_version last.  Each statement*)
(* commits by itself.  Several processes may open one file at a time, and  *)
(* each may die or fail between two statements and be started again.       *)
(*                                                                         *)
(* A database is the set of the tables, columns, indexes and triggers it   *)
(* has, as far as older versions may lack them.                            *)
(***************************************************************************)
EXTENDS Naturals, Sequences

CONSTANTS
  Openers,     \* the processes
  OldStores,   \* what context.db may hold at first
  MaxFaults    \* bound: how often a process dies or a statement fails

CurrentVersion == 2

VARIABLES
  store,     \* what context.db holds
  version,   \* its user_version
  opener,    \* [Openers -> the statement it is at, and what it knows]
  faults     \* how often a process has died

vars == <<store, version, opener, faults>>

-----------------------------------------------------------------------------
(* The statements, each with what it makes sure of. *)
Table(t) == <<"table", t>>
Column(t, c) == <<"column", t, c>>
Index(t, c) == <<"index", t, c>>
Trigger(event) == <<"trigger", event>>

SchemaSql ==
  <<Table("ingress_receipts"), Index("ingress_receipts", "dedupe_key"),
    Index("ingress_receipts", "projection_state"),
    Index("ingress_receipts", "derived_state"),
    Index("ingress_receipts", "index_state"),
    Index("ingress_receipts", "observed_at"), Table("source_cursor"),
    Table("sessions"), Index("sessions", "external_session_key"),
    Table("actors"), Table("entries"), Index("entries", "seq_no"),
    Table("artifacts"), Table("anchors"), Table("episodes"), Table("insights"),
    Table("insight_anchors"), Table("verifications"), Table("claims"),
    Table("claim_evidence"), Table("procedures"), Table("procedure_evidence"),
    Table("entry_search_fts"), Table("episode_search_fts"),
    Table("claim_search_fts"), Table("insight_search_fts"),
    Table("procedure_search_fts"), Table("search_docs"),
    Table("search_docs_fts")>>

AddedColumns ==
  <<Column("ingress_receipts", "normalized_json"),
    Column("ingress_receipts", "projection_state"),
    Column("ingress_receipts", "derived_state"),
    Column("ingress_receipts", "index_state"),
    Column("source_cursor", "metadata_json"),
    Column("procedures", "status"), Column("procedures", "episode_id")>>

(* migrate_current repeats ten of the statements of schema.sql, which do   *)
(* nothing by then, and adds the guards of the anchors.                    *)
Guards == <<Trigger("INSERT"), Trigger("UPDATE")>>

Script == SchemaSql \o AddedColumns \o Guards

Columns == {AddedColumns[i] : i \in DOMAIN AddedColumns}

(* An index is of columns that are there. *)
IndexesHaveColumns(objects) ==
  \A x \in objects :
    x[1] = "index" /\ Column(x[2], x[3]) \in Columns => Column(x[2], x[3]) \in objects

ASSUME OldStoresAreWhole == \A old \in OldStores : IndexesHaveColumns(old)

(* A new table has the columns of the current schema. *)
Creates(x) ==
  {x} \cup IF x[1] = "table" THEN {c \in Columns : c[2] = x[2]} ELSE {}

(* Faulty: any index can be created. *)
AllowedAlways(x) == TRUE

(* An index on a column that is missing is an error. *)
Allowed(x) ==
  x[1] = "index" /\ Column(x[2], x[3]) \in Columns => Column(x[2], x[3]) \in store

-----------------------------------------------------------------------------
(* An opener that is closed is at 0, one that is open past the version.    *)
VersionStep == Len(Script) + 1
Opened(o) == opener[o].at = VersionStep + 1

Errors == {"none", "no such column", "duplicate column"}

State(at, missing, error) == [at |-> at, missing |-> missing, error |-> error]

Closed == State(0, FALSE, "none")

Init ==
  /\ store \in OldStores
  /\ version = 0
  /\ opener = [o \in Openers |-> Closed]
  /\ faults = 0

Statement(o) == Script[opener[o].at]
IsAt(o, kinds) == opener[o].at \in DOMAIN Script /\ Statement(o)[1] \in kinds

Goes(o, state) == opener' = [opener EXCEPT ![o] = state]
Proceeds(o) == Goes(o, State(opener[o].at + 1, FALSE, "none"))
Aborts(o, error) == Goes(o, State(0, FALSE, error))
SeesMissing(o) == Goes(o, State(opener[o].at, TRUE, "none"))

(* ContextDb::open, at the start of a command. *)
Open(o) ==
  /\ opener[o].at = 0
  /\ Goes(o, State(1, FALSE, "none"))
  /\ UNCHANGED <<store, version, faults>>

(* create ... if not exists. *)
Create(o) ==
  /\ IsAt(o, {"table", "index", "trigger"})
  /\ \/ /\ Statement(o) \in store
        /\ Proceeds(o)
        /\ UNCHANGED store
     \/ /\ Statement(o) \notin store /\ Allowed(Statement(o))
        /\ store' = store \cup Creates(Statement(o))
        /\ Proceeds(o)
     \/ /\ Statement(o) \notin store /\ ~Allowed(Statement(o))
        /\ Aborts(o, "no such column")
        /\ UNCHANGED store
  /\ UNCHANGED <<version, faults>>

(* Faulty: the columns are not looked at, or only their table is. *)
LookAtNothing(o) ==
  /\ IsAt(o, {"column"}) /\ ~opener[o].missing
  /\ SeesMissing(o)
  /\ UNCHANGED <<store, version, faults>>

LookAtTable(o) ==
  /\ IsAt(o, {"column"}) /\ ~opener[o].missing
  /\ IF Table(Statement(o)[2]) \in store THEN Proceeds(o)
     ELSE SeesMissing(o)
  /\ UNCHANGED <<store, version, faults>>

(* ensure_column: pragma table_info, and then alter table. *)
LookAtColumns(o) ==
  /\ IsAt(o, {"column"}) /\ ~opener[o].missing
  /\ IF Statement(o) \in store THEN Proceeds(o)
     ELSE SeesMissing(o)
  /\ UNCHANGED <<store, version, faults>>

AddColumn(o) ==
  /\ IsAt(o, {"column"}) /\ opener[o].missing
  /\ IF Statement(o) \in store THEN Aborts(o, "duplicate column")
     ELSE Proceeds(o)
  /\ store' = store \cup {Statement(o)}
  /\ UNCHANGED <<version, faults>>

(* Faulty: the version is written first. *)
SetVersionFirst(o) ==
  /\ \/ opener[o].at = 1 /\ version = 0 /\ UNCHANGED opener
     \/ opener[o].at = VersionStep /\ Proceeds(o)
  /\ version' = CurrentVersion
  /\ UNCHANGED <<store, faults>>

SetVersion(o) ==
  /\ opener[o].at = VersionStep
  /\ version' = CurrentVersion
  /\ Proceeds(o)
  /\ UNCHANGED <<store, faults>>

(* The command ends. *)
Close(o) ==
  /\ Opened(o)
  /\ Goes(o, Closed)
  /\ UNCHANGED <<store, version, faults>>

(* A statement fails, the file being locked or full, or the process dies.  *)
Fault(o) ==
  /\ faults < MaxFaults
  /\ opener[o].at # 0
  /\ Goes(o, Closed)
  /\ faults' = faults + 1
  /\ UNCHANGED <<store, version>>

Proceed(o) ==
  Open(o) \/ Create(o) \/ LookAtColumns(o) \/ AddColumn(o) \/ SetVersion(o)

Next == \E o \in Openers : Proceed(o) \/ Close(o) \/ Fault(o)

Spec == Init /\ [][Next]_vars

(* A process that opens the store goes on, and is started again. *)
FairSpec == Spec /\ \A o \in Openers : WF_vars(Proceed(o))

-----------------------------------------------------------------------------
(* Properties.                                                             *)

(* An index never is of a column that is missing, and what an opener is at *)
(* is a statement.                                                         *)
MigrationTypeOK ==
  /\ IndexesHaveColumns(store)
  /\ version \in {0, CurrentVersion}
  /\ \A o \in Openers :
       /\ opener[o].at \in 0 .. VersionStep + 1
       /\ opener[o].missing \in BOOLEAN
       /\ opener[o].error \in Errors

IsCurrent == \A i \in DOMAIN Script : Script[i] \in store

(* Whoever has opened the store finds every table, column, index and guard *)
(* of the current schema, whoever else was opening it, and whoever died    *)
(* over it (docs/RUNTIME_ARCHITECTURE.md:71).                              *)
OpenedIsCurrent == \A o \in Openers : Opened(o) => IsCurrent

(* A database that says it is of the current version is whole.             *)
VersionMeansCurrent == version = CurrentVersion => IsCurrent

(* A database whose receipts have their three states, or that has none, is *)
(* opened in the end, though two processes may trip each other up.         *)
HasStates ==
  Table("ingress_receipts") \in store =>
    \A c \in {"projection_state", "derived_state", "index_state"} :
      Column("ingress_receipts", c) \in store

StoreIsOpened == \A o \in Openers : HasStates ~> Opened(o)

(* A database that lacks columns is upgraded in place                      *)
(* (context_db.rs:67-69, docs/RUNTIME_ARCHITECTURE.md:71).                 *)
UpgradesInPlace == \A o \in Openers : opener[o].error # "no such column"
=============================================================================
