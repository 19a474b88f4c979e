----------------------------- MODULE MCMigration -----------------------------
(***************************************************************************)
(* Databases of older versions, with and without the columns that          *)
(* migrate_current adds.                                                   *)
(***************************************************************************)
EXTENDS Migration

CONSTANTS o1, o2

(* The tables that migrate_current does not create, and some columns.      *)
Later == {"insights", "insight_anchors", "verifications", "insight_search_fts",
          "search_docs", "search_docs_fts"}

Older(columns) ==
  {SchemaSql[i] : i \in {i \in DOMAIN SchemaSql :
                           SchemaSql[i][1] = "table" /\ SchemaSql[i][2] \notin Later}}
    \cup columns

States == {c \in Columns : c[2] = "ingress_receipts"} \ {AddedColumns[1]}

(* No database yet, the anchors of the test at context_db.rs:1357, and     *)
(* receipts with and without their states.                                 *)
MCOldStores ==
  {{}, {Table("anchors")}, Older(States), Older(Columns \ {AddedColumns[7]}), Older({})}

Unmarked == {Older(Columns \ States)}
=============================================================================
