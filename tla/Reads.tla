-------------------------------- MODULE Reads --------------------------------
(***************************************************************************)
(* Reads of the store over HTTP, MCP and the command line, while the store *)
(* is rebuilt (axiomsync-http lib.rs, axiomsync-mcp mcp.rs,                *)
(* axiomsync-kernel kernel.rs and mcp.rs, axiomsync-cli lib.rs).           *)
(*                                                                         *)
(* A request is refused as it stands, or the workspace of what it asks for *)
(* is looked up, its token is authorised, over MCP the workspace is looked *)
(* up once more, and tables are read one after the other, each of these in *)
(* a statement of its own.  Anything may be committed between two of them. *)
(***************************************************************************)
EXTENDS Store, Search, Auth, Mcp

CONSTANTS
  Readers,         \* who serves one request at a time
  Requests,        \* the requests they are sent
  Query,           \* what is searched for, in any workspace
  Snapshot,        \* what auth.json holds
  WorkspaceId(_),  \* the id of a workspace_root, Missing if it is Absent
  MaxCommits       \* bound: how often the store changes during a request

ASSUME MissingIsAbsent == Missing = Absent /\ Missing \notin Requests

ASSUME QueryIsWhole ==
  LET fields == {"phrase", "tokens", "session_kind", "connector", "workspace_root", "limit"}
  IN  /\ Query = [f \in fields |-> Query[f]]
      /\ IsFiniteSet(Query.tokens) /\ Query.limit \in Nat

(* The workspace_roots that receipts and requests name: they have ids that *)
(* grants may be for, all but Absent.                                      *)
NamedRoots ==
  {r.workspace_root : r \in Receipts}
    \cup {q.target : q \in {q \in Requests : NamesWorkspace(q) /\ Refusal(q) = "none"}}

ASSUME RootsHaveIds ==
  \A root \in NamedRoots :
    /\ WorkspaceId(root) \in Workspaces \cup {Missing, WorkspaceId(Blank)}
    /\ WorkspaceId(root) = Missing => root = Absent

VARIABLE reader    \* [Readers -> where a request stands]

vars == <<marks, view, knowledge, reader>>

-----------------------------------------------------------------------------
(* The statements a request is answered from, in their order.              *)
PendingCounts == <<"projection_state", "derived_state", "index_state">>

ReadyState(column) ==
  CASE column = "projection_state" -> "projected"
    [] column = "derived_state" -> "derived"
    [] OTHER -> "indexed"

DoctorCounts ==
  <<"projection_state", "derived_state", "index_state", "receipts", "sessions",
    "entries", "episodes", "insights", "verifications", "claims", "procedures">>

TablesFor(op) ==
  CASE op = "case" -> CaseTables
    [] op = "search" -> SearchTables
    [] op = "runs" -> <<"sessions">>
    [] op = "health" -> PendingCounts
    [] op = "doctor" -> DoctorCounts
    [] OTHER -> ViewTables

IsReport(op) == op \in {"health", "doctor"}

(* Pending receipts, and receipts, sessions and so on. *)
Count(table) ==
  CASE table \in {"projection_state", "derived_state", "index_state"} ->
         Cardinality({r \in Ledger : marks[r][table] # ReadyState(table)})
    [] table = "receipts" -> Cardinality(Ledger)
    [] OTHER -> Cardinality(Rows(view, knowledge, table))

Fetched(q, table) ==
  IF IsReport(q.op) THEN Count(table) ELSE Rows(view, knowledge, table)

(* What is found, of a resource; the rows, of a collection; the counts.    *)
Found(q, corpus) ==
  CASE q.op = "case" -> CaseRecords(corpus, q.target)
    [] q.op \in {"thread", "run"} -> SessionViews(corpus, q.target)
    [] q.op = "task" -> TaskViews(corpus, q.target)
    [] q.op = "document" -> DocumentViews(corpus, q.target)
    [] q.op = "evidence" -> EvidenceViews(corpus, q.target)
    [] q.op = "search" ->
         SearchCases(corpus, [Query EXCEPT !.workspace_root = q.target])
    [] q.op = "runs" -> RunsOf(corpus.sessions, q.target)
    [] q.op = "documents" -> DocumentsOf(corpus, q.target)
    [] OTHER -> corpus

WorkspacesFor(q) ==
  CASE q.op = "case" -> WorkspaceForCase(view, knowledge, q.target)
    [] q.op = "document" -> WorkspaceForArtifact(view, q.target)
    [] q.op = "evidence" -> WorkspaceForAnchor(view, q.target)
    [] OTHER -> WorkspaceForSession(view, q.target)

-----------------------------------------------------------------------------
(* A request: where it stands, the workspace required of it, the tables    *)
(* read so far, its answer, and the changes of the store since it came.    *)
Idle == [pc |-> "idle", request |-> Missing, scope |-> Missing,
         corpus |-> <<>>, error |-> "none", answer |-> Missing, commits |-> 0]

Init ==
  /\ StoreInit
  /\ reader = [r \in Readers |-> Idle]

At(r, pc) == reader[r].pc = pc
Served(r) == reader[r].request

Goes(r, state) ==
  /\ reader' = [reader EXCEPT ![r] = state]
  /\ UNCHANGED store_vars

On(r, pc) == [reader[r] EXCEPT !.pc = pc]

Failed(r, error) ==
  [On(r, "answered") EXCEPT !.error = error, !.corpus = <<>>]

Answered(r, answer) ==
  [On(r, "answered") EXCEPT !.answer = answer, !.corpus = <<>>]

(* Where a request that is not refused goes first. *)
FirstStep(q) ==
  CASE q.via \in {"rest", "mcp"} /\ NeedsLookUp(q) -> "look up"
    [] q.via = "mcp" /\ ~NeedsLookUp(q) -> "authorize"
    [] q.via = "rest" /\ q.op \in Collections -> "authorize"
    [] q.via = "stdio" -> "require"
    [] OTHER -> "load"

Scope(q) == IF NamesWorkspace(q) THEN WorkspaceId(q.target) ELSE Missing

Receive(r, q) ==
  /\ At(r, "idle")
  /\ ~IsNotification(q)
  /\ Goes(r, IF Refusal(q) # "none"
             THEN [Idle EXCEPT !.pc = "answered", !.request = q,
                               !.error = Refusal(q)]
             ELSE [Idle EXCEPT !.pc = FirstStep(q), !.request = q,
                               !.scope = Scope(q)])

(* Faulty: what is not found is looked for again. *)
LookUpAgain(r) ==
  /\ At(r, "look up")
  /\ \/ WorkspacesFor(Served(r)) = {} /\ Goes(r, On(r, "look up"))
     \/ \E root \in WorkspacesFor(Served(r)) :
          Goes(r, [On(r, "authorize") EXCEPT !.scope = WorkspaceId(root)])

(* The look-up of a handler, or of mcp_http: the workspace of what is      *)
(* asked for, not that of who asks.                                        *)
LookUp(r) ==
  /\ At(r, "look up")
  /\ \/ /\ WorkspacesFor(Served(r)) = {}
        /\ Goes(r, Failed(r, "not found"))
     \/ \E root \in WorkspacesFor(Served(r)) :
          Goes(r, [On(r, "authorize") EXCEPT !.scope = WorkspaceId(root)])

(* authorize_workspace_resource, authorize_workspace_filter; over MCP      *)
(* authorize_admin if no workspace is required.                            *)
IsAuthorized(r) ==
  IF reader[r].scope = Missing
  THEN Served(r).via = "mcp" /\ AuthorizesAdmin(Snapshot, Served(r).token)
  ELSE AuthorizesWorkspace(Snapshot, Served(r).token, reader[r].scope)

(* Faulty: a request that is denied goes on. *)
AuthorizeAndGoOn(r) ==
  /\ At(r, "authorize")
  /\ Goes(r, [On(r, IF Served(r).via = "mcp" THEN "require" ELSE "load")
                EXCEPT !.error = IF IsAuthorized(r) THEN "none" ELSE "denied"])

Authorize(r) ==
  /\ At(r, "authorize")
  /\ Goes(r, CASE ~IsAuthorized(r) -> Failed(r, "denied")
               [] IsAuthorized(r) /\ Served(r).via = "mcp" -> On(r, "require")
               [] OTHER -> On(r, "load"))

(* apply_request_plan: the workspace required, looked up again, against    *)
(* the one that the server, or over HTTP the request, is bound to.  Then   *)
(* what takes no read is answered.                                         *)
Bound(r) == IF Served(r).via = "mcp" THEN reader[r].scope ELSE Served(r).bound

IsOutside(r, required) ==
  Bound(r) # Missing /\ required # Missing /\ required # Bound(r)

IsUnknown(q) == "unknown" \in {q.op, q.method}

Dispatched(r) ==
  LET q == Served(r)
  IN  CASE IsUnknown(q) -> Failed(r, "unknown method")
        [] ~IsUnknown(q) /\ ~IsCall(q) -> Answered(r, Missing)
        [] OTHER -> On(r, "load")

Require(r) ==
  /\ At(r, "require")
  /\ LET q == Served(r)
         required == IF NeedsLookUp(q) THEN {WorkspaceId(w) : w \in WorkspacesFor(q)}
                     ELSE {Scope(q)}
     IN  \/ /\ required = {}
            /\ Goes(r, Failed(r, "not found"))
         \/ \E w \in required :
              Goes(r, IF IsOutside(r, w) THEN Failed(r, "outside") ELSE Dispatched(r))

(* One statement; after the last, the answer. *)
LoadTable(r) ==
  /\ At(r, "load")
  /\ LET q == Served(r)
         old == reader[r].corpus
         table == TablesFor(q.op)[Cardinality(DOMAIN old) + 1]
         corpus == [t \in DOMAIN old \cup {table} |->
                      IF t = table THEN Fetched(q, table) ELSE old[t]]
     IN  Goes(r, CASE DOMAIN corpus # Range(TablesFor(q.op)) ->
                        [reader[r] EXCEPT !.corpus = corpus]
                   [] DOMAIN corpus = Range(TablesFor(q.op))
                      /\ q.op \in Resources /\ Found(q, corpus) = {} ->
                        Failed(r, "not found")
                   [] OTHER -> Answered(r, Found(q, corpus)))

Reply(r) ==
  /\ At(r, "answered")
  /\ Goes(r, Idle)

Serve(r) == LookUp(r) \/ Authorize(r) \/ Require(r) \/ LoadTable(r) \/ Reply(r)

(* A commit of anybody else. *)
Commit ==
  /\ StoreNext
  /\ store_vars' # store_vars
  /\ \A r \in Readers : reader[r].commits < MaxCommits
  /\ reader' = [r \in Readers |-> IF At(r, "idle") THEN Idle
                                  ELSE [reader[r] EXCEPT !.commits = @ + 1]]

Next ==
  \/ \E r \in Readers : Serve(r) \/ \E q \in Requests : Receive(r, q)
  \/ Commit

Spec == Init /\ [][Next]_vars

(* A request that is being served goes on. *)
FairSpec == Spec /\ \A r \in Readers : WF_vars(Serve(r))

-----------------------------------------------------------------------------
(* Properties.                                                             *)

Errors ==
  {"none", "malformed", "validation", "not found", "denied", "outside", "unknown method"}

(* Where a request stands; it is answered with the rows of whole tables.   *)
ReadTypeOK ==
  \A r \in Readers :
    /\ reader[r].pc \in {"idle", "look up", "authorize", "require", "load", "answered"}
    /\ ~At(r, "idle") <=> Served(r) \in Requests
    /\ reader[r].scope \in Workspaces \cup {Missing, WorkspaceId(Blank)}
    /\ reader[r].error \in Errors
    /\ reader[r].error # "none" => At(r, "answered")
    /\ ~At(r, "idle") =>
         DOMAIN reader[r].corpus \subseteq Range(TablesFor(Served(r).op))

IsAnswered(r) == At(r, "answered") /\ reader[r].error = "none"

(* The workspace_roots of the receipts and sessions an answer tells of.    *)
RootsOfEntries(entries) == {RootOfReceipt(e.entry_id[3]) : e \in entries}

RootsTold(q, found) ==
  CASE q.op = "case" -> {c.workspace_root : c \in found} \ {Absent}
    [] q.op \in {"thread", "run", "task"} ->
         UNION {{v.session.workspace_root} \cup
                  RootsOfEntries({b.entry : b \in v.entries}) : v \in found}
    [] q.op \in {"document", "documents"} ->
         UNION {Roots(v.session) \cup RootsOfEntries(v.entry)
                  \cup {RootOfReceipt(v.artifact.entry_id[3])} : v \in found}
    [] q.op = "evidence" ->
         UNION {Roots(v.session) \cup RootsOfEntries(v.entry)
                  \cup {RootOfReceipt(v.anchor.entry_id[3])} : v \in found}
    [] q.op = "search" ->
         {RootOfReceipt(EntryOfAnchor(id)[3]) :
            id \in UNION {hit.evidence : hit \in found}}
    [] q.op = "runs" -> Roots(found)
    [] OTHER -> {}

Opens(token, w) ==
  IF w = Missing THEN AuthorizesAdmin(Snapshot, token)
                 ELSE AuthorizesWorkspace(Snapshot, token, w)

(* Over HTTP everything that is answered was received in a workspace that  *)
(* the token opens, or in none and the token is an admin's, and a bound    *)
(* stdio server answers nothing of another workspace, whatever is rebuilt  *)
(* between the look-up and the last of the reads (docs/API_CONTRACT.md:145,*)
(* 151).                                                                   *)
AnswerIsOfScope ==
  \A r \in Readers :
    IsAnswered(r) /\ reader[r].answer # Missing =>
      \A root \in RootsTold(Served(r), reader[r].answer) :
        /\ Served(r).via \in {"rest", "mcp"} => Opens(Served(r).token, WorkspaceId(root))
        /\ Served(r).via = "stdio" /\ Served(r).bound # Missing =>
             WorkspaceId(root) \in {Served(r).bound, Missing}

(* The session of what is asked for, which its id is hashed over. *)
SessionOf(q) ==
  CASE q.op \in {"thread", "run", "task"} -> q.target
    [] q.op = "case" -> q.target[1]
    [] q.op = "document" -> q.target[1][1]
    [] q.op = "evidence" -> EntryOfAnchor(q.target)[1]

RootAsked(q) == IF q.op \in Resources THEN SessionOf(q)[4] ELSE q.target

(* A token is never denied what was received in a workspace it opens: what *)
(* a rebuild has taken away is not found instead.                          *)
DeniedOnlyOutside ==
  \A r \in Readers :
    /\ reader[r].error = "denied"
    /\ IsCall(Served(r)) /\ Served(r).op \in Resources \cup Collections
    /\ RootAsked(Served(r)) # Absent
    => ~Opens(Served(r).token, WorkspaceId(RootAsked(Served(r))))

(* A call of a search or a list without a workspace is a client error,     *)
(* whichever token comes with it (docs/API_CONTRACT.md:146-149).           *)
SelectorComesFirst ==
  \A r \in Readers :
    /\ At(r, "answered")
    /\ ~IsMalformed(Served(r)) /\ IsCall(Served(r)) /\ Served(r).via # "cli"
    /\ Served(r).op \in Collections /\ Served(r).target = Missing
    => Code(Served(r), reader[r].error) \in {"400", "-32602"}

(* A search read of one state of a store that has been derived hits every  *)
(* case of the workspace that has a matching document, and no other, if    *)
(* there are no more of them than the limit                                *)
(* (docs/RUNTIME_ARCHITECTURE.md:65).                                      *)
MatchingDocs(root) ==
  {doc \in knowledge.search_docs :
     /\ Query.session_kind \in {Absent, CaseOfDoc(doc)[1][1]}
     /\ Query.connector \in {Absent, CaseOfDoc(doc)[1][2]}
     /\ root \in {Missing, doc.workspace_root}
     /\ DocScore(doc, Query) > 0}

MatchingCases(root) == {CaseOfDoc(doc) : doc \in MatchingDocs(root)}

SearchFindsIndexed ==
  \A r \in Readers :
    LET cases == MatchingCases(Served(r).target)
    IN  /\ IsAnswered(r) /\ reader[r].commits = 0
        /\ IsCall(Served(r)) /\ Served(r).op = "search"
        /\ Query.tokens # {} /\ Cardinality(cases) <= EffectiveLimit(Query.limit)
        /\ \E x \in Ledger : marks[x].index_state = "indexed"
        => {hit.id : hit \in reader[r].answer} = cases

(* Every request that is received is answered. *)
RequestIsAnswered ==
  \A r \in Readers : ~At(r, "idle") ~> At(r, "idle")
=============================================================================
