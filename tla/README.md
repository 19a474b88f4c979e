# AxiomSync in TLA+

AxiomSync is a local store of captured work. Clients append raw events to a
ledger; operators rebuild projected tables (sessions, entries, anchors) and
derived tables (episodes, insights, claims, procedures, verifications, search
documents) from it; readers query the result over a command line, HTTP and MCP.
Everything lives in one SQLite file, `context.db`, and in one file of token
hashes, `auth.json`.

The code splits nearly every change of state into a *plan*, a value that is
computed from what the store holds and handed out as JSON, and an *apply*, a
transaction that trusts the plan it is given. Nothing ties the two together: no
version, no lock, no check on arrival. A plan can be applied late, twice, after
another plan, or never. Most of what is hard about AxiomSync follows from this,
and most of the modules here are about it.

## 1. Inventory

| Component (source under `src/crates`) | State | Operations | Interacts with |
|---|---|---|---|
| Sink: `axiomsync-kernel/src/ingest.rs`, `kernel.rs`; `axiomsync-store-sqlite/src/context_db.rs`, `schema.sql` | `ingress_receipts`, `source_cursor` | plan and apply a batch of raw events; plan and apply a cursor upsert | its clients, by HTTP or the command line; the rebuild reads its table |
| Projection planner: `axiomsync-kernel/src/projection.rs` | none | receipts to sessions, actors, entries, artifacts, anchors | called by the projection and the replay |
| Derivation planner: `axiomsync-kernel/src/derive.rs` | none | projected rows to derived rows and search documents | called by the derivation and the replay |
| Rebuild: `kernel.rs`, `context_db.rs` | the projected and derived tables, three processing states per receipt | build and apply projection, derivation and replay plans | operators; the sink marks receipts pending |
| Relay: `axiomsync-cli/tests/relay_interop.rs`, `docs/RELAY_INTEROP.md` | per batch: a raw plan, cursor plans, two flags; the batches sent | translate a batch, plan, apply, commit | the sink, over HTTP that may fail |
| Token grants: `axiomsync-kernel/src/logic/auth.rs`, `kernel.rs`, the `AuthStore` of `axiomsync-cli/src/lib.rs` | `auth.json`, `auth.json.tmp`, a mutex per process | plan and apply workspace and admin grants; authorise | every protected route |
| Read models and search: `kernel.rs`, `axiomsync-kernel/src/query.rs` | none | sessions, tasks, runs, documents, evidence, cases; ranked search; counts | tables that a rebuild replaces meanwhile |
| Scope of reads: `axiomsync-http/src/lib.rs`, `context_db.rs` | none | look up a workspace, authorise, read | the tables and `auth.json` |
| MCP: `axiomsync-mcp/src/mcp.rs`, `axiomsync-kernel/src/mcp.rs` | the workspace a stdio server is bound to | parse, validate, look up, dispatch, answer | reads, over HTTP and stdio |
| Imports: `axiomsync-cli/src/lib.rs`, `axiomsync-domain/src/model.rs` | none | a payload to a batch of one event | the sink |
| Schema migration: `context_db.rs`, `schema.sql` | the tables, columns, indexes and triggers of `context.db`, its `user_version` | create, add, set the version | every command opens the store |

What is hard, and what makes each part correct:

* **Sink.** Clients race between plan and apply, lose answers and retry. The
  ledger must only grow, hold an event once, lose no event that was promised,
  and absorb every plan that was applied before. A plan must not skip an event
  because of a row that another client only *intends* to write. Two notions of
  identity, the receipt id and the dedupe key, are hashes over different fields
  and may disagree.
* **Rebuild.** Plans of different times and kinds are applied in any order; the
  reads for a derivation plan are three transactions; deleting projected rows
  cascades into derived tables; the processing states cover the whole ledger,
  the plan only what it was built of. The tables must be those of one rebuild,
  nothing may dangle, and the processing states must not claim what is not so.
* **Planners.** The order of the receipts is total and numbers the entries; the
  rows must satisfy the keys and unique indexes of the tables, or the rebuild
  fails for good; the two ways to a derivation must agree.
* **Relay.** What is committed as sent must be in the ledger, cursors must not
  run ahead of it, and a batch must be committed in the end.
* **Token grants.** Threads share a mutex, processes share only file names, and
  every step of a write may fail or be the last one. An answered grant must
  hold, the file must always be readable, and nobody may be authorised whom no
  plan granted.
* **Reads.** A request takes a workspace look-up, an authorisation and up to
  eleven statements, each on a state of its own. An answer must stay within what
  its token opens although rows are replaced between the steps, a refusal must be
  the right one, and every way out of the handler must answer.
* **Migration.** The statements that bring a database up to date commit one by one
  and may be run by two processes at once, or stop half-way. Whoever has opened
  the store must find the whole schema, and the version must not claim it earlier.

`PROJECT.json` lists every hazard with its line, and the properties about it.

## 2. Modules

| Module | Models | Builds on |
|---|---|---|
| `Ledger` | abstract: a set of rows that only grows, one per key, and keys that are promised | |
| `Sink` | the plan/apply protocol of receipts and cursors | |
| `LeastElement` | lemmas: least elements of sets of numbers, on which several proofs rest | |
| `SinkProofs` | proofs about `Sink`, and that it implements `Ledger` | `Sink`, `LeastElement` |
| `Relay` | Relay's delivery of batches through `Sink` | `Sink` |
| `Projection` | `plan_projection` and the constraints of its tables, as operators | |
| `Derivation` | `plan_derivation`, as operators | `Projection` |
| `Store` | the ledger, the projected and the derived tables, and the transactions on them: what readers see | `Derivation` |
| `Rebuild` | operators who build, hold and apply plans while receipts arrive; implements `Store` | `Store` |
| `StoreProofs` | proofs about `Store` and the planners, shared by the next | `Store`, `LeastElement` |
| `RebuildProofs` | proofs about `Rebuild`, and that it implements `Store` | `Rebuild`, `StoreProofs` |
| `Grants` | abstract: one token per workspace and a set of admin tokens, changed atomically | |
| `Auth` | plans of grants, their effect on a snapshot, and what a token opens, as operators | |
| `AuthStore` | applies of grants by threads and processes, through files that fail; implements `Grants` | `Auth` |
| `AuthProofs` | proofs about `AuthStore` | `AuthStore` |
| `RelayProofs` | proofs about `Relay`, and that it implements `Sink` | `Relay`, `SinkProofs` |
| `Views` | the read models and the workspace look-ups, as operators on tables | `Derivation` |
| `Search` | `search_cases`, as operators | `Views` |
| `Mcp` | what is made of a request before the store is read: its form, its selector, its error codes | |
| `Reads` | requests served step by step while the store changes | `Store`, `Search`, `Auth`, `Mcp` |
| `ReadsProofs` | proofs about `Reads`, and that the store in it is `Store` | `Reads`, `StoreProofs` |
| `Imports` | the import compilers of the command line, as operators | |
| `Migration`, `MigrationProofs` | opening a store of any age by several processes, and proofs | |
| `MCSink`, `MCRebuild`, `MCRelay`, `MCAuthStore`, `MCReads`, `MCMigration` | small instances | |

### How the state and actions correspond to the code

`Sink`. `receipts` and `source_cursor` are the two tables. `plans` and
`cursor_plans` are the plans that have been handed out, a set that only grows,
because a plan is a file or a response body that its holder can keep;
`ApplyIngestPlan` and `ApplySourceCursorPlan` may take any of them at any time,
so that a late apply, a repeated apply and an apply whose answer was lost need
no actions of their own. `acked` and `cursor_acked` are history: the plans whose
apply has committed. `PlanAppendRawEvents` is the look-up of
`existing_dedupe_keys_for` and the loop of `plan_append_raw_events`; the
look-up is one statement and planning is pure, so the two are one step.
`InsertOrIgnore` is the loop of "insert or ignore" in `apply_ingest`, in the
order of the batch. A hash is the tuple it is taken over: hash collisions are
not modelled, but two rows that agree on every field of a hash get one id, as
they do in the code, and this is where the two identities part: the receipt id leaves
out the session kind, and an event whose receipt id another event's row has is in no
row. `AckedIsRecorded` is therefore about events whose receipt id is `Uncontested`, and
`ReplanIsEmpty` about what becomes of the others. Times that chrono has no date for
(`HasDate`) fail a plan: a time of capture only that of a new receipt, for only then is
it converted. `RowByRow` is the
same loop statement by statement, which `InsertOrIgnore` is shown to be equal to. A plan names its
events by their positions in the batch. A failed transaction changes nothing and
is a stuttering step.

`Projection` and `Derivation` are functions of rows. Where the Rust code runs a
loop over sorted receipts with maps and counters, `Projection` says what the
result is: the session's title is that of its earliest receipt or else the first
page title, the number of an entry is how many receipts of its session come up
to it. `ProjectReceipt` is one turn of the loop, with its map of sessions and its
counters, and the two are shown to agree on every ledger. Texts are names with a length and the marks that the keyword
searches find; ids are the tuples they are hashed over. `ProjectionFits` and
`DerivationFits` are the primary keys, unique indexes and foreign keys of
`schema.sql`: an apply whose plan does not fit is rolled back.

`Store` and `Rebuild`. An operator is a place where a plan is kept, in a caller's memory
or in one of the files that `project` commands write and read; somebody with two files
is two operators. `marks` is the ledger with the three processing states of each
receipt, `view` the projected tables, `knowledge` the derived ones, `held` the
plan an operator has in hand, `reading` the tables read so far for a derivation
plan (`load_sessions`, `load_entries` and `load_anchors` are three steps, because
each opens a connection of its own). `Detached` is what `clear_projection_tables`
does to the derived tables through the foreign keys. `ApplyReplay` is both
replacements in one transaction. `behind` and `overtaken` are history: whose reads
for a derivation began before the last projection, and whether the derived rows come of
such reads. No guard looks at them. `Store` leaves out who holds which plan: it
says that the tables are replaced by the projection of some receipts of the
ledger, or by a derivation of three projections, or by both of one set. `Reads`
is composed with `Store`, and `Rebuild` is shown to implement it, so that what
holds of reads holds whatever the operators do.

`Relay` follows the harness method by method. A packet's payload is a record of the session
kind it names and of the rest; `TranslatePacket` leaves the event's own kind and content
hash out, so that the sink takes the one from the payload and the other of the
payload with the packet's id in it. Each call may be answered or not,
and a posted apply may reach the store at any later time, again and again
(`ArriveLate`). The loops over cursors are steps of their own, since a call
within them may fail. The commit to Relay's own ledger and its policy of retries
are external: they are modelled from what the harness and
`docs/RELAY_INTEROP.md` say of them.

`AuthStore`. An apply takes the mutex, reads `auth.json`, opens (and truncates)
`auth.json.tmp`, writes it, renames it and returns. Each of these is a step, and
may fail. `open` of a writer follows its file through the renames of others: a
process that writes after another has renamed the temporary file writes into
`auth.json` itself. Contents are a snapshot, `Truncated`, or `Torn`, a shorter
snapshot over a longer one.

`Views`, `Search` and `Reads`. `reader` says where each request stands: its
scope (the workspace required of it), the tables loaded so far, its error or its
answer. `LookUp` is the handler's or `mcp_http`'s look-up, `Authorize` the check of
the token against `auth.json`, `Require` the second look-up of `apply_request_plan`
with the comparison to the bound workspace, and `LoadTable` one `load_*` statement or
one count; `Commit` is any transaction of `Store`, by anybody. A row that may be
missing is the set of those found. Words and texts are names; which text contains
which word is an operator of the instance, and scores are counted in halves. The
answer of a search is the set of its hits, cut to those whose rank is within the
limit; the order itself is `RanksBefore`.
A request is a record with everything the code branches on: the way it came, the
form of the message, id, version, method, target, token. `Refusal` is what is
decided before the store is touched; in `mcp_http` the scope is looked up and
authorised between parsing and dispatch, which is why an unknown tool over HTTP
asks for an admin token first.

`Imports`. A payload compiles to a set of at most one batch. `MCSink` and `MCRebuild`
use it for the events of two of their runs, so that imported runs and work states
reach the ledger as they do from the command line.

`Migration`. A database is the set of objects it has; `Script` is what `initialize`
runs, one statement at a time, because no transaction encloses it. `ensure_column`
is two steps, the look at `pragma table_info` and the `alter table`. A column that
was created with its table is there, an index on a missing column is an error, and
a second `alter table` of one column too; both end the command. `Fault` is the death
of the process or a statement that fails for another reason. The ten statements
of `schema.sql` that `migrate_current` repeats do nothing by then and are left out,
as are objects that every older database has had. An upgraded
`procedures.episode_id` has no foreign key; nothing relies on one.

Definitions marked *faulty* in a comment are not part of the models: each is
what a plausible bug would make of the definition that follows it, and the
properties are shown to fail with it. They are the mutants of `PROJECT.json`.

## 3. Runs

| Run | Instance | Properties | Result |
|---|---|---|---|
| `MCSink` | 9 requests (3 with colliding ids or given keys; an unsupported event, an empty batch, an artifact without uri, a negative and an undatable time), 5 cursor requests | `TypeOK`, `OneReceiptPerKey`, `SkippedIsRecordedOrCarried`, `AckedIsRecorded`, `AppliedPlanIsAbsorbed`, `ApplyIsRowByRow`, `LedgerOnlyGrows` | hold; 54,140 states |
| `MCRelay` | 2 batches that overlap in a packet and a cursor, a packet without a session kind and a "run", 1 restart | `RelayTypeOK`, `SentIsRecorded`, `CursorBehindLedger`, `ReplanIsEmpty`, `LedgerSpec`, `BatchesAreSent` | hold; 33,420 states |
| `MCRebuild` | 2 operators (symmetric), 2 receipts of one session | `TypeOK`, `ViewIsSnapshot`, `DerivedIsBacked`, `SearchDocsMatch`, `NothingDangles`, `StoreSpec`, `DerivedIsCurrent` | hold; 87,625 states |
| `MCRebuildLone` | 1 operator, 4 receipts of two sessions | `ProjectionIsLoop`, `PipelinesAgree`, `RebuildableIf` | hold; 19,583 states |
| `MCAuthStore` | 2 threads of one process, 2 workspaces, 2 tokens | `AuthTypeOK`, `FileIsWhole`, `AckedGrantHolds`, `AuthorizedIsGranted`, `GrantsSpec`, `LockIsReleased` | hold; 615,321 states |
| `MCReads` | 2 receipts (one without a workspace, one with an artifact), 3 tokens, 36 requests, one at a time, 1 commit during each | `ReadTypeOK`, `AnswerIsOfScope`, `DeniedOnlyOutside`, `SelectorComesFirst`, `SearchFindsIndexed`, `RequestIsAnswered` | hold; 44,969 states |
| `MCMigration` | 2 processes, 5 shapes of old databases, 1 fault | `MigrationTypeOK`, `OpenedIsCurrent`, `VersionMeansCurrent`, `StoreIsOpened` | hold; 38,801 states |
| `MCSinkReplan` | as `MCSink` without the invalid requests | `ReplanIsEmpty` | violated |
| `MCSinkAccepted` | a captured web message in two batches, an imported run | `AcceptedReceiptsExist` | violated |
| `MCRebuildWedge` | one imported task of two workspaces | `Rebuildable` | violated |
| `MCRebuildMarks` | 1 operator, an imported run and work state | `ProjectedIsShown` | violated |
| `MCUpgrade` | 1 process, a database whose receipts have no states | `UpgradesInPlace` | violated |

All runs check for deadlock.

### What the violated runs show

Each is a sentence of the repository's documents that the code does not keep.
Line references are in the findings of `PROJECT.json`.

1. `MCSinkReplan`: two events of a batch that differ only in the session kind, or
   only in the dedupe key the client gave, get one receipt id and two dedupe
   keys. One of them is dropped by "insert or ignore", and every later plan
   of the batch offers it again, although the documents promise an empty plan. The
   line is one of Relay's rules, and the client of the run is a general one, which
   names session kinds beside the payload.
   `ReplanIsEmpty` holds of Relay's batches (`MCRelay`, and proved), and is proved for all
   requests whose receipt ids separate their dedupe keys.
2. `MCSinkAccepted`: an apply reports the receipts of its plan as accepted,
   whether or not they were ignored. In the trace a message is sent in batch b1, with
   another one, and alone in batch b2; both are planned before either is applied.
3. `MCRebuildWedge`: `idx_sessions_external` leaves the workspace out of a
   session's identity while the session id has it, so that a ledger with one
   session key in two workspaces can never be projected again. Two imports of one
   task do it. `RebuildableIf` states the condition under which it can, and is
   proved.
4. `MCRebuildMarks`: applying a projection marks receipts that came after the
   plan was built. They are in no table and in no pending count until the next
   rebuild. In the trace the plan is built of an empty ledger, an imported run is
   appended, and the plan is applied. The documents say what the report counts, and
   not how it is to know of such a receipt.
5. `MCUpgrade`: `schema.sql` creates indexes on the three state columns before the
   migration adds them. A database of before these columns fails to open, and
   the code that would upgrade it is never reached. The other four columns are
   added as intended, and `StoreIsOpened` has the condition under which the store
   opens.

### Bounds, and why they are enough

* `Sink` has no counter to bound: the sets of requests are finite, and so are the
  plans that can be made of them. Two clients that race are two plans of one
  event; a batch of three positions is the shortest with a collision of ids
  between its second and third event and something before them. The theorems
  drop the bound.
* `MaxRestarts` of `Relay`: one restart per run is enough to give a batch two
  generations of plans, which is what distinguishes a restart from a retry; more
  of them repeat the same, and the safety properties are proved without the bound's
  value.
* `MaxCommits` of `Reads` is how often the store may change while a request is
  served. Requests do not touch the store, so between two requests it takes every
  state that `Store` can reach, and one commit during a request splits its
  statements into those before and those after. With a bound of two (a row that goes
  and comes back), the properties hold as well, in 199,155 states and two minutes.
  One `Reader` is enough because readers share nothing.
* `MaxFaults` of `Migration`: one death leaves a half-migrated database to the other
  process and to the dead one's next start. The proofs have no bound.
* `CalendarEnd` stands for the last time that chrono has a date for, `MaxMillis` of `Imports`
  for the end of an `i64`. `MCSink` has an event and a cursor beyond the calendar,
  `MCSinkAccepted` an import beyond each.
* `MCRebuild` needs two operators, that is two plans kept, for one to overtake the other
  (a derivation plan then survives the building and applying of a projection), and two
  receipts for a plan to be out of date. More receipts add sessions that do not touch one
  another. `MCRebuildLone` gives up the second operator for four receipts, which
  are what ties, untitled sessions, blank texts and silent receipts need.
  The operators of `MCRebuild` are interchangeable in every formula, which makes
  the symmetry sound; no liveness is checked under it.
* `MCAuthStore` has two threads because a critical section is about two, two tokens for a
  grant to be replaced, and two workspaces for a token to be tried at one that it was not
  granted for. The commands that apply grants today run one thread each; the run is about the kernel's methods, which share the mutex so that
  threads of a server may call them. Two processes are covered by the theorems `TypeCorrect` and `OnlyGrantedIsAuthorized`, which hold
  for any number of them, not by a run.
* The old databases of `MCMigration` are none at all, the one of the repository's own
  migration test, and databases with all, with some and with none of the columns.

### Fairness

* `FairRelaySpec`: fairness of each *answered* call that the delivery of a batch needs
  next, and of the commit. It says that Relay retries (`docs/RELAY_INTEROP.md`,
  retry policy) and that a call repeated for ever is answered in the end. It is
  weak where the call stays possible until it is answered, and strong for the
  apply of a cursor, which is disabled whenever an earlier one of its loop fails
  and enabled again by the retry, and for the commit, which a new plan disables. Nothing is assumed about late
  arrivals, and restarts are bounded by `MaxRestarts`. `BatchesAreSent` excludes batches whose request is invalid and
  batches without a cursor update: the harness refuses to apply an empty list of
  cursor plans, and never commits these.
* `FairSpec` of `AuthStore`: weak fairness of each thread's next step, which the
  operating system's scheduler provides. A step that fails is a step. Nothing
  makes anyone begin an apply. Dying processes release the mutex with them.
* `FairSpec` of `Reads`: weak fairness of the next step of a request that is being
  served, which its thread provides. Nothing makes anyone send a request or
  commit. With `MaxCommits` a request is not overtaken for ever, but the property
  does not need it: every step moves the request forward.
* `FairSpec` of `Migration`: weak fairness of each process's next statement, and of
  opening the store. A command that fails is started again; a system in which it is
  not promises nothing. Closing and dying are not fair.
* `Rebuild` has no fairness and no liveness property: an operator may walk away.

## 4. Proofs

All theorems hold for every value of the constants that satisfies the modules'
named assumptions, which every run evaluates on its instance:

* `RequestsAreBatches`: batches are finite sequences.
* `ReceiptsAreOrdered`: times and ids of receipts are numbers, in the order of the
  texts they stand for; ids are unique, which is `OneReceiptPerKey` of the sink; and
  the uris of a receipt are a finite sequence.
* `HashesAreOrdered`: the hashes that order anchors are numbers, likewise for texts.
* `AbsentIsNoId`: no id is taken for a field left out. An id is a text of a prefix and a
  hash, and `Absent` stands for `None` and null.
* `WorkspacesAreOrdered`: workspace ids are numbers, likewise for texts.
* `MissingIsAbsent`, `QueryIsWhole` and `RootsHaveIds` of `Reads`: an `Option` that is `None` is
  the same value in the tables and in the handlers, and is no request; a query has
  its six fields and a finite set of words; a workspace root that occurs has an id
  that grants may be for, unless it is left out.
* `WritersHaveProcesses` and `AbsentIsNothing` of `AuthStore`; `OldStoresAreWhole` (an old
  database has no index on a column it lacks); and those of `Relay` about its batches.

Assumptions that only some theorems need, such as one process, stand in the theorems.

`SinkProofs`:

* `TypeCorrect`: every plan is `PlanAppend` of some request and *some* set of
  existing keys. This is all that can be said of a plan that others have
  overtaken, and what the other proofs use of it (`PlanShape`): its positions
  are fresh or skipped, and no two of its receipts have one key.
* `OneRowPerEvent` is inductive with it: a written row is new to the table
  (`WrittenAreNew`), and two rows written by one plan differ in id and key.
* `SkipsAreSafe`: at the time of planning by `SkippedWhenPlanned`; afterwards
  because the ledger only grows (`AppendOnly`).
* `DuplicateApplyIsNoOp` and `AcknowledgedIsOnRecord` rest on a strengthening,
  `AckedIsCovered` (lemma `AckedStaysCovered`): every receipt of a committed plan
  is *ignored* by the table from then on. The property alone, that its rows are
  there, is not inductive, because they need not be: another row may have their
  key or their id. `AcknowledgedIsOnRecord` says of an event that its own key is in the
  ledger, if its receipt id is uncontested (`UncontestedIsRecorded`): what ignores a
  receipt then has its key.
* `ReplanIsNoOp` and `SinkImplementsLedger` assume `ReceiptIdsSeparate`, that two
  events with one receipt id have one dedupe key. `MCSinkReplan` is why the
  assumption is needed. Under it every event of a committed batch is on record
  (`SeparateMeansRecorded`). Relay meets it, as `RelayProofs` shows.
  The refinement maps the receipts to rows, and the keys of every batch with a
  committed plan to promises.

* `ApplyIsInsertion`: what "insert or ignore" does row by row is `InsertOrIgnore`. The
  invariant of the loop (`ReachedStep`) is that up to each position the table has grown
  by the rows that `Written` names; a row not among them is ignored because of the table
  or because of the first row of the plan with its id.

`StoreProofs`:

* `StoreStaysSound`: every row of the store is *sound*. A session, an entry, an artifact
  or an anchor names in its id a receipt, and is of the session and workspace that
  the id is hashed over; an episode, a statement and a piece of evidence likewise
  through what they are derived from; a search document is of a case. That a plan may
  be of three moments (`CorpusOfStore`) is why soundness is a matter of single rows
  and their ids, and not of rows that find each other; the first rows that a plan picks
  (`FirstByPlace`, `FirstByHash`) are picked within an entry and so within a session.
  `IndexedIsBacked`, that episodes have sessions once a receipt is indexed, is what a
  search needs of the store; a projection alone breaks the link and resets the
  state.
* `EarlierIsTotal`, `SeqNosDiffer`, `EarliestIsFirst` and `LatestIsLast` are the facts about the
  order of receipts that all proofs about projections use.
* `ProjectionLoops`: the loop of `plan_projection` leaves the sessions and entries that
  `PlanProjection` names. Its invariant is `Gathered`, what the map, the counters and
  the list are when the receipts so far are a set T; `GatheredStep` is one turn of
  the loop (`SessionBegins` and `SessionGoesOn` for the row of the session).
  `OrderExists`: a finite set of receipts can be put in order, so that the statement
  is never about nothing.

`RebuildProofs`:

* `TypeCorrect`: of the combinations of processing states three occur.
* `DerivedStaysBacked`, `NoDanglingReference` and `SearchStaysInStep` follow from
  one invariant, `Grounded`: the three properties together, and that every
  derivation in hand is *whole* by itself (its statements have episodes and
  evidence, its evidence has statements, its documents are those of its
  subjects). The three alone are not inductive, since the next plan applied may be
  any that is held. That a plan fits the view at that moment is what the foreign
  keys check, so the proof needs nothing about when the plan was built; and
  `DerivedIsBacked` survives a projection, which deletes all evidence, only
  because it resets the derived state of every receipt. The lemma `PlanIsWhole` is
  about the planner, for every corpus, a torn one included.
* `ViewStaysSnapshot` from `SnapshotsOnly`: every projection, held or applied, is
  that of some subset of the ledger.
* `LedgerIsRebuildable`: `RebuildableIf` for every ledger. It needs that the order
  of receipts is total (`EarlierIsTotal`), that numbers within a session differ
  (`SeqNosDiffer`, by the cardinality of initial segments), that the ids built
  from them differ (`ProjectionOfFits`), and that the first anchor of an entry is
  an anchor of the projection (`DerivationOfFits`, where `LeastElement` provides
  the least of a set of numbers). Ledgers are finite because they grow by one row
  at a time (`LedgerFinite`).
* `PlannerIsLoop`: `ProjectionLoops` for every ledger that is reached.
* `RebuildImplementsStore`: every step of `Rebuild` is one of `Store` or a stutter. The
  invariant is `MadeOfLedger`: every projection, replay and derivation in hand, and
  every table read for a derivation, is that of a set of receipts that are in the
  ledger.
* `DerivationsAgree`: the order in which anchors reach the planner decides which one is
  cited and nothing else (lemma `OnlyCitationsDiffer`).
* `DerivedStaysCurrent`, for any number of operators: `CurrentInv` says of an operator who is
  not behind that the tables read, and a derivation in hand, are of the current view;
  and of every replay in hand that its derivation is that of its own projection. A
  projection puts everybody behind. The property makes an exception of rows that
  an overtaken plan left, because the code accepts such a plan if it fits; of these
  `DerivedIsBacked` is what holds.

`RelayProofs`:

* `RelayImplementsSink`: a step of `Relay` is a step of `Sink` or changes none of its
  variables, so that the theorems of `SinkProofs` carry over.
* `RelayTypeCorrect` and `SentBatchesAreOnRecord` from `DeliveryInv`: a plan in a harness is
  a plan of its batch, and the flag `raw_applied` is only up if that plan has
  committed. `AllAckedRecorded` of the sink does the rest, for Relay as its only client:
  another client could have taken the receipt id of a packet.
* `CursorStaysBehind` adds what has been posted: a cursor plan is posted only when the
  raw plan of its batch has committed, and it may arrive at any later time, when
  the events are still there because the ledger only grows.
* `RelayReplansNothing` and `RelayImplementsLedger`, like the two before, assume that Relay is
  the sink's only client (`RelayIsOnlyClient`). `TranslationSeparates` is why
  `ReceiptIdsSeparate` then holds. The receipt id has the content hash and not the session
  kind; but Relay's events leave the hash to the sink, it is one of the payload, and
  the payload is where the kind comes from. Equal receipt ids are therefore of equal
  payloads, equal kinds and equal dedupe keys. The mutant that hashes less of the
  payload breaks it.

`AuthProofs`:

* `TypeCorrect` and `OnlyGrantedIsAuthorized` hold for any threads and processes. The second
  rests on `GrantsInv`: everything in either file, in a thread's hands or read by one
  was granted by an applied plan, also when processes write into each other's files,
  because what is not a snapshot does not parse.
* `FileStaysWhole`, `AnsweredGrantStays` and `StoreImplementsGrants` are for one process and any
  number of threads. `HolderInv` says that whoever is not idle holds the mutex, that
  nobody else has a file open, and what the holder knows: the snapshot it read is the
  one in the file until its rename. The refinement maps the file to one token per
  workspace; only the rename is a step of `Grants`.

`ReadsProofs`:

* `ReadsImplementStore`: a step of `Reads` is a commit of `Store` or leaves it alone, so that
  `StoreStaysSound` holds of what is read. With `RebuildImplementsStore`, what is proved
  of reads holds whatever operators do.
* `ReadsStaySound`: the inductive invariant, `StoreInv` and `ReadInv`. Of each request that is
  being served it says that it was received (`IsReceived`: the tables loaded are those of
  the statements so far, and a refusal is the one of the form), that it was let in only
  to the workspace of what it asks for (`IsScoped`), that every table it has read is
  sound, each of a state of its own (`HasReadSound`), and that its answer tells of that
  workspace alone (`TellsOfAsked`). The properties by themselves say nothing of a request
  between its look-up and its answer.
* `AnswersAreOfScope` and `DeniesOnlyOutside` follow. The argument does not need that the row
  looked up is the row read later: a resource is asked for by an id, the id is hashed
  over the workspace, and so every row with that id, of whatever moment, is of the
  workspace that was authorised (`RowsAreSound` and the lemmas `...TellOfAsked`). A
  collection is filtered by the workspace itself.
* `SelectorsComeFirst` from `IsReceived`: a refusal is decided before the store is touched.
* `SearchesFindIndexed` from `SearchIsOfStore`, that a request without a commit has read the
  store as it is: each hit has a matching document (`HitIsMatching`), each case of a
  matching document is a hit (`DocsOfCase`), and the limit cuts nothing if there are no
  more cases than it allows (`SearchIsComplete`). The scores enter only as positive or
  not.
* `ReadTypes` is part of the invariant.

`MigrationProofs`:

* `TypeCorrect`, `OpenedStoreIsCurrent` and `VersionComesLast` from `MigrationInv`: what the
  statements before an opener's own ensure is there (`Ensured`), whoever put it there, and
  stays there, because nothing is ever dropped. They hold for any number of openers and
  faults and for all old databases without a broken index.

Every invariant and every action property that a passing run checks is thus stated by
a theorem: `FileIsWhole`, `AckedGrantHolds` and `GrantsSpec` for one process, as in their
run; `SentIsRecorded`, `CursorBehindLedger`, `ReplanIsEmpty` and `LedgerSpec` for Relay as the
only client, the last two also for all requests whose receipt ids separate their
dedupe keys.

Where a proof needs induction over a loop, as `ApplyIsInsertion` and `ProjectionLoops` do,
the state after each turn is given outright, one step lemma shows that it satisfies
the loop's equation, and a least position at which the loop could differ from it
(`LeastNat`) shows that it is the loop.

Only model-checked: liveness (`BatchesAreSent`, `LockIsReleased`, `RequestIsAnswered`,
`StoreIsOpened`) and everything about enabledness, which are out of the prover's
reach.

## 5. What is not modelled

* *Loopback and admin checks* in front of the sink and admin handlers: they are not
  part of `Sink` and `Rebuild`, whose clients and operators are those let through.
* *Plans made or altered by hand*: a client could post a plan that the planners never
  return, such as an ingest plan with a `cursor_update` (the planner always leaves it
  out) or one with receipts of its own. The models apply what was planned.
* *The index page*: an admin check and four counts, shown as HTML.
* *Snippets, lists of tools and resources, schemas, roots*: texts. Messages that ask
  for them are modelled, and answered without content.
* *How a search splits and lower-cases its words* (`normalize_search_query`).
* *Arguments, plan files and printing* of the command line.
* *Display data*: actors' names, locators, fingerprints, confidences, metadata.
* *Full-text tables*: written within the modelled transactions, read by no query.
* *Connection settings* (write-ahead log, foreign keys): set by every connection.
* *Malformed stored JSON*: `plan_projection` falls back to defaults; the sink
  writes well-formed text only.
* *Power loss*: SQLite's durability is taken as given, and a rename of `auth.json`
  is atomic and stays done. Crashes of processes are modelled where something is
  written in more than one step, which is `auth.json`.
* *Hash collisions*, in particular of the 16-digit prefixes that ids use.

## 6. Notes for readers of the code

What the models show beyond their properties, none of it against a document:

* A cursor upsert that is delivered again after a newer one puts the old cursor
  back. The last writer wins, and no order puts a cursor ahead of the ledger.
* A projection that is applied alone detaches the episodes from their sessions. Their
  cases are then "not found" over HTTP, and are still answered on the command line,
  without a workspace.
* A case lists as evidence the ids of its claims, while evidence is looked up by the
  ids of anchors; the one is never found under the other.
* What was received without a workspace is opened over MCP by an admin token, over
  the HTTP API by no token, and on a bound stdio server by everybody.
* `get_thread` and `get_run` answer sessions of any kind, `get_task` only tasks.
* Imported payloads have neither title nor text: their entries have no anchor, and no
  case or search leads to them.
* An import dated after the end of the calendar compiles, and the sink refuses it.
* The counts of `health` and `doctor` are taken one by one and may describe no single
  moment; each is that of some moment.
* A derivation plan that is applied after a newer projection, and fits it, leaves rows
  derived of older ones, and marks every receipt as derived and indexed.
* Grants are applied only by commands that run one thread each, and each in a process
  of its own, which the mutex does not reach.
* Two processes that grant tokens at once may lose a grant, or leave an `auth.json` that
  does not parse until it is replaced by hand.

## 7. Plan

Done: every component of the inventory, with the exceptions of section 5.

What could follow:

1. The loops of `plan_derivation`, of which only the result is modelled, in the form that
   the loop of `plan_projection` has.
2. The rows of the full-text tables, should a query come to read them.
3. Proofs of `StoreIsOpened` and of the other liveness properties with a prover that
   reaches enabledness.
