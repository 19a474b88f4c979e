----------------------------- MODULE ReadsProofs -----------------------------
(***************************************************************************)
(* Theorems about Reads, for every set of receipts, requests and readers,  *)
(* every snapshot of grants and any number of commits.                     *)
(***************************************************************************)
EXTENDS Reads, StoreProofs

(* Reads implements Store: serving a request changes nothing, and whatever *)
(* is committed meanwhile is a transaction of the store, so that what is   *)
(* proved of Store holds of what is read.                                  *)
LEMMA StoreSteps ==
  ASSUME [Next]_vars
  PROVE  [StoreNext]_store_vars
<1>1. CASE Commit
  BY <1>1 DEF Commit
<1>2. ASSUME NEW r \in Readers, NEW state, Goes(r, state)
      PROVE  UNCHANGED store_vars
  BY <1>2 DEF Goes
<1>3. ASSUME NEW r \in Readers, Serve(r) \/ \E q \in Requests : Receive(r, q)
      PROVE  UNCHANGED store_vars
  BY <1>3 DEF Serve, Receive, LookUp, Authorize, Require, LoadTable, Reply, Goes
<1>4. CASE UNCHANGED vars
  BY <1>4 DEF vars, store_vars
<1>5. QED BY <1>1, <1>3, <1>4 DEF Next

THEOREM ReadsImplementStore == Spec => StoreSpec
<1>1. Init => StoreInit
  BY DEF Init
<1>2. [Next]_vars => [StoreNext]_store_vars
  BY StoreSteps
<1>3. QED BY <1>1, <1>2, PTL DEF Spec, StoreSpec

LEMMA ReadsOfSoundStore == Spec => []StoreInv
BY ReadsImplementStore, StoreStaysSound, PTL

-----------------------------------------------------------------------------
(* The statements of a request are made one after the other, each once.    *)
LEMMA TablesAreDistinct ==
  ASSUME NEW op
  PROVE  LET T == TablesFor(op)
         IN  /\ Len(T) \in Nat \ {0} /\ DOMAIN T = 1 .. Len(T)
             /\ \A i, j \in 1 .. Len(T) : T[i] = T[j] => i = j
             /\ Range(T) = {T[i] : i \in 1 .. Len(T)}
<1> DEFINE Distinct(T) == /\ Len(T) \in Nat \ {0} /\ DOMAIN T = 1 .. Len(T)
                          /\ \A i, j \in 1 .. Len(T) : T[i] = T[j] => i = j
<1>1. Distinct(CaseTables)
  BY DEF CaseTables
<1>2. Distinct(SearchTables)
  BY DEF SearchTables
<1>3. Distinct(<<"sessions">>)
  OBVIOUS
<1>4. Distinct(PendingCounts)
  BY DEF PendingCounts
<1>5. Distinct(DoctorCounts)
  BY DEF DoctorCounts
<1>6. Distinct(ViewTables)
  BY DEF ViewTables
<1> HIDE DEF Distinct
<1>7. Distinct(TablesFor(op))
  BY <1>1, <1>2, <1>3, <1>4, <1>5, <1>6 DEF TablesFor
<1>8. QED BY <1>7 DEF Distinct, Range

-----------------------------------------------------------------------------
(* A reader is idle, or its request                                        *)
(*   was not refused as it stands, or is answered with that refusal;       *)
(*   has loaded the first of its tables, and none once it is answered.     *)
Stands(x) ==
  x = [pc |-> x.pc, request |-> x.request, scope |-> x.scope, corpus |-> x.corpus,
       error |-> x.error, answer |-> x.answer, commits |-> x.commits]

HasLoaded(x) ==
  LET T == TablesFor(x.request.op)
  IN  \E k \in 0 .. Len(T) - 1 : DOMAIN x.corpus = {T[i] : i \in 1 .. k}

IsReceived(x) ==
  /\ Stands(x)
  /\ x.pc \in {"look up", "authorize", "require", "load", "answered"}
  /\ x.request \in Requests
  /\ x.scope \in Workspaces \cup {Missing, WorkspaceId(Blank)}
  /\ x.error \in Errors
  /\ x.error # "none" => x.pc = "answered"
  /\ x.commits \in Nat
  /\ IF x.pc = "load" THEN HasLoaded(x) ELSE x.corpus = <<>>
  /\ x.pc # "answered" => Refusal(x.request) = "none"
  /\ Refusal(x.request) # "none" => x.error = Refusal(x.request)

(* What is required of it is the workspace of what it asks for, whenever   *)
(* that was looked up.                                                     *)
Asks(q) == IsCall(q) /\ q.op \in Resources \cup Collections

ScopeIsAsked(x) ==
  /\ RootAsked(x.request) \in NamedRoots
  /\ x.scope = WorkspaceId(RootAsked(x.request))

(* It has passed what its token or its server was to be asked.             *)
MayRead(q) ==
  /\ IsCall(q)
  /\ q.via \in {"rest", "mcp"} => Opens(q.token, WorkspaceId(RootAsked(q)))
  /\ q.via = "stdio" /\ q.bound # Missing =>
       WorkspaceId(RootAsked(q)) \in {q.bound, Missing}

IsScoped(x) ==
  LET q == x.request
  IN  /\ x.pc = "look up" => q.via \in {"rest", "mcp"} /\ NeedsLookUp(q)
      /\ x.pc = "authorize" =>
           q.via \in {"rest", "mcp"} /\ (Asks(q) => ScopeIsAsked(x))
      /\ x.pc = "require" =>
           /\ q.via \in {"mcp", "stdio"}
           /\ q.via = "mcp" /\ Asks(q) => ScopeIsAsked(x) /\ Opens(q.token, x.scope)
      /\ x.pc = "load" => IsCall(q)
      /\ \/ x.pc = "load"
         \/ x.pc = "answered" /\ x.error = "none" /\ x.answer # Missing
         => (q.op \in Resources \cup Collections => MayRead(q))
      /\ x.error = "denied" /\ Asks(q) =>
           ScopeIsAsked(x) /\ (x.scope # Missing => ~Opens(q.token, x.scope))

(* The tables it has read are sound, each of a state of its own, so that   *)
(* it tells of no other workspace than the one it asks for.                *)
TableIsSound(table, rows) ==
  CASE table = "sessions" -> SessionsAreSound(rows)
    [] table = "entries" -> EntriesAreSound(rows)
    [] table = "artifacts" -> ArtifactsAreSound(rows)
    [] table = "anchors" -> AnchorsAreSound(rows)
    [] table = "episodes" -> EpisodesAreSound(rows)
    [] table \in {"insights", "procedures"} -> StatementsAreSound(rows)
    [] table = "insight_anchors" -> EvidenceIsSound(rows)
    [] OTHER -> TRUE

HasReadSound(x) ==
  x.request.op \in Resources \cup Collections =>
    \A t \in DOMAIN x.corpus : TableIsSound(t, x.corpus[t])

TellsOfAsked(x) ==
  /\ x.pc = "answered" /\ x.error = "none" /\ x.answer # Missing
  /\ x.request.op \in Resources \cup Collections /\ x.request.via # "cli"
  => RootsTold(x.request, x.answer) \subseteq {RootAsked(x.request)}

RequestInv(x) ==
  \/ x = Idle
  \/ IsReceived(x) /\ IsScoped(x) /\ HasReadSound(x) /\ TellsOfAsked(x)

(* A search during which nothing was committed has read the store.         *)
SearchCorpus ==
  [t \in Range(SearchTables) |-> Rows(view, knowledge, t)]

SearchIsOfStore(x) ==
  x # Idle /\ x.commits = 0 /\ IsCall(x.request) /\ x.request.op = "search" =>
    /\ \A t \in DOMAIN x.corpus : x.corpus[t] = Rows(view, knowledge, t)
    /\ x.pc = "answered" /\ x.error = "none" =>
         x.answer = SearchCases(SearchCorpus,
                                [Query EXCEPT !.workspace_root = x.request.target])

ReadInv ==
  /\ reader = [r \in Readers |-> reader[r]]
  /\ \A r \in Readers : RequestInv(reader[r]) /\ SearchIsOfStore(reader[r])

-----------------------------------------------------------------------------
(* Facts about ids.  A session, an entry and a receipt of one workspace    *)
(* name it.                                                                *)
LEMMA RootOfId ==
  ASSUME NEW r \in Receipts
  PROVE  /\ SessionId(r)[1] = r.session_kind
         /\ SessionId(r)[2] = r.connector
         /\ SessionId(r)[4] = r.workspace_root
         /\ SessionId(r) # Absent
         /\ r.workspace_root \in NamedRoots
         /\ RootOfReceipt(r.receipt_id) = r.workspace_root
<1>1. RootOfReceipt(r.receipt_id) = r.workspace_root
  <2>1. \A x \in Receipts : x.receipt_id = r.receipt_id => x = r
    BY ReceiptsAreOrdered
  <2>2. QED BY <2>1 DEF RootOfReceipt
<1>2. QED BY <1>1, AbsentIsNoId DEF SessionId, NamedRoots

LEMMA RootOfSession ==
  ASSUME NEW sessions, SessionsAreSound(sessions), NEW s \in sessions
  PROVE  /\ s.workspace_root = s.session_id[4]
         /\ s.session_kind = s.session_id[1]
         /\ s.external[2] = s.session_id[2]
         /\ s.session_id # Absent
         /\ s.workspace_root \in NamedRoots
BY RootOfId DEF SessionsAreSound

LEMMA RootOfEntry ==
  ASSUME NEW id, OfReceipt(id)
  PROVE  RootOfReceipt(id[3]) = id[1][4] /\ id[1] # Absent
BY RootOfId DEF OfReceipt

(* The look-up of a sound store finds the workspace that the id of what is *)
(* asked for is hashed over, or nothing.                                   *)
LEMMA SessionIsAsked ==
  ASSUME SessionsAreSound(view.sessions), NEW id, NEW root \in WorkspaceForSession(view, id)
  PROVE  root = id[4] /\ root \in NamedRoots /\ id # Absent
BY RootOfSession DEF WorkspaceForSession, Roots, SessionsNamed

LEMMA WorkspaceIsAsked ==
  ASSUME StoreInv, NEW q, q.op \in Resources, NEW root \in WorkspacesFor(q)
  PROVE  root = RootAsked(q) /\ root \in NamedRoots
<1>1. /\ SessionsAreSound(view.sessions) /\ EntriesAreSound(view.entries)
      /\ ArtifactsAreSound(view.artifacts) /\ AnchorsAreSound(view.anchors)
      /\ \A e \in view.entries : \E s \in view.sessions : s.session_id = e.session_id
      /\ \A a \in view.anchors : \E e \in view.entries : e.entry_id = a.entry_id
      /\ EpisodesAreSound(knowledge.episodes)
  BY DEF StoreInv, ViewIsSound, KnowledgeIsSound
<1>2. RootAsked(q) = SessionOf(q)[4]
  BY DEF RootAsked
<1>3. CASE q.op = "case"
  <2>1. PICK e \in knowledge.episodes :
          e.episode_id = q.target /\ root \in WorkspaceForSession(view, e.session_id)
    BY <1>3 DEF WorkspacesFor, WorkspaceForCase, EpisodesNamed
  <2>2. root = e.session_id[4] /\ root \in NamedRoots /\ e.session_id # Absent
    BY <1>1, <2>1, SessionIsAsked
  <2>3. e.session_id = q.target[1]
    BY <1>1, <2>1, <2>2 DEF EpisodesAreSound
  <2>4. QED BY <1>2, <1>3, <2>2, <2>3 DEF SessionOf
<1>4. CASE q.op = "document"
  <2>1. PICK a \in view.artifacts :
          a.artifact_id = q.target /\ root \in WorkspaceForSession(view, a.session_id)
    BY <1>4 DEF WorkspacesFor, WorkspaceForArtifact, ArtifactsNamed
  <2>2. a.session_id = q.target[1][1]
    BY <1>1, <2>1 DEF ArtifactsAreSound
  <2>3. QED BY <1>1, <1>2, <1>4, <2>1, <2>2, SessionIsAsked DEF SessionOf
<1>5. CASE q.op = "evidence"
  <2> DEFINE Own(a) == UNION {WorkspaceForSession(view, e.session_id) :
                                e \in EntriesNamed(view.entries, a.entry_id)}
  <2>1. ASSUME NEW a \in view.anchors PROVE Own(a) # {}
    <3>1. PICK e \in view.entries : e.entry_id = a.entry_id
      BY <1>1
    <3>2. PICK s \in view.sessions : s.session_id = e.session_id
      BY <1>1
    <3>3. s.workspace_root \in WorkspaceForSession(view, e.session_id)
      BY <3>2 DEF WorkspaceForSession, Roots, SessionsNamed
    <3>4. QED BY <3>1, <3>3 DEF EntriesNamed
  <2>2. PICK a \in view.anchors : a.anchor_id = q.target /\ root \in Own(a)
    <3>1. WorkspacesFor(q) = WorkspaceForAnchor(view, q.target)
      BY <1>5 DEF WorkspacesFor
    <3>2. WorkspaceForAnchor(view, q.target)
            = UNION {Own(a) : a \in AnchorsNamed(view.anchors, q.target)}
      BY <2>1 DEF WorkspaceForAnchor, AnchorsNamed
    <3> HIDE DEF Own
    <3>3. QED BY <3>1, <3>2 DEF AnchorsNamed
  <2>3. PICK e \in view.entries :
          e.entry_id = a.entry_id /\ root \in WorkspaceForSession(view, e.session_id)
    BY <2>2 DEF EntriesNamed
  <2>4. e.session_id = EntryOfAnchor(q.target)[1]
    BY <1>1, <2>2, <2>3 DEF EntriesAreSound, AnchorsAreSound
  <2>5. QED BY <1>1, <1>2, <1>5, <2>3, <2>4, SessionIsAsked DEF SessionOf
<1>6. CASE q.op \in {"thread", "run", "task"}
  BY <1>1, <1>2, <1>6, SessionIsAsked DEF WorkspacesFor, SessionOf
<1>7. QED BY <1>3, <1>4, <1>5, <1>6 DEF Resources

(* Every table of a sound store is sound. *)
LEMMA RowsAreSound ==
  ASSUME StoreInv, NEW table
  PROVE  TableIsSound(table, Rows(view, knowledge, table))
<1>1. /\ SessionsAreSound(view.sessions) /\ EntriesAreSound(view.entries)
      /\ ArtifactsAreSound(view.artifacts) /\ AnchorsAreSound(view.anchors)
      /\ EpisodesAreSound(knowledge.episodes)
      /\ StatementsAreSound(knowledge.statements)
      /\ EvidenceIsSound(knowledge.evidence)
  BY DEF StoreInv, ViewIsSound, KnowledgeIsSound
<1>2. CASE table \in {"sessions", "entries", "artifacts", "anchors"}
  BY <1>1, <1>2 DEF TableIsSound, Rows
<1>3. CASE table = "episodes"
  BY <1>1, <1>3 DEF TableIsSound, Rows
<1>4. CASE table \in {"insights", "procedures"}
  BY <1>1, <1>4 DEF TableIsSound, Rows, StatementsIn, StatementsAreSound
<1>5. CASE table = "insight_anchors"
  BY <1>1, <1>5 DEF TableIsSound, Rows, EvidenceIsSound
<1>6. QED BY <1>2, <1>3, <1>4, <1>5 DEF TableIsSound

-----------------------------------------------------------------------------
(* What is found in sound tables, which may be those of different states   *)
(* of the store, is all of the workspace asked for.                        *)
LEMMA SessionsTellOfAsked ==
  ASSUME NEW c, SessionsAreSound(c.sessions), EntriesAreSound(c.entries),
         NEW id, NEW v \in SessionViews(c, id)
  PROVE  /\ v.session.workspace_root = id[4]
         /\ RootsOfEntries({b.entry : b \in v.entries}) \subseteq {id[4]}
<1>1. PICK s \in c.sessions :
        s.session_id = id /\ v = [session |-> s, entries |-> Bundles(c, s)]
  BY DEF SessionViews, SessionsNamed
<1>2. s.workspace_root = id[4]
  BY <1>1, RootOfSession
<1>3. ASSUME NEW b \in v.entries PROVE RootOfReceipt(b.entry.entry_id[3]) = id[4]
  <2>1. PICK e \in c.entries : e.session_id = id /\ b = Bundle(c, e)
    BY <1>1 DEF Bundles
  <2>2. b.entry = e
    BY <2>1 DEF Bundle
  <2>3. OfReceipt(e.entry_id) /\ e.entry_id[1] = id
    BY <2>1 DEF EntriesAreSound
  <2>4. QED BY <2>2, <2>3, RootOfEntry
<1>4. QED BY <1>1, <1>2, <1>3 DEF RootsOfEntries

LEMMA CasesTellOfAsked ==
  ASSUME NEW c, SessionsAreSound(c.sessions), EpisodesAreSound(c.episodes),
         NEW id, NEW v \in CaseRecords(c, id)
  PROVE  v.workspace_root \in {id[1][4], Absent}
<1>1. PICK e \in c.episodes : e.episode_id = id /\ v = CaseRecord(c, e)
  BY DEF CaseRecords, EpisodesNamed
<1>2. v.workspace_root = RootOf(c, e)
  BY <1>1 DEF CaseRecord
<1> DEFINE own == SessionsNamed(c.sessions, e.session_id)
<1>3. CASE own = {}
  BY <1>2, <1>3 DEF RootOf
<1>4. CASE own # {}
  <2>1. PICK s \in own : RootOf(c, e) = s.workspace_root
    <3>1. (CHOOSE s \in own : TRUE) \in own
      BY <1>4
    <3>2. QED BY <1>4, <3>1 DEF RootOf
  <2>2. s \in c.sessions /\ s.session_id = e.session_id
    BY DEF SessionsNamed
  <2>3. s.workspace_root = e.session_id[4] /\ e.session_id # Absent
    BY <2>2, RootOfSession
  <2>4. e.session_id = id[1]
    BY <1>1, <2>3 DEF EpisodesAreSound
  <2>5. QED BY <1>2, <2>1, <2>3, <2>4
<1>5. QED BY <1>3, <1>4

LEMMA DocumentTellsOfItsSession ==
  ASSUME NEW c, SessionsAreSound(c.sessions), EntriesAreSound(c.entries),
         ArtifactsAreSound(c.artifacts), NEW a \in c.artifacts,
         NEW v, v = DocumentView(c, a)
  PROVE  Roots(v.session) \cup RootsOfEntries(v.entry)
           \cup {RootOfReceipt(v.artifact.entry_id[3])} \subseteq {a.entry_id[1][4]}
<1>1. /\ v.artifact = a
      /\ v.session = SessionsNamed(c.sessions, a.session_id)
      /\ v.entry = EntriesNamed(c.entries, a.entry_id)
  BY DEF DocumentView
<1>2. OfReceipt(a.entry_id) /\ a.session_id = a.entry_id[1]
  BY DEF ArtifactsAreSound
<1>3. Roots(v.session) \subseteq {a.entry_id[1][4]}
  BY <1>1, <1>2, RootOfSession DEF Roots, SessionsNamed
<1>4. RootOfReceipt(a.entry_id[3]) = a.entry_id[1][4]
  BY <1>2, RootOfEntry
<1>5. RootsOfEntries(v.entry) \subseteq {a.entry_id[1][4]}
  BY <1>1, <1>4 DEF RootsOfEntries, EntriesNamed
<1>6. QED BY <1>1, <1>3, <1>4, <1>5

LEMMA DocumentsOfAreOfRoot ==
  ASSUME NEW c, SessionsAreSound(c.sessions), ArtifactsAreSound(c.artifacts),
         NEW root, NEW v \in DocumentsOf(c, root)
  PROVE  \E a \in c.artifacts : v = DocumentView(c, a) /\ a.entry_id[1][4] = root
<1>1. PICK a \in c.artifacts :
        /\ v = DocumentView(c, a)
        /\ \E s \in SessionsNamed(c.sessions, a.session_id) : s.workspace_root = root
  BY DEF DocumentsOf
<1>2. a.session_id[4] = root
  BY <1>1, RootOfSession DEF SessionsNamed
<1>3. QED BY <1>1, <1>2 DEF ArtifactsAreSound

LEMMA EvidenceTellsOfAsked ==
  ASSUME NEW c, SessionsAreSound(c.sessions), EntriesAreSound(c.entries),
         ArtifactsAreSound(c.artifacts), AnchorsAreSound(c.anchors),
         NEW id, NEW v \in EvidenceViews(c, id)
  PROVE  Roots(v.session) \cup RootsOfEntries(v.entry)
           \cup {RootOfReceipt(v.anchor.entry_id[3])} \subseteq {EntryOfAnchor(id)[1][4]}
<1> DEFINE entry(a) == EntriesNamed(c.entries, a.entry_id)
           artifact(a) == ArtifactsNamed(c.artifacts, a.artifact_id)
           SessionsOf(rows) ==
             UNION {SessionsNamed(c.sessions, x.session_id) : x \in rows}
<1>1. PICK a \in c.anchors : a.anchor_id = id /\ v = AnchorView(c, a)
  BY DEF EvidenceViews, AnchorsNamed
<1>2. /\ v.anchor = a /\ v.entry = entry(a)
      /\ v.session = IF SessionsOf(entry(a)) # {} THEN SessionsOf(entry(a))
                                                  ELSE SessionsOf(artifact(a))
  BY <1>1 DEF AnchorView
<1>3. OfReceipt(a.entry_id) /\ a.entry_id = EntryOfAnchor(id)
  BY <1>1 DEF AnchorsAreSound
<1>4. ASSUME NEW x \in entry(a) \cup artifact(a) PROVE x.session_id = a.entry_id[1]
  <2>1. CASE x \in entry(a)
    BY <2>1 DEF EntriesNamed, EntriesAreSound
  <2>2. CASE x \in artifact(a)
    <3>1. x \in c.artifacts /\ x.artifact_id = a.artifact_id
      BY <2>2 DEF ArtifactsNamed
    <3>2. a.artifact_id # Absent /\ a.artifact_id[1] = x.entry_id
          /\ x.session_id = x.entry_id[1]
      BY <3>1 DEF ArtifactsAreSound
    <3>3. QED BY <3>2 DEF AnchorsAreSound
  <2>3. QED BY <2>1, <2>2
<1>5. \A s \in v.session : s \in c.sessions /\ s.session_id = a.entry_id[1]
  BY <1>2, <1>4 DEF SessionsNamed
<1>6. Roots(v.session) \subseteq {a.entry_id[1][4]}
  BY <1>5, RootOfSession DEF Roots
<1>7. RootOfReceipt(a.entry_id[3]) = a.entry_id[1][4]
  BY <1>3, RootOfEntry
<1>8. RootsOfEntries(v.entry) \subseteq {a.entry_id[1][4]}
  BY <1>2, <1>7 DEF RootsOfEntries, EntriesNamed
<1>9. QED BY <1>2, <1>3, <1>6, <1>7, <1>8

LEMMA HitsTellOfAsked ==
  ASSUME NEW c, SessionsAreSound(c.sessions), EpisodesAreSound(c.episodes),
         StatementsAreSound(c.insights), EvidenceIsSound(c.insight_anchors),
         AnchorsAreSound(c.anchors), NEW request, request.workspace_root # Absent,
         NEW hit \in SearchCases(c, request), NEW id \in hit.evidence
  PROVE  RootOfReceipt(EntryOfAnchor(id)[3]) = request.workspace_root
<1>1. PICK e \in c.episodes : hit = Hit(c, e.episode_id, request) /\ IsHit(c, e, request)
  BY DEF SearchCases, Hits
<1>2. PICK s \in c.sessions :
        s.session_id = e.session_id /\ SessionMatches(s, request)
  BY <1>1 DEF IsHit, SessionsNamed
<1>3. /\ s.workspace_root = request.workspace_root
      /\ s.workspace_root = e.session_id[4] /\ e.session_id # Absent
  BY <1>2, RootOfSession DEF SessionMatches
<1>4. e.episode_id[1][4] = request.workspace_root
  BY <1>3 DEF EpisodesAreSound
<1>5. PICK a \in Evidence(c, e.episode_id) : a.anchor_id = id
  BY <1>1 DEF Hit
<1>6. PICK v \in c.insight_anchors, x \in c.insights :
        /\ a \in c.anchors /\ v.anchor_id = id
        /\ x.id = v.subject /\ x.episode_id = e.episode_id
  BY <1>5 DEF Evidence, EpisodesOf
<1>7. EntryOfAnchor(id)[1] = e.episode_id[1]
  BY <1>6 DEF EvidenceIsSound, StatementsAreSound
<1>8. OfReceipt(EntryOfAnchor(id))
  BY <1>5, <1>6 DEF AnchorsAreSound
<1>9. QED BY <1>4, <1>7, <1>8, RootOfEntry

LEMMA ToldIsAsked ==
  ASSUME NEW q, q.op \in Resources \cup Collections, q.via # "cli",
         IsCall(q), Refusal(q) = "none",
         NEW c, DOMAIN c = Range(TablesFor(q.op)),
         \A t \in DOMAIN c : TableIsSound(t, c[t])
  PROVE  RootsTold(q, Found(q, c)) \subseteq {RootAsked(q)}
<1>1. CASE q.op = "case"
  <2>1. {"sessions", "episodes"} \subseteq DOMAIN c
    BY <1>1 DEF TablesFor, CaseTables, Range
  <2>2. SessionsAreSound(c.sessions) /\ EpisodesAreSound(c.episodes)
    BY <2>1 DEF TableIsSound
  <2>3. \A v \in Found(q, c) : v.workspace_root \in {q.target[1][4], Absent}
    BY <1>1, <2>2, CasesTellOfAsked DEF Found
  <2>4. RootAsked(q) = q.target[1][4]
    BY <1>1 DEF RootAsked, SessionOf, Resources
  <2>5. QED BY <1>1, <2>3, <2>4 DEF RootsTold
<1>2. CASE q.op \in {"thread", "run", "task", "document", "documents", "evidence"}
  <2>1. {"sessions", "entries", "artifacts", "anchors"} \subseteq DOMAIN c
    <3>1. TablesFor(q.op) = ViewTables
      BY <1>2 DEF TablesFor
    <3>2. QED BY <3>1 DEF ViewTables, Range
  <2>2. /\ SessionsAreSound(c.sessions) /\ EntriesAreSound(c.entries)
        /\ ArtifactsAreSound(c.artifacts) /\ AnchorsAreSound(c.anchors)
    BY <2>1 DEF TableIsSound
  <2>3. CASE q.op \in {"thread", "run", "task"}
    <3>1. Found(q, c) \subseteq SessionViews(c, q.target)
      BY <2>3 DEF Found, TaskViews
    <3>2. RootAsked(q) = q.target[4]
      BY <2>3 DEF RootAsked, SessionOf, Resources
    <3>3. \A v \in Found(q, c) :
            {v.session.workspace_root} \cup RootsOfEntries({b.entry : b \in v.entries})
              \subseteq {RootAsked(q)}
      BY <2>2, <3>1, <3>2, SessionsTellOfAsked
    <3>4. QED BY <2>3, <3>3 DEF RootsTold
  <2>4. CASE q.op = "document"
    <3>1. \A v \in Found(q, c) :
            \E a \in c.artifacts : v = DocumentView(c, a) /\ a.artifact_id = q.target
      BY <2>4 DEF Found, DocumentViews, ArtifactsNamed
    <3>2. RootAsked(q) = q.target[1][1][4]
      BY <2>4 DEF RootAsked, SessionOf, Resources
    <3>3. \A a \in c.artifacts :
            a.artifact_id = q.target => a.entry_id[1][4] = RootAsked(q)
      BY <2>2, <3>2 DEF ArtifactsAreSound
    <3>4. \A v \in Found(q, c) :
            Roots(v.session) \cup RootsOfEntries(v.entry)
              \cup {RootOfReceipt(v.artifact.entry_id[3])} \subseteq {RootAsked(q)}
      BY <2>2, <3>1, <3>3, DocumentTellsOfItsSession
    <3>5. QED BY <2>4, <3>4 DEF RootsTold
  <2>5. CASE q.op = "documents"
    <3>1. RootAsked(q) = q.target
      BY <2>5 DEF RootAsked, Resources
    <3>2. \A v \in Found(q, c) :
            \E a \in c.artifacts : v = DocumentView(c, a) /\ a.entry_id[1][4] = RootAsked(q)
      BY <2>2, <2>5, <3>1, DocumentsOfAreOfRoot DEF Found
    <3>3. \A v \in Found(q, c) :
            Roots(v.session) \cup RootsOfEntries(v.entry)
              \cup {RootOfReceipt(v.artifact.entry_id[3])} \subseteq {RootAsked(q)}
      BY <2>2, <3>2, DocumentTellsOfItsSession
    <3>4. QED BY <2>5, <3>3 DEF RootsTold
  <2>6. CASE q.op = "evidence"
    <3>1. RootAsked(q) = EntryOfAnchor(q.target)[1][4]
      BY <2>6 DEF RootAsked, SessionOf, Resources
    <3>2. \A v \in Found(q, c) :
            Roots(v.session) \cup RootsOfEntries(v.entry)
              \cup {RootOfReceipt(v.anchor.entry_id[3])} \subseteq {RootAsked(q)}
      BY <2>2, <2>6, <3>1, EvidenceTellsOfAsked DEF Found
    <3>3. QED BY <2>6, <3>2 DEF RootsTold
  <2>7. QED BY <1>2, <2>3, <2>4, <2>5, <2>6
<1>3. CASE q.op = "search"
  <2> DEFINE request == [Query EXCEPT !.workspace_root = q.target]
  <2>1. {"sessions", "episodes", "insights", "insight_anchors", "anchors"} \subseteq DOMAIN c
    <3>1. TablesFor(q.op) = SearchTables
      BY <1>3 DEF TablesFor
    <3>2. QED BY <3>1 DEF SearchTables, Range
  <2>2. /\ SessionsAreSound(c.sessions) /\ EpisodesAreSound(c.episodes)
        /\ StatementsAreSound(c.insights) /\ EvidenceIsSound(c.insight_anchors)
        /\ AnchorsAreSound(c.anchors)
    BY <2>1 DEF TableIsSound
  <2>3. q.target # Absent
    BY <1>3, MissingIsAbsent DEF Refusal, LacksSelector, Collections
  <2>4. request.workspace_root = q.target
    BY QueryIsWhole
  <2>5. Found(q, c) = SearchCases(c, request)
    BY <1>3 DEF Found
  <2>6. RootAsked(q) = q.target
    BY <1>3 DEF RootAsked, Resources
  <2> HIDE DEF request
  <2>7. \A hit \in Found(q, c) : \A id \in hit.evidence :
          RootOfReceipt(EntryOfAnchor(id)[3]) = RootAsked(q)
    BY <2>2, <2>3, <2>4, <2>5, <2>6, HitsTellOfAsked
  <2>8. QED BY <1>3, <2>7 DEF RootsTold
<1>4. CASE q.op = "runs"
  <2>1. RootAsked(q) = q.target
    BY <1>4 DEF RootAsked, Resources
  <2>2. QED BY <1>4, <2>1 DEF RootsTold, Found, RunsOf, Roots
<1>5. QED BY <1>1, <1>2, <1>3, <1>4 DEF Resources, Collections

-----------------------------------------------------------------------------
(* The table that is read next is the one after those that were read.      *)
LEMMA NextTable ==
  ASSUME NEW op, NEW k \in 0 .. Len(TablesFor(op)) - 1,
         NEW D, D = {TablesFor(op)[i] : i \in 1 .. k}
  PROVE  LET T == TablesFor(op)
             E == D \cup {T[Cardinality(D) + 1]}
         IN  /\ E \subseteq Range(T)
             /\ E # Range(T) =>
                  \E j \in 0 .. Len(T) - 1 : E = {T[i] : i \in 1 .. j}
<1> DEFINE T == TablesFor(op)
           f == [i \in 1 .. k |-> T[i]]
           E == D \cup {T[k + 1]}
<1>1. /\ Len(T) \in Nat \ {0}
      /\ \A i, j \in 1 .. Len(T) : T[i] = T[j] => i = j
      /\ Range(T) = {T[i] : i \in 1 .. Len(T)}
  BY TablesAreDistinct
<1>2. k \in Nat /\ k < Len(T)
  BY <1>1
<1> HIDE DEF T
<1>3. f \in Bijection(1 .. k, D)
  <2>1. f \in [1 .. k -> D]
    BY DEF T
  <2>2. \A i, j \in 1 .. k : f[i] = f[j] => i = j
    BY <1>1, <1>2
  <2>3. \A y \in D : \E i \in 1 .. k : f[i] = y
    BY DEF T
  <2> HIDE DEF f
  <2>4. QED BY <2>1, <2>2, <2>3 DEF Bijection, Injection, Surjection, IsInjective
<1>4. Cardinality(D) = k
  <2> HIDE DEF f
  <2>1. QED BY <1>2, <1>3, FS_CountingElements DEF ExistsBijection
<1>5. E = {T[i] : i \in 1 .. k + 1}
  <2>1. 1 .. k + 1 = (1 .. k) \cup {k + 1}
    BY <1>2
  <2>2. QED BY <2>1 DEF T
<1>6. E \subseteq Range(T)
  <2>1. 1 .. k + 1 \subseteq 1 .. Len(T)
    BY <1>1, <1>2
  <2>2. QED BY <1>1, <1>5, <2>1
<1>7. ASSUME E # Range(T)
      PROVE  \E j \in 0 .. Len(T) - 1 : E = {T[i] : i \in 1 .. j}
  <2>1. k + 1 # Len(T)
    BY <1>1, <1>5, <1>7
  <2>2. k + 1 \in 0 .. Len(T) - 1
    BY <1>1, <1>2, <2>1
  <2> HIDE DEF E
  <2>3. QED BY <1>5, <2>2
<1>8. QED BY <1>4, <1>6, <1>7 DEF T

-----------------------------------------------------------------------------
(* A search of a store that has been derived.                              *)

(* A score only depends on the words.                                      *)
LEMMA ScoreOfWords ==
  ASSUME NEW doc, NEW q, NEW p, q.phrase = p.phrase, q.tokens = p.tokens
  PROVE  DocScore(doc, q) = DocScore(doc, p)
BY DEF DocScore

(* A summary that has all of the words gives its document a score.         *)
LEMMA SummaryScores ==
  ASSUME NEW doc, doc.doc_kind = "episodes", doc.title = doc.subject[2],
         NEW q, IsFiniteSet(q.tokens), SummaryScore(doc.subject[2], q) > 0
  PROVE  DocScore(doc, q) > 0
<1> DEFINE InTitle(word) == Contains(doc.title, word)
           InBody(word) == Contains(Body(doc), word)
           m == Cardinality({word \in q.tokens : InTitle(word)})
           n == Cardinality({word \in q.tokens : InBody(word)})
           b1 == Bonus(Equals(doc.title, q.phrase), 12)
           b2 == Bonus(Equals(Body(doc), q.phrase), 8)
           b3 == Bonus(InBody(q.phrase), 6)
<1>1. \A word \in q.tokens : InTitle(word)
  BY DEF SummaryScore
<1>2. b1 \in Nat /\ b2 \in Nat /\ b3 \in Nat
  BY DEF Bonus
<1>3. m \in Nat /\ n \in Nat
  <2> DEFINE M == {word \in q.tokens : InTitle(word)}
             N == {word \in q.tokens : InBody(word)}
  <2>1. IsFiniteSet(M) /\ IsFiniteSet(N)
    <3>1. M \in SUBSET q.tokens /\ N \in SUBSET q.tokens
      OBVIOUS
    <3> HIDE DEF M, N
    <3>2. QED BY <3>1, FS_Subset
  <2> HIDE DEF M, N
  <2>2. Cardinality(M) \in Nat /\ Cardinality(N) \in Nat
    BY <2>1, FS_CardinalityType
  <2>3. QED BY <2>2 DEF M, N
<1>4. DocScore(doc, q) = 8 + b1 + b2 + b3 + 4 * m + 2 * n
  BY <1>1 DEF DocScore, Weight
<1> HIDE DEF m, n, b1, b2, b3
<1>5. QED BY <1>2, <1>3, <1>4

LEMMA DocsOfCase ==
  ASSUME StoreInv, NEW id, NEW doc \in knowledge.search_docs
  PROVE  doc \in Docs(SearchCorpus, id) <=> CaseOfDoc(doc) = id
<1>1. StatementsAreSound(knowledge.statements) /\ SearchDocsAreSound(knowledge)
  BY DEF StoreInv, KnowledgeIsSound
<1>2. SearchCorpus["search_docs"] = knowledge.search_docs
  BY DEF SearchCorpus, SearchTables, Range, Rows
<1>3. \A t \in {"insights", "procedures"} :
        SearchCorpus[t] = {x \in knowledge.statements : x.table = t}
  BY DEF SearchCorpus, SearchTables, Range, Rows, StatementsIn
<1>4. doc \in Docs(SearchCorpus, id)
        <=> id \in (IF doc.doc_kind = "episodes" THEN {doc.subject}
                    ELSE EpisodesOf(SearchCorpus, doc.doc_kind, doc.subject))
  BY <1>2 DEF Docs
<1>5. CASE doc.doc_kind = "episodes"
  BY <1>4, <1>5 DEF CaseOfDoc
<1>6. CASE doc.doc_kind # "episodes"
  <2>1. /\ doc.doc_kind \in {"insights", "procedures"}
        /\ \E x \in knowledge.statements : x.table = doc.doc_kind /\ x.id = doc.subject
    BY <1>1, <1>6 DEF SearchDocsAreSound
  <2>2. SearchCorpus[doc.doc_kind] = {x \in knowledge.statements : x.table = doc.doc_kind}
    BY <1>3, <2>1
  <2>3. EpisodesOf(SearchCorpus, doc.doc_kind, doc.subject)
          = {x.episode_id : x \in {x \in knowledge.statements :
                                     x.table = doc.doc_kind /\ x.id = doc.subject}}
    BY <2>2 DEF EpisodesOf
  <2>4. \A x \in knowledge.statements : x.id = doc.subject => x.episode_id = doc.subject[2]
    BY <1>1 DEF StatementsAreSound
  <2>5. EpisodesOf(SearchCorpus, doc.doc_kind, doc.subject) = {doc.subject[2]}
    BY <2>1, <2>3, <2>4
  <2>6. QED BY <1>4, <1>6, <2>5 DEF CaseOfDoc
<1>7. QED BY <1>5, <1>6

(* A case is hit exactly if one of its documents is in what is asked for.  *)
LEMMA HitIsMatching ==
  ASSUME StoreInv, NEW root, \E x \in Ledger : marks[x].index_state = "indexed",
         NEW e \in knowledge.episodes
  PROVE  IsHit(SearchCorpus, e, [Query EXCEPT !.workspace_root = root])
           <=> e.episode_id \in MatchingCases(root)
<1> DEFINE q == [Query EXCEPT !.workspace_root = root]
           id == e.episode_id
<1>1. /\ SessionsAreSound(view.sessions) /\ EpisodesAreSound(knowledge.episodes)
      /\ SearchDocsAreSound(knowledge)
      /\ \A d \in knowledge.episodes :
           \E s \in view.sessions : s.session_id = d.session_id
  BY DEF StoreInv, ViewIsSound, KnowledgeIsSound, IndexedIsBacked
<1>2. /\ q.phrase = Query.phrase /\ q.tokens = Query.tokens
      /\ q.session_kind = Query.session_kind /\ q.connector = Query.connector
      /\ q.workspace_root = root /\ IsFiniteSet(Query.tokens)
  BY QueryIsWhole
<1>3. /\ SearchCorpus["search_docs"] = knowledge.search_docs
      /\ SearchCorpus["sessions"] = view.sessions
  BY DEF SearchCorpus, SearchTables, Range, Rows
<1> HIDE DEF q
<1>4. \A doc : DocScore(doc, q) = DocScore(doc, Query)
  BY <1>2, ScoreOfWords
<1>5. \A doc : doc \in Matching(SearchCorpus, id, q)
                 <=> /\ doc \in knowledge.search_docs /\ CaseOfDoc(doc) = id
                     /\ DocScore(doc, Query) > 0
  <2>1. \A doc : doc \in Docs(SearchCorpus, id) => doc \in knowledge.search_docs
    BY <1>3 DEF Docs
  <2>2. QED BY <1>4, <2>1, DocsOfCase DEF Matching
<1>6. ASSUME NEW s \in view.sessions, s.session_id = e.session_id
      PROVE  /\ s.session_id = id[1] /\ s.workspace_root = id[1][4]
             /\ s.session_kind = id[1][1] /\ s.external[2] = id[1][2]
  <2>1. e.session_id # Absent
    BY <1>1, <1>6, RootOfSession
  <2>2. e.session_id = id[1]
    BY <1>1, <2>1 DEF EpisodesAreSound
  <2>3. QED BY <1>1, <1>6, <2>2, RootOfSession
<1>7. PICK s \in view.sessions : s.session_id = e.session_id
  BY <1>1
<1>8. (\E t \in SessionsNamed(SearchCorpus.sessions, e.session_id) : SessionMatches(t, q))
        <=> /\ Query.session_kind \in {Absent, id[1][1]}
            /\ Query.connector \in {Absent, id[1][2]}
            /\ root \in {Absent, id[1][4]}
  BY <1>2, <1>3, <1>6, <1>7 DEF SessionsNamed, SessionMatches
<1>9. id \in MatchingCases(root)
        <=> /\ Query.session_kind \in {Absent, id[1][1]}
            /\ Query.connector \in {Absent, id[1][2]}
            /\ root \in {Absent, id[1][4]}
            /\ \E doc \in knowledge.search_docs :
                 CaseOfDoc(doc) = id /\ DocScore(doc, Query) > 0
  <2>1. \A doc \in knowledge.search_docs : doc.workspace_root = CaseOfDoc(doc)[1][4]
    BY <1>1 DEF SearchDocsAreSound
  <2>2. QED BY <2>1, MissingIsAbsent DEF MatchingCases, MatchingDocs
<1>10. SummaryScore(id[2], q) > 0 =>
         \E doc \in knowledge.search_docs : CaseOfDoc(doc) = id /\ DocScore(doc, Query) > 0
  <2>1. PICK doc \in knowledge.search_docs : doc.doc_kind = "episodes" /\ doc.subject = id
    BY <1>1 DEF SearchDocsAreSound
  <2>2. doc.title = doc.subject[2]
    BY <1>1, <2>1 DEF SearchDocsAreSound
  <2>3. SummaryScore(id[2], q) > 0 => DocScore(doc, q) > 0
    BY <1>2, <2>1, <2>2, SummaryScores
  <2>4. QED BY <1>4, <2>1, <2>3 DEF CaseOfDoc
<1>11. IsHit(SearchCorpus, e, q)
         <=> /\ \E t \in SessionsNamed(SearchCorpus.sessions, e.session_id) : SessionMatches(t, q)
             /\ \/ Matching(SearchCorpus, id, q) # {} \/ SummaryScore(id[2], q) > 0
  BY DEF IsHit
<1>12. IsHit(SearchCorpus, e, q) <=> id \in MatchingCases(root)
  BY <1>5, <1>8, <1>9, <1>10, <1>11
<1>13. QED BY <1>12 DEF q

(* So the cases that have one are hit, and none is cut off if there are no *)
(* more of them than the limit.                                            *)
LEMMA SearchIsComplete ==
  ASSUME StoreInv, NEW root, \E x \in Ledger : marks[x].index_state = "indexed",
         Query.tokens # {},
         Cardinality(MatchingCases(root)) <= EffectiveLimit(Query.limit)
  PROVE  {hit.id : hit \in SearchCases(SearchCorpus, [Query EXCEPT !.workspace_root = root])}
           = MatchingCases(root)
<1> DEFINE q == [Query EXCEPT !.workspace_root = root]
           cases == MatchingCases(root)
           f == [id \in cases |-> Hit(SearchCorpus, id, q)]
           H == Hits(SearchCorpus, q)
<1>1. q.tokens = Query.tokens /\ q.limit = Query.limit /\ Query.limit \in Nat
  BY QueryIsWhole
<1>2. SearchCorpus["episodes"] = knowledge.episodes
  BY DEF SearchCorpus, SearchTables, Range, Rows
<1>3. \A id \in cases : \E e \in knowledge.episodes : e.episode_id = id
  BY DEF StoreInv, KnowledgeIsSound, SearchDocsAreSound, MatchingCases, MatchingDocs
<1>4. IsFiniteSet(cases)
  <2> DEFINE g == [e \in knowledge.episodes |-> e.episode_id]
             I == {g[e] : e \in knowledge.episodes}
  <2>1. IsFiniteSet(knowledge.episodes) /\ g = [e \in knowledge.episodes |-> g[e]]
    BY DEF StoreInv, KnowledgeIsSound
  <2>2. cases \in SUBSET I
    BY <1>3
  <2> HIDE DEF g, cases
  <2>3. IsFiniteSet(I)
    BY <2>1, FiniteImage
  <2> HIDE DEF I
  <2>4. QED BY <2>2, <2>3, FS_Subset
<1>5. \A e \in knowledge.episodes : IsHit(SearchCorpus, e, q) <=> e.episode_id \in cases
  BY HitIsMatching
<1> HIDE DEF q, cases
<1>6. H = {f[id] : id \in cases}
  <2>1. H = {Hit(SearchCorpus, e.episode_id, q) :
               e \in {e \in knowledge.episodes : IsHit(SearchCorpus, e, q)}}
    BY <1>1, <1>2 DEF Hits
  <2>2. QED BY <1>3, <1>5, <2>1
<1>7. \A id \in cases : f[id].id = id
  BY DEF Hit
<1>8. f = [id \in cases |-> f[id]]
  OBVIOUS
<1> HIDE DEF f, H
<1>9. IsFiniteSet(H) /\ Cardinality(H) <= Cardinality(cases)
  BY <1>4, <1>6, <1>8, FiniteImage
<1> DEFINE limit == EffectiveLimit(q.limit)
<1>10. limit \in Nat /\ Cardinality(cases) <= limit
  BY <1>1 DEF EffectiveLimit, cases
<1>11. ASSUME NEW h \in H PROVE Rank(H, h) < limit
  <2> DEFINE R == {g \in H \ {h} : RanksBefore(g, h)}
             n == Cardinality(H)
             c == Cardinality(cases)
             m == Cardinality(H \ {h})
  <2>1. IsFiniteSet(H \ {h}) /\ m = n - 1
    BY <1>9, FS_RemoveElement
  <2>2. R \in SUBSET (H \ {h})
    OBVIOUS
  <2> HIDE DEF R
  <2>3. IsFiniteSet(R) /\ Cardinality(R) <= m
    BY <2>1, <2>2, FS_Subset
  <2>4. Cardinality(R) \in Nat /\ m \in Nat /\ n \in Nat /\ c \in Nat
    BY <1>4, <1>9, <2>1, <2>3, FS_CardinalityType
  <2>5. n <= c /\ c <= limit
    BY <1>9, <1>10
  <2> HIDE DEF m, n, c, limit
  <2>6. Cardinality(R) < limit
    BY <1>10, <2>1, <2>3, <2>4, <2>5
  <2>7. QED BY <2>6 DEF Rank, R
<1>12. SearchCases(SearchCorpus, q) = H
  BY <1>11 DEF SearchCases, H
<1>13. {hit.id : hit \in H} = cases
  BY <1>6, <1>7
<1>14. QED BY <1>12, <1>13 DEF q, cases

-----------------------------------------------------------------------------
(* What a step does to the request it serves.                              *)
LEMMA Moved ==
  ASSUME NEW r \in Readers, reader = [s \in Readers |-> reader[s]],
         NEW state, Goes(r, state)
  PROVE  /\ reader' = [s \in Readers |-> reader'[s]]
         /\ reader'[r] = state
         /\ \A s \in Readers : s # r => reader'[s] = reader[s]
         /\ view' = view /\ knowledge' = knowledge
BY DEF Goes, store_vars

(* A request, field by field. *)
Is(x, pc, q, scope, corpus, error, answer, commits) ==
  /\ Stands(x)
  /\ x.pc = pc /\ x.request = q /\ x.scope = scope /\ x.corpus = corpus
  /\ x.error = error /\ x.answer = answer /\ x.commits = commits

LEMMA Moves ==
  ASSUME NEW r \in Readers, Stands(reader[r]), NEW pc, NEW any
  PROVE  LET x == reader[r]
         IN  /\ Is(On(r, pc), pc, x.request, x.scope, x.corpus, x.error, x.answer,
                   x.commits)
             /\ Is([On(r, pc) EXCEPT !.scope = any], pc, x.request, any, x.corpus,
                   x.error, x.answer, x.commits)
             /\ Is(Failed(r, any), "answered", x.request, x.scope, <<>>, any, x.answer,
                   x.commits)
             /\ Is(Answered(r, any), "answered", x.request, x.scope, <<>>, x.error, any,
                   x.commits)
             /\ Is([x EXCEPT !.corpus = any], x.pc, x.request, x.scope, any, x.error,
                   x.answer, x.commits)
<1> DEFINE x == reader[r]
           y == On(r, pc)
           w == On(r, "answered")
<1>1. y = [x EXCEPT !.pc = pc] /\ w = [x EXCEPT !.pc = "answered"]
  BY DEF On
<1>2. Stands(x)
  OBVIOUS
<1> HIDE DEF x, y, w
<1>3. Is(y, pc, x.request, x.scope, x.corpus, x.error, x.answer, x.commits)
  BY <1>1, <1>2 DEF Is, Stands
<1>4. Is(w, "answered", x.request, x.scope, x.corpus, x.error, x.answer, x.commits)
  BY <1>1, <1>2 DEF Is, Stands
<1>5. Is([y EXCEPT !.scope = any], pc, x.request, any, x.corpus, x.error, x.answer, x.commits)
  BY <1>3 DEF Is, Stands
<1>6. Is([w EXCEPT !.error = any, !.corpus = <<>>], "answered", x.request, x.scope, <<>>, any,
         x.answer, x.commits)
  <2> DEFINE u == [w EXCEPT !.error = any]
             v == [w EXCEPT !.error = any, !.corpus = <<>>]
  <2>1. Is(u, "answered", x.request, x.scope, x.corpus, any, x.answer, x.commits)
    BY <1>4 DEF Is, Stands
  <2>2. v = [u EXCEPT !.corpus = <<>>]
    OBVIOUS
  <2> HIDE DEF u, v
  <2>3. Is(v, "answered", x.request, x.scope, <<>>, any, x.answer, x.commits)
    BY <2>1, <2>2 DEF Is, Stands
  <2>4. QED BY <2>3 DEF v
<1>7. Is([w EXCEPT !.answer = any, !.corpus = <<>>], "answered", x.request, x.scope, <<>>,
         x.error, any, x.commits)
  <2> DEFINE u == [w EXCEPT !.answer = any]
             v == [w EXCEPT !.answer = any, !.corpus = <<>>]
  <2>1. Is(u, "answered", x.request, x.scope, x.corpus, x.error, any, x.commits)
    BY <1>4 DEF Is, Stands
  <2>2. v = [u EXCEPT !.corpus = <<>>]
    OBVIOUS
  <2> HIDE DEF u, v
  <2>3. Is(v, "answered", x.request, x.scope, <<>>, x.error, any, x.commits)
    BY <2>1, <2>2 DEF Is, Stands
  <2>4. QED BY <2>3 DEF v
<1>8. Is([x EXCEPT !.corpus = any], x.pc, x.request, x.scope, any, x.error, x.answer, x.commits)
  BY <1>2 DEF Is, Stands
<1>9. QED BY <1>3, <1>5, <1>6, <1>7, <1>8 DEF x, y, w, Failed, Answered

LEMMA NothingLoaded ==
  ASSUME NEW x, x.corpus = <<>>
  PROVE  HasLoaded(x) /\ DOMAIN x.corpus = {}
<1>1. DOMAIN x.corpus = {} /\ 1 .. 0 = {}
  OBVIOUS
<1>2. Len(TablesFor(x.request.op)) \in Nat \ {0}
  BY TablesAreDistinct
<1>3. 0 \in 0 .. Len(TablesFor(x.request.op)) - 1
  BY <1>2
<1>4. QED BY <1>1, <1>3 DEF HasLoaded

(* A request that goes on has read nothing yet. *)
LEMMA Onward ==
  ASSUME NEW x, IsReceived(x), x.pc \in {"look up", "authorize", "require"},
         NEW pc \in {"authorize", "require", "load"},
         NEW scope \in Workspaces \cup {Missing, WorkspaceId(Blank)},
         NEW y, Is(y, pc, x.request, scope, x.corpus, x.error, x.answer, x.commits),
         IsScoped(y)
  PROVE  RequestInv(y) /\ SearchIsOfStore(y)
<1>1. y.corpus = <<>> /\ y.pc # "answered"
  BY DEF Is, IsReceived
<1>2. HasLoaded(y) /\ DOMAIN y.corpus = {}
  BY <1>1, NothingLoaded
<1>3. IsReceived(y)
  BY <1>1, <1>2 DEF Is, IsReceived
<1>4. HasReadSound(y) /\ TellsOfAsked(y) /\ SearchIsOfStore(y)
  BY <1>1, <1>2 DEF HasReadSound, TellsOfAsked, SearchIsOfStore
<1>5. QED BY <1>3, <1>4 DEF RequestInv

(* A request that fails is answered with the error. *)
LEMMA Ended ==
  ASSUME NEW x, IsReceived(x), x.pc # "answered",
         NEW error \in Errors \ {"none"},
         NEW y, Is(y, "answered", x.request, x.scope, <<>>, error, x.answer, x.commits),
         error = "denied" /\ Asks(x.request) =>
           ScopeIsAsked(x) /\ (x.scope # Missing => ~Opens(x.request.token, x.scope))
  PROVE  RequestInv(y) /\ SearchIsOfStore(y)
<1>1. /\ y.corpus = <<>> /\ y.pc = "answered" /\ y.error = error /\ y.error # "none"
      /\ y.request = x.request /\ y.scope = x.scope
  BY DEF Is
<1>2. DOMAIN y.corpus = {}
  BY <1>1, NothingLoaded
<1>3. IsReceived(y)
  BY <1>1 DEF Is, IsReceived
<1>4. HasReadSound(y) /\ TellsOfAsked(y) /\ SearchIsOfStore(y)
  BY <1>1, <1>2 DEF HasReadSound, TellsOfAsked, SearchIsOfStore
<1>5. IsScoped(y)
  BY <1>1 DEF IsScoped, ScopeIsAsked
<1>6. QED BY <1>3, <1>4, <1>5 DEF RequestInv

(* A step of a reader leaves what the others have read as it was. *)
LEMMA OthersAreKept ==
  ASSUME ReadInv, NEW r \in Readers, NEW state, Goes(r, state),
         RequestInv(state), SearchIsOfStore(state)
  PROVE  ReadInv'
<1>1. /\ reader = [s \in Readers |-> reader[s]]
      /\ \A s \in Readers : RequestInv(reader[s]) /\ SearchIsOfStore(reader[s])
  BY DEF ReadInv
<1>2. /\ reader' = [s \in Readers |-> reader'[s]]
      /\ reader'[r] = state
      /\ \A s \in Readers : s # r => reader'[s] = reader[s]
      /\ view' = view /\ knowledge' = knowledge
  BY <1>1, Moved
<1>3. ASSUME NEW s \in Readers, NEW x, SearchIsOfStore(x), reader'[s] = x
      PROVE  SearchIsOfStore(reader[s])'
  BY <1>2, <1>3 DEF SearchIsOfStore, SearchCorpus
<1>4. ASSUME NEW s \in Readers PROVE RequestInv(reader'[s]) /\ SearchIsOfStore(reader[s])'
  <2>1. CASE s = r
    BY <1>2, <1>3, <2>1
  <2>2. CASE s # r
    BY <1>1, <1>2, <1>3, <2>2
  <2>3. QED BY <2>1, <2>2
<1>5. QED BY <1>2, <1>4 DEF ReadInv

LEMMA Standing ==
  ASSUME ReadInv, NEW r \in Readers, ~At(r, "idle")
  PROVE  LET x == reader[r]
         IN  /\ IsReceived(x) /\ IsScoped(x) /\ HasReadSound(x) /\ TellsOfAsked(x)
             /\ SearchIsOfStore(x) /\ x # Idle /\ Stands(x)
<1> DEFINE x == reader[r]
<1>1. x.pc # "idle" /\ RequestInv(x) /\ SearchIsOfStore(x)
  BY DEF ReadInv, At
<1>2. Idle.pc = "idle"
  BY DEF Idle
<1> HIDE DEF x
<1>3. x # Idle
  BY <1>1, <1>2
<1>4. IsReceived(x) /\ IsScoped(x) /\ HasReadSound(x) /\ TellsOfAsked(x)
  BY <1>1, <1>3 DEF RequestInv
<1>5. Stands(x)
  BY <1>4 DEF IsReceived
<1>6. QED BY <1>1, <1>3, <1>4, <1>5 DEF x

LEMMA RootIsTyped ==
  ASSUME NEW root \in NamedRoots
  PROVE  WorkspaceId(root) \in Workspaces \cup {Missing, WorkspaceId(Blank)}
BY RootsHaveIds

-----------------------------------------------------------------------------
(* The steps of a request.                                                 *)
LEMMA ReplyKeeps ==
  ASSUME ReadInv, NEW r \in Readers, Reply(r)
  PROVE  ReadInv'
<1>1. Goes(r, Idle) /\ RequestInv(Idle) /\ SearchIsOfStore(Idle)
  BY DEF Reply, RequestInv, SearchIsOfStore
<1>2. QED BY <1>1, OthersAreKept

LEMMA LookUpKeeps ==
  ASSUME StoreInv, ReadInv, NEW r \in Readers, LookUp(r)
  PROVE  ReadInv'
<1> DEFINE x == reader[r]
           q == x.request
<1>1. x.pc = "look up" /\ ~At(r, "idle")
  BY DEF LookUp, At
<1>2. IsReceived(x) /\ IsScoped(x) /\ Stands(x)
  BY <1>1, Standing
<1>3. q.via \in {"rest", "mcp"} /\ NeedsLookUp(q) /\ q.op \in Resources
  BY <1>1, <1>2 DEF IsScoped, NeedsLookUp
<1>4. CASE Goes(r, Failed(r, "not found"))
  <2>1. Is(Failed(r, "not found"), "answered", q, x.scope, <<>>, "not found", x.answer, x.commits)
    BY <1>2, Moves
  <2>2. "not found" \in Errors \ {"none"} /\ "not found" # "denied"
    BY DEF Errors
  <2>3. RequestInv(Failed(r, "not found")) /\ SearchIsOfStore(Failed(r, "not found"))
    BY <1>1, <1>2, <2>1, <2>2, Ended
  <2>4. QED BY <1>4, <2>3, OthersAreKept
<1>5. ASSUME NEW root \in WorkspacesFor(q),
             Goes(r, [On(r, "authorize") EXCEPT !.scope = WorkspaceId(root)])
      PROVE  ReadInv'
  <2> DEFINE y == [On(r, "authorize") EXCEPT !.scope = WorkspaceId(root)]
  <2>1. root = RootAsked(q) /\ root \in NamedRoots
    BY <1>3, WorkspaceIsAsked
  <2>2. Is(y, "authorize", q, WorkspaceId(root), x.corpus, x.error, x.answer, x.commits)
    BY <1>2, Moves
  <2> HIDE DEF y
  <2>3. IsScoped(y)
    <3>1. y.error = "none"
      BY <1>1, <1>2, <2>2 DEF Is, IsReceived
    <3>2. QED BY <1>3, <2>1, <2>2, <3>1 DEF Is, IsScoped, ScopeIsAsked
  <2>4. WorkspaceId(root) \in Workspaces \cup {Missing, WorkspaceId(Blank)}
    BY <2>1, RootIsTyped
  <2>5. RequestInv(y) /\ SearchIsOfStore(y)
    BY <1>1, <1>2, <2>2, <2>3, <2>4, Onward
  <2>6. QED BY <1>5, <2>5, OthersAreKept DEF y
<1>6. QED BY <1>4, <1>5 DEF LookUp, Served

LEMMA AuthorizeKeeps ==
  ASSUME ReadInv, NEW r \in Readers, Authorize(r)
  PROVE  ReadInv'
<1> DEFINE x == reader[r]
           q == x.request
<1>1. x.pc = "authorize" /\ ~At(r, "idle")
  BY DEF Authorize, At
<1>2. /\ IsReceived(x) /\ IsScoped(x) /\ Stands(x) /\ x.error = "none"
      /\ x.scope \in Workspaces \cup {Missing, WorkspaceId(Blank)}
  BY <1>1, Standing DEF IsReceived
<1>3. q.via \in {"rest", "mcp"} /\ (Asks(q) => ScopeIsAsked(x))
  BY <1>1, <1>2 DEF IsScoped
<1>4. CASE ~IsAuthorized(r)
  <2> DEFINE y == Failed(r, "denied")
  <2>1. Is(y, "answered", q, x.scope, <<>>, "denied", x.answer, x.commits)
    BY <1>2, Moves
  <2>2. "denied" \in Errors \ {"none"}
    BY DEF Errors
  <2>3. x.scope # Missing => ~Opens(q.token, x.scope)
    BY <1>4 DEF IsAuthorized, Opens, Served
  <2> HIDE DEF y
  <2>4. RequestInv(y) /\ SearchIsOfStore(y)
    BY <1>1, <1>2, <1>3, <2>1, <2>2, <2>3, Ended
  <2>5. Goes(r, y)
    BY <1>4 DEF Authorize, y
  <2>6. QED BY <2>4, <2>5, OthersAreKept
<1>5. ASSUME IsAuthorized(r), NEW pc \in {"require", "load"},
             pc = (IF q.via = "mcp" THEN "require" ELSE "load")
      PROVE  RequestInv(On(r, pc)) /\ SearchIsOfStore(On(r, pc))
  <2> DEFINE y == On(r, pc)
  <2>1. Is(y, pc, q, x.scope, x.corpus, x.error, x.answer, x.commits)
    BY <1>2, Moves
  <2>2. Opens(q.token, x.scope) /\ (x.scope = Missing => q.via = "mcp")
    BY <1>5 DEF IsAuthorized, Opens, Served
  <2> HIDE DEF y
  <2>3. IsScoped(y)
    <3>1. CASE pc = "require"
      BY <1>2, <1>3, <1>5, <2>1, <2>2, <3>1 DEF Is, IsScoped, ScopeIsAsked
    <3>2. CASE pc = "load"
      <4>1. q.via = "rest" /\ IsCall(q)
        BY <1>3, <1>5, <3>2 DEF IsCall, IsMessage
      <4>2. q.op \in Resources \cup Collections => MayRead(q)
        BY <1>3, <2>2, <4>1 DEF MayRead, Asks, ScopeIsAsked
      <4>3. QED BY <1>2, <2>1, <3>2, <4>1, <4>2 DEF Is, IsScoped
    <3>3. QED BY <3>1, <3>2
  <2>4. RequestInv(y) /\ SearchIsOfStore(y)
    BY <1>1, <1>2, <2>1, <2>3, Onward
  <2>5. QED BY <2>4 DEF y
<1>6. CASE IsAuthorized(r) /\ q.via = "mcp"
  <2>1. Goes(r, On(r, "require"))
    BY <1>6 DEF Authorize, Served
  <2>2. RequestInv(On(r, "require")) /\ SearchIsOfStore(On(r, "require"))
    BY <1>5, <1>6
  <2>3. QED BY <2>1, <2>2, OthersAreKept
<1>7. CASE IsAuthorized(r) /\ q.via # "mcp"
  <2>1. Goes(r, On(r, "load"))
    BY <1>7 DEF Authorize, Served
  <2>2. RequestInv(On(r, "load")) /\ SearchIsOfStore(On(r, "load"))
    BY <1>5, <1>7
  <2>3. QED BY <2>1, <2>2, OthersAreKept
<1>8. QED BY <1>4, <1>6, <1>7

LEMMA RequireKeeps ==
  ASSUME StoreInv, ReadInv, NEW r \in Readers, Require(r)
  PROVE  ReadInv'
<1> DEFINE x == reader[r]
           q == x.request
           required == IF NeedsLookUp(q) THEN {WorkspaceId(w) : w \in WorkspacesFor(q)}
                       ELSE {Scope(q)}
<1>1. x.pc = "require" /\ ~At(r, "idle")
  BY DEF Require, At
<1>2. /\ IsReceived(x) /\ IsScoped(x) /\ Stands(x) /\ x.error = "none"
      /\ x.scope \in Workspaces \cup {Missing, WorkspaceId(Blank)}
  BY <1>1, Standing DEF IsReceived
<1>3. /\ q.via \in {"mcp", "stdio"}
      /\ q.via = "mcp" /\ Asks(q) => ScopeIsAsked(x) /\ Opens(q.token, x.scope)
  BY <1>1, <1>2 DEF IsScoped
<1>4. ASSUME NEW error \in {"not found", "outside", "unknown method"},
             Goes(r, Failed(r, error))
      PROVE  ReadInv'
  <2> DEFINE y == Failed(r, error)
  <2>1. Is(y, "answered", q, x.scope, <<>>, error, x.answer, x.commits)
    BY <1>2, Moves
  <2>2. error \in Errors \ {"none"} /\ error # "denied"
    BY DEF Errors
  <2> HIDE DEF y
  <2>3. RequestInv(y) /\ SearchIsOfStore(y)
    BY <1>1, <1>2, <2>1, <2>2, Ended
  <2>4. QED BY <1>4, <2>3, OthersAreKept DEF y
<1>5. ASSUME ~IsCall(q), Goes(r, Answered(r, Missing))
      PROVE  ReadInv'
  <2> DEFINE y == Answered(r, Missing)
  <2>1. Is(y, "answered", q, x.scope, <<>>, "none", Missing, x.commits)
    BY <1>2, Moves
  <2> HIDE DEF y
  <2>2. DOMAIN y.corpus = {}
    BY <2>1, NothingLoaded DEF Is
  <2>3. IsReceived(y)
    BY <1>1, <1>2, <2>1 DEF Is, IsReceived
  <2>4. IsScoped(y) /\ HasReadSound(y) /\ TellsOfAsked(y) /\ SearchIsOfStore(y)
    BY <1>5, <2>1, <2>2 DEF Is, IsScoped, HasReadSound, TellsOfAsked, SearchIsOfStore
  <2>5. RequestInv(y)
    BY <2>3, <2>4 DEF RequestInv
  <2>6. QED BY <1>5, <2>4, <2>5, OthersAreKept DEF y
<1>6. ASSUME NEW w \in required, ~IsOutside(r, w), IsCall(q), Goes(r, On(r, "load"))
      PROVE  ReadInv'
  <2> DEFINE y == On(r, "load")
  <2>1. Is(y, "load", q, x.scope, x.corpus, x.error, x.answer, x.commits)
    BY <1>2, Moves
  <2>2. ASSUME q.op \in Resources \cup Collections PROVE MayRead(q)
    <3>1. CASE q.via = "mcp"
      BY <1>3, <1>6, <2>2, <3>1 DEF Asks, MayRead, ScopeIsAsked
    <3>2. CASE q.via = "stdio"
      <4>1. w = WorkspaceId(RootAsked(q))
        <5>1. CASE q.op \in Resources
          BY <1>6, <5>1, WorkspaceIsAsked DEF NeedsLookUp
        <5>2. CASE q.op \in Collections
          BY <1>6, <5>2 DEF NeedsLookUp, NamesWorkspace, Scope, RootAsked,
                            Resources, Collections
        <5>3. QED BY <2>2, <5>1, <5>2
      <4>2. q.bound # Missing => w \in {q.bound, Missing}
        BY <1>6, <3>2 DEF IsOutside, Bound, Served
      <4>3. QED BY <1>6, <3>2, <4>1, <4>2 DEF MayRead
    <3>3. QED BY <1>3, <3>1, <3>2
  <2> HIDE DEF y
  <2>3. IsScoped(y)
    BY <1>2, <1>6, <2>1, <2>2 DEF Is, IsScoped
  <2>4. RequestInv(y) /\ SearchIsOfStore(y)
    BY <1>1, <1>2, <2>1, <2>3, Onward
  <2>5. QED BY <1>6, <2>4, OthersAreKept DEF y
<1>7. \/ Goes(r, Failed(r, "not found"))
      \/ \E w \in required :
           Goes(r, IF IsOutside(r, w) THEN Failed(r, "outside") ELSE Dispatched(r))
  BY DEF Require, Served
<1>8. ASSUME NEW w \in required, ~IsOutside(r, w), Goes(r, Dispatched(r))
      PROVE  ReadInv'
  <2>1. CASE IsUnknown(q)
    BY <1>4, <1>8, <2>1 DEF Dispatched, Served
  <2>2. CASE ~IsUnknown(q) /\ ~IsCall(q)
    BY <1>5, <1>8, <2>2 DEF Dispatched, Served
  <2>3. CASE ~IsUnknown(q) /\ IsCall(q)
    BY <1>6, <1>8, <2>3 DEF Dispatched, Served
  <2>4. QED BY <2>1, <2>2, <2>3
<1>9. QED BY <1>4, <1>7, <1>8

LEMMA Begins ==
  ASSUME NEW pc, NEW q, NEW any
  PROVE  /\ Is([Idle EXCEPT !.pc = pc, !.request = q, !.error = any],
               pc, q, Missing, <<>>, any, Missing, 0)
         /\ Is([Idle EXCEPT !.pc = pc, !.request = q, !.scope = any],
               pc, q, any, <<>>, "none", Missing, 0)
<1> DEFINE x == [Idle EXCEPT !.pc = pc]
           y == [Idle EXCEPT !.pc = pc, !.request = q]
           v == [Idle EXCEPT !.pc = pc, !.request = q, !.error = any]
           w == [Idle EXCEPT !.pc = pc, !.request = q, !.scope = any]
<1>1. Is(Idle, "idle", Missing, Missing, <<>>, "none", Missing, 0)
  BY DEF Idle, Is, Stands
<1>2. /\ y = [x EXCEPT !.request = q]
      /\ v = [y EXCEPT !.error = any]
      /\ w = [y EXCEPT !.scope = any]
  OBVIOUS
<1>3. Is(x, pc, Missing, Missing, <<>>, "none", Missing, 0)
  BY <1>1 DEF Is, Stands
<1> HIDE DEF x, y, v, w
<1>4. Is(y, pc, q, Missing, <<>>, "none", Missing, 0)
  BY <1>2, <1>3 DEF Is, Stands
<1>5. Is(v, pc, q, Missing, <<>>, any, Missing, 0)
  BY <1>2, <1>4 DEF Is, Stands
<1>6. Is(w, pc, q, any, <<>>, "none", Missing, 0)
  BY <1>2, <1>4 DEF Is, Stands
<1>7. QED BY <1>5, <1>6 DEF v, w

LEMMA ReceiveKeeps ==
  ASSUME ReadInv, NEW r \in Readers, NEW q \in Requests, Receive(r, q)
  PROVE  ReadInv'
<1>1. Resources \cap Collections = {}
  BY DEF Resources, Collections
<1>2. CASE Refusal(q) # "none"
  <2> DEFINE y == [Idle EXCEPT !.pc = "answered", !.request = q, !.error = Refusal(q)]
  <2>1. Is(y, "answered", q, Missing, <<>>, Refusal(q), Missing, 0)
    BY Begins
  <2>2. Refusal(q) \in {"malformed", "validation"}
    BY <1>2 DEF Refusal
  <2> HIDE DEF y
  <2>3. DOMAIN y.corpus = {}
    BY <2>1, NothingLoaded DEF Is
  <2>4. IsReceived(y)
    <3>1. y.error \in Errors /\ y.error = Refusal(y.request) /\ y.error # "none"
      BY <2>1, <2>2 DEF Is, Errors
    <3>2. y.commits \in Nat
      BY <2>1 DEF Is
    <3>3. Stands(y) /\ y.pc = "answered" /\ y.request \in Requests /\ y.corpus = <<>>
          /\ y.scope \in Workspaces \cup {Missing, WorkspaceId(Blank)}
      BY <2>1 DEF Is
    <3>4. QED BY <3>1, <3>2, <3>3 DEF IsReceived
  <2>5. IsScoped(y) /\ HasReadSound(y) /\ TellsOfAsked(y) /\ SearchIsOfStore(y)
    BY <2>1, <2>2, <2>3 DEF Is, IsScoped, HasReadSound, TellsOfAsked, SearchIsOfStore
  <2>6. Goes(r, y)
    BY <1>2 DEF Receive, y
  <2>7. QED BY <2>4, <2>5, <2>6, OthersAreKept DEF RequestInv
<1>3. CASE Refusal(q) = "none"
  <2> DEFINE y == [Idle EXCEPT !.pc = FirstStep(q), !.request = q, !.scope = Scope(q)]
  <2>1. Is(y, FirstStep(q), q, Scope(q), <<>>, "none", Missing, 0)
    BY Begins
  <2>2. NamesWorkspace(q) =>
          /\ RootAsked(q) = q.target /\ RootAsked(q) \in NamedRoots
          /\ Scope(q) = WorkspaceId(RootAsked(q))
    BY <1>1, <1>3 DEF NamesWorkspace, RootAsked, NamedRoots, Scope
  <2>3. Scope(q) \in Workspaces \cup {Missing, WorkspaceId(Blank)}
    BY <2>2, RootIsTyped DEF Scope
  <2>4. /\ FirstStep(q) \in {"look up", "authorize", "require", "load"}
        /\ FirstStep(q) = "look up" => q.via \in {"rest", "mcp"} /\ NeedsLookUp(q)
        /\ FirstStep(q) = "authorize" =>
             q.via \in {"rest", "mcp"} /\ (Asks(q) => NamesWorkspace(q))
        /\ FirstStep(q) = "require" => q.via = "stdio"
        /\ FirstStep(q) = "load" =>
             /\ IsCall(q) /\ q.via \notin {"mcp", "stdio"}
             /\ q.op \in Resources \cup Collections => q.via # "rest"
    BY <1>1 DEF FirstStep, NeedsLookUp, NamesWorkspace, Asks, IsCall, IsMessage
  <2> HIDE DEF y
  <2>5. HasLoaded(y) /\ DOMAIN y.corpus = {}
    BY <2>1, NothingLoaded DEF Is
  <2>6. IsReceived(y)
    <3>1. y.error = "none" /\ y.error \in Errors
      BY <2>1 DEF Is, Errors
    <3>2. y.commits \in Nat
      BY <2>1 DEF Is
    <3>3. /\ Stands(y) /\ y.pc \in {"look up", "authorize", "require", "load"}
          /\ y.request \in Requests /\ y.corpus = <<>> /\ Refusal(y.request) = "none"
          /\ y.scope \in Workspaces \cup {Missing, WorkspaceId(Blank)}
      BY <1>3, <2>1, <2>3, <2>4 DEF Is
    <3>4. QED BY <2>5, <3>1, <3>2, <3>3 DEF IsReceived
  <2>7. IsScoped(y)
    BY <2>1, <2>2, <2>4 DEF Is, IsScoped, ScopeIsAsked, MayRead
  <2>8. HasReadSound(y) /\ TellsOfAsked(y) /\ SearchIsOfStore(y)
    BY <2>1, <2>4, <2>5 DEF Is, HasReadSound, TellsOfAsked, SearchIsOfStore
  <2>9. Goes(r, y)
    BY <1>3 DEF Receive, y
  <2>10. QED BY <2>6, <2>7, <2>8, <2>9, OthersAreKept DEF RequestInv
<1>4. QED BY <1>2, <1>3

LEMMA LoadKeeps ==
  ASSUME StoreInv, ReadInv, NEW r \in Readers, LoadTable(r)
  PROVE  ReadInv'
<1> DEFINE x == reader[r]
           q == x.request
           T == TablesFor(q.op)
           table == T[Cardinality(DOMAIN x.corpus) + 1]
           E == DOMAIN x.corpus \cup {table}
           corpus == [t \in E |-> IF t = table THEN Fetched(q, table) ELSE x.corpus[t]]
           y == [x EXCEPT !.corpus = corpus]
           f == Failed(r, "not found")
           a == Answered(r, Found(q, corpus))
<1>1. x.pc = "load" /\ ~At(r, "idle")
  BY DEF LoadTable, At
<1>2. /\ IsReceived(x) /\ IsScoped(x) /\ HasReadSound(x) /\ SearchIsOfStore(x)
      /\ x # Idle /\ Stands(x)
      /\ x.error = "none" /\ HasLoaded(x) /\ Refusal(q) = "none"
  BY <1>1, Standing DEF IsReceived
<1>3. IsCall(q) /\ (q.op \in Resources \cup Collections => MayRead(q))
  BY <1>1, <1>2 DEF IsScoped
<1>4. E # Range(T) => \E k \in 0 .. Len(T) - 1 : E = {T[i] : i \in 1 .. k}
  <2>1. PICK k \in 0 .. Len(T) - 1 : DOMAIN x.corpus = {T[i] : i \in 1 .. k}
    BY <1>2 DEF HasLoaded
  <2>2. QED BY <2>1, NextTable
<1>5. \/ DOMAIN corpus # Range(T) /\ Goes(r, y)
      \/ DOMAIN corpus = Range(T) /\ (Goes(r, f) \/ Goes(r, a))
  BY DEF LoadTable, Served
<1>6. DOMAIN corpus = E
  OBVIOUS
<1>7. q.op \in Resources \cup Collections =>
        Fetched(q, table) = Rows(view, knowledge, table)
  BY DEF Fetched, IsReport, Resources, Collections
<1>8. q.op \in Resources \cup Collections =>
        \A t \in E : TableIsSound(t, corpus[t])
  BY <1>2, <1>7, RowsAreSound DEF HasReadSound
<1>9. x.commits = 0 /\ q.op = "search" =>
        \A t \in E : corpus[t] = Rows(view, knowledge, t)
  BY <1>2, <1>3, <1>7 DEF SearchIsOfStore, Collections
<1>10. /\ Is(y, "load", q, x.scope, corpus, x.error, x.answer, x.commits)
       /\ Is(f, "answered", q, x.scope, <<>>, "not found", x.answer, x.commits)
       /\ Is(a, "answered", q, x.scope, <<>>, x.error, Found(q, corpus), x.commits)
  <2> HIDE DEF corpus
  <2>1. QED BY <1>1, <1>2, Moves
<1> HIDE DEF y, f, a
<1>11. ASSUME E # Range(T) PROVE RequestInv(y) /\ SearchIsOfStore(y)
  <2>1. /\ y.pc = "load" /\ y.request = q /\ y.corpus = corpus /\ y.error = "none"
        /\ y.commits = x.commits
    BY <1>2, <1>10 DEF Is
  <2>2. HasLoaded(y)
    <3>1. DOMAIN y.corpus = E /\ TablesFor(y.request.op) = T
      BY <1>6, <2>1
    <3> HIDE DEF E, T
    <3>2. QED BY <1>4, <1>11, <3>1 DEF HasLoaded
  <2> HIDE DEF corpus
  <2>3. IsReceived(y)
    BY <1>2, <1>10, <2>1, <2>2 DEF Is, IsReceived
  <2>4. IsScoped(y)
    BY <1>3, <2>1 DEF IsScoped
  <2>5. HasReadSound(y) /\ TellsOfAsked(y) /\ SearchIsOfStore(y)
    BY <1>6, <1>8, <1>9, <2>1 DEF HasReadSound, TellsOfAsked, SearchIsOfStore
  <2>6. QED BY <2>3, <2>4, <2>5 DEF RequestInv
<1>12. RequestInv(f) /\ SearchIsOfStore(f)
  <2>1. "not found" \in Errors \ {"none"} /\ "not found" # "denied"
    BY DEF Errors
  <2>2. QED BY <1>1, <1>2, <1>10, <2>1, Ended
<1>13. ASSUME E = Range(T) PROVE RequestInv(a) /\ SearchIsOfStore(a)
  <2>1. /\ a.pc = "answered" /\ a.request = q /\ a.corpus = <<>> /\ a.error = "none"
        /\ a.commits = x.commits /\ a.answer = Found(q, corpus)
    BY <1>2, <1>10 DEF Is
  <2>2. DOMAIN a.corpus = {}
    BY <2>1, NothingLoaded
  <2>3. IsReceived(a)
    BY <1>2, <1>10, <2>1 DEF Is, IsReceived
  <2>4. IsScoped(a)
    BY <1>3, <2>1 DEF IsScoped
  <2>5. TellsOfAsked(a)
    <3> HIDE DEF corpus, E
    <3>1. q.op \in Resources \cup Collections /\ q.via # "cli" =>
            RootsTold(q, Found(q, corpus)) \subseteq {RootAsked(q)}
      BY <1>2, <1>3, <1>6, <1>8, <1>13, ToldIsAsked
    <3>2. QED BY <2>1, <3>1 DEF TellsOfAsked
  <2>6. SearchIsOfStore(a)
    <3>1. ASSUME x.commits = 0, q.op = "search" PROVE corpus = SearchCorpus
      <4>1. E = Range(SearchTables)
        BY <1>13, <3>1 DEF TablesFor
      <4>2. corpus = [t \in E |-> corpus[t]]
        OBVIOUS
      <4> HIDE DEF corpus
      <4>3. QED BY <1>9, <3>1, <4>1, <4>2 DEF SearchCorpus
    <3> HIDE DEF corpus
    <3>2. q.op = "search" =>
            Found(q, corpus) = SearchCases(corpus, [Query EXCEPT !.workspace_root = q.target])
      BY DEF Found
    <3>3. QED BY <2>1, <2>2, <3>1, <3>2 DEF SearchIsOfStore
  <2>7. HasReadSound(a)
    BY <2>2 DEF HasReadSound
  <2>8. QED BY <2>3, <2>4, <2>5, <2>6, <2>7 DEF RequestInv
<1> HIDE DEF corpus, E
<1>14. QED BY <1>5, <1>6, <1>11, <1>12, <1>13, OthersAreKept

(* A commit of anybody else changes no request. *)
LEMMA CommitKeeps ==
  ASSUME ReadInv, Commit
  PROVE  ReadInv'
<1>1. reader' = [r \in Readers |-> IF At(r, "idle") THEN Idle
                                   ELSE [reader[r] EXCEPT !.commits = @ + 1]]
  BY DEF Commit
<1>2. ASSUME NEW r \in Readers
      PROVE  RequestInv(reader'[r]) /\ SearchIsOfStore(reader[r])'
  <2>1. CASE At(r, "idle")
    <3>1. reader'[r] = Idle
      BY <1>1, <2>1
    <3>2. QED BY <3>1 DEF RequestInv, SearchIsOfStore
  <2>2. CASE ~At(r, "idle")
    <3> DEFINE x == reader[r]
               y == [x EXCEPT !.commits = x.commits + 1]
    <3>1. reader'[r] = y
      BY <1>1, <2>2
    <3>2. IsReceived(x) /\ IsScoped(x) /\ HasReadSound(x) /\ TellsOfAsked(x) /\ Stands(x)
      BY <2>2, Standing
    <3> HIDE DEF x
    <3>3. Is(y, x.pc, x.request, x.scope, x.corpus, x.error, x.answer, x.commits + 1)
      BY <3>2 DEF Is, Stands
    <3>4. x.commits + 1 \in Nat /\ x.commits + 1 # 0
      <4> DEFINE n == x.commits
      <4>1. n \in Nat
        BY <3>2 DEF IsReceived
      <4> HIDE DEF n
      <4>2. n + 1 \in Nat /\ n + 1 # 0
        BY <4>1
      <4>3. QED BY <4>2 DEF n
    <3> HIDE DEF y
    <3>5. IsReceived(y)
      <4>1. HasLoaded(x) => HasLoaded(y)
        BY <3>3 DEF Is, HasLoaded
      <4>2. y.commits \in Nat
        BY <3>3, <3>4 DEF Is
      <4>3. QED BY <3>2, <3>3, <4>1, <4>2 DEF Is, IsReceived
    <3>6. IsScoped(y) /\ HasReadSound(y) /\ TellsOfAsked(y)
      BY <3>2, <3>3 DEF Is, IsScoped, ScopeIsAsked, HasReadSound, TellsOfAsked
    <3>7. y.commits # 0
      BY <3>3, <3>4 DEF Is
    <3>8. SearchIsOfStore(reader[r])'
      BY <3>1, <3>7 DEF SearchIsOfStore
    <3>9. QED BY <3>1, <3>5, <3>6, <3>8 DEF RequestInv
  <2>3. QED BY <2>1, <2>2
<1>3. reader' = [r \in Readers |-> reader'[r]]
  BY <1>1
<1>4. QED BY <1>2, <1>3 DEF ReadInv

LEMMA StepKeepsReads ==
  ASSUME StoreInv, ReadInv, [Next]_vars
  PROVE  ReadInv'
<1>1. ASSUME NEW r \in Readers, Serve(r) PROVE ReadInv'
  BY <1>1, LookUpKeeps, AuthorizeKeeps, RequireKeeps, LoadKeeps, ReplyKeeps DEF Serve
<1>2. ASSUME NEW r \in Readers, NEW q \in Requests, Receive(r, q) PROVE ReadInv'
  BY <1>2, ReceiveKeeps
<1>3. CASE Commit
  BY <1>3, CommitKeeps
<1>4. CASE UNCHANGED vars
  BY <1>4 DEF vars, ReadInv, SearchIsOfStore, SearchCorpus
<1>5. QED BY <1>1, <1>2, <1>3, <1>4 DEF Next

(* What has been read of a store that changes meanwhile stays sound.       *)
THEOREM ReadsStaySound == Spec => [](StoreInv /\ ReadInv)
<1>1. Init => ReadInv
  BY DEF Init, ReadInv, RequestInv, SearchIsOfStore
<1>2. StoreInv /\ ReadInv /\ [Next]_vars => ReadInv'
  BY StepKeepsReads
<1>3. QED BY <1>1, <1>2, ReadsOfSoundStore, PTL DEF Spec

-----------------------------------------------------------------------------
(* Type correctness: a request that is served is one that was sent, an     *)
(* error is answered at once, and only the tables of its answer are read.  *)
THEOREM ReadTypes == Spec => []ReadTypeOK
<1>1. ReadInv => ReadTypeOK
  <2> SUFFICES ASSUME ReadInv, NEW r \in Readers
               PROVE  /\ reader[r].pc \in {"idle", "look up", "authorize", "require",
                                           "load", "answered"}
                      /\ ~At(r, "idle") <=> Served(r) \in Requests
                      /\ reader[r].scope \in Workspaces \cup {Missing, WorkspaceId(Blank)}
                      /\ reader[r].error \in Errors
                      /\ reader[r].error # "none" => At(r, "answered")
                      /\ ~At(r, "idle") =>
                           DOMAIN reader[r].corpus \subseteq Range(TablesFor(Served(r).op))
    BY DEF ReadTypeOK
  <2> DEFINE x == reader[r]
  <2>1. CASE At(r, "idle")
    <3>1. x = Idle
      BY <2>1 DEF ReadInv, RequestInv, IsReceived, At
    <3>2. /\ x.pc = "idle" /\ x.request = Missing /\ x.scope = Missing /\ x.error = "none"
      BY <3>1 DEF Idle
    <3>3. QED BY <2>1, <3>2, MissingIsAbsent DEF At, Served, Errors
  <2>2. CASE ~At(r, "idle")
    <3>1. IsReceived(x)
      BY <2>2, Standing
    <3>2. /\ x.pc \in {"look up", "authorize", "require", "load", "answered"}
          /\ x.request \in Requests
          /\ x.scope \in Workspaces \cup {Missing, WorkspaceId(Blank)}
          /\ x.error \in Errors
          /\ x.error # "none" => x.pc = "answered"
      BY <3>1 DEF IsReceived
    <3>3. HasLoaded(x)
      BY <3>1, NothingLoaded DEF IsReceived
    <3>4. DOMAIN x.corpus \subseteq Range(TablesFor(x.request.op))
      <4> DEFINE T == TablesFor(x.request.op)
      <4>1. PICK k \in 0 .. Len(T) - 1 : DOMAIN x.corpus = {T[i] : i \in 1 .. k}
        BY <3>3 DEF HasLoaded
      <4>2. Len(T) \in Nat /\ Range(T) = {T[i] : i \in 1 .. Len(T)}
        BY TablesAreDistinct
      <4> HIDE DEF T
      <4>3. 1 .. k \subseteq 1 .. Len(T)
        BY <4>2
      <4>4. QED BY <4>1, <4>2, <4>3 DEF T
    <3>5. QED BY <2>2, <3>2, <3>4 DEF At, Served
  <2>3. QED BY <2>1, <2>2
<1>2. QED BY <1>1, ReadsStaySound, PTL

(* Whatever is rebuilt between the look-up of a workspace, the decision    *)
(* about the token and the last of the statements, each of which reads a   *)
(* state of the store of its own, an answer tells of no workspace but one  *)
(* that the token opens or the server is bound to.                         *)
THEOREM AnswersAreOfScope == Spec => []AnswerIsOfScope
<1>1. ReadInv => AnswerIsOfScope
  <2> SUFFICES ASSUME ReadInv, NEW r \in Readers,
                      IsAnswered(r), reader[r].answer # Missing,
                      NEW root \in RootsTold(Served(r), reader[r].answer)
               PROVE  /\ Served(r).via \in {"rest", "mcp"} =>
                           Opens(Served(r).token, WorkspaceId(root))
                      /\ Served(r).via = "stdio" /\ Served(r).bound # Missing =>
                           WorkspaceId(root) \in {Served(r).bound, Missing}
    BY DEF AnswerIsOfScope
  <2> DEFINE x == reader[r]
             q == x.request
  <2>1. /\ x.pc = "answered" /\ x.error = "none" /\ x.answer # Missing /\ ~At(r, "idle")
        /\ Served(r) = q
    BY DEF IsAnswered, At, Served
  <2>2. IsScoped(x) /\ TellsOfAsked(x)
    BY <2>1, Standing
  <2>3. q.op \in Resources \cup Collections
    <3>1. RootsTold(q, x.answer) # {}
      BY <2>1
    <3> HIDE DEF x, q
    <3>2. QED BY <3>1 DEF RootsTold, Resources, Collections
  <2>4. MayRead(q)
    BY <2>1, <2>2, <2>3 DEF IsScoped
  <2>5. q.via # "cli" => root = RootAsked(q)
    BY <2>1, <2>2, <2>3 DEF TellsOfAsked
  <2>6. QED BY <2>1, <2>4, <2>5 DEF MayRead
<1>2. QED BY <1>1, ReadsStaySound, PTL

(* A token is only denied what was received outside the workspaces it      *)
(* opens: the workspace that is looked up is always that of the id.        *)
THEOREM DeniesOnlyOutside == Spec => []DeniedOnlyOutside
<1>1. ReadInv => DeniedOnlyOutside
  <2> SUFFICES ASSUME ReadInv, NEW r \in Readers, reader[r].error = "denied",
                      IsCall(Served(r)), Served(r).op \in Resources \cup Collections,
                      RootAsked(Served(r)) # Absent
               PROVE  ~Opens(Served(r).token, WorkspaceId(RootAsked(Served(r))))
    BY DEF DeniedOnlyOutside
  <2> DEFINE x == reader[r]
             q == x.request
  <2>1. ~At(r, "idle")
    <3>1. Idle.error = "none"
      BY DEF Idle
    <3>2. x # Idle
      BY <3>1
    <3>3. QED BY <3>2 DEF ReadInv, RequestInv, IsReceived, At
  <2>2. IsScoped(x)
    BY <2>1, Standing
  <2>3. Asks(q)
    BY DEF Asks, Served
  <2>4. ScopeIsAsked(x) /\ (x.scope # Missing => ~Opens(q.token, x.scope))
    BY <2>2, <2>3 DEF IsScoped
  <2>5. WorkspaceId(RootAsked(q)) # Missing
    BY <2>4, RootsHaveIds DEF ScopeIsAsked, Served
  <2>6. QED BY <2>4, <2>5 DEF ScopeIsAsked, Served
<1>2. QED BY <1>1, ReadsStaySound, PTL

(* A search or a list without a workspace is refused before its token is   *)
(* looked at.                                                              *)
THEOREM SelectorsComeFirst == Spec => []SelectorComesFirst
<1>1. ReadInv => SelectorComesFirst
  <2> SUFFICES ASSUME ReadInv, NEW r \in Readers, At(r, "answered"),
                      ~IsMalformed(Served(r)), IsCall(Served(r)), Served(r).via # "cli",
                      Served(r).op \in Collections, Served(r).target = Missing
               PROVE  Code(Served(r), reader[r].error) \in {"400", "-32602"}
    BY DEF SelectorComesFirst
  <2> DEFINE x == reader[r]
             q == Served(r)
  <2>1. ~At(r, "idle")
    BY DEF At
  <2>2. Refusal(q) # "none" => x.error = Refusal(q)
    BY <2>1, Standing DEF IsReceived, Served
  <2>3. Refusal(q) = "validation"
    BY DEF Refusal, LacksSelector
  <2>4. x.error = "validation"
    BY <2>2, <2>3
  <2> HIDE DEF q
  <2>5. Code(q, "validation") \in {"400", "-32602"}
    BY DEF Code, Status, RpcCode
  <2>6. QED BY <2>4, <2>5 DEF q
<1>2. QED BY <1>1, ReadsStaySound, PTL

(* A search of one derived state of the store hits the cases of the        *)
(* workspace that have a document with every word, and no others.          *)
THEOREM SearchesFindIndexed == Spec => []SearchFindsIndexed
<1>1. StoreInv /\ ReadInv => SearchFindsIndexed
  <2> SUFFICES ASSUME StoreInv, ReadInv, NEW r \in Readers,
                      IsAnswered(r), reader[r].commits = 0,
                      IsCall(Served(r)), Served(r).op = "search",
                      Query.tokens # {},
                      Cardinality(MatchingCases(Served(r).target))
                        <= EffectiveLimit(Query.limit),
                      \E x \in Ledger : marks[x].index_state = "indexed"
               PROVE  {hit.id : hit \in reader[r].answer} = MatchingCases(Served(r).target)
    BY DEF SearchFindsIndexed
  <2>1. ~At(r, "idle")
    BY DEF IsAnswered, At
  <2>2. SearchIsOfStore(reader[r]) /\ reader[r] # Idle
    BY <2>1, Standing
  <2>3. reader[r].answer
          = SearchCases(SearchCorpus, [Query EXCEPT !.workspace_root = Served(r).target])
    BY <2>2 DEF SearchIsOfStore, IsAnswered, At, Served
  <2>4. QED BY <2>3, SearchIsComplete
<1>2. QED BY <1>1, ReadsStaySound, PTL
=============================================================================
