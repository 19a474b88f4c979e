-------------------------------- MODULE Views --------------------------------
(***************************************************************************)
(* What is read from the tables (axiomsync-kernel kernel.rs, the loads and *)
(* the look-ups of axiomsync-store-sqlite context_db.rs): sessions with    *)
(* their entries, documents, evidence, cases, and the workspace of each.   *)
(*                                                                         *)
(* A corpus is a function from the names of the tables that were loaded to *)
(* their rows.  What is looked for and may be missing is the set of the    *)
(* rows, or roots, that are found.                                         *)
(***************************************************************************)
EXTENDS Derivation

StatementsIn(knowledge, table) ==
  {x \in knowledge.statements : x.table = table}

(* load_sessions .. load_search_docs: one statement each. *)
Rows(view, knowledge, table) ==
  CASE table \in {"sessions", "entries", "artifacts", "anchors"} -> view[table]
    [] table \in {"insights", "claims", "procedures"} ->
         StatementsIn(knowledge, table)
    [] table = "insight_anchors" ->
         {v \in knowledge.evidence : v.subject[1] = "insights"}
    [] OTHER -> knowledge[table]

(* load_view_corpus, load_case_corpus, load_search_corpus: one connection  *)
(* after the other.                                                        *)
ViewTables == <<"sessions", "entries", "artifacts", "anchors">>

CaseTables ==
  <<"sessions", "episodes", "insights", "verifications", "claims", "procedures">>

SearchTables ==
  <<"sessions", "episodes", "insights", "procedures", "insight_anchors",
    "verifications", "search_docs", "anchors">>

SessionsNamed(sessions, id) == {s \in sessions : s.session_id = id}
EntriesNamed(entries, id) == {e \in entries : e.entry_id = id}
ArtifactsNamed(artifacts, id) == {a \in artifacts : a.artifact_id = id}
AnchorsNamed(anchors, id) == {a \in anchors : a.anchor_id = id}
EpisodesNamed(episodes, id) == {e \in episodes : e.episode_id = id}

-----------------------------------------------------------------------------
(* get_session: the entries of the session, each with its artifacts and    *)
(* its anchors.                                                            *)
Bundle(corpus, entry) ==
  [entry     |-> entry,
   artifacts |-> {a \in corpus.artifacts : a.entry_id = entry.entry_id},
   anchors   |-> {a \in corpus.anchors : a.entry_id = entry.entry_id}]

Bundles(corpus, session) ==
  {Bundle(corpus, e) :
     e \in {e \in corpus.entries : e.session_id = session.session_id}}

SessionViews(corpus, id) ==
  {[session |-> s, entries |-> Bundles(corpus, s)] :
     s \in SessionsNamed(corpus.sessions, id)}

(* get_task: a session of another kind is not found. *)
TaskViews(corpus, id) ==
  {v \in SessionViews(corpus, id) : v.session.session_kind = "task"}

(* get_document, list_documents. *)
DocumentView(corpus, artifact) ==
  [artifact |-> artifact,
   session  |-> SessionsNamed(corpus.sessions, artifact.session_id),
   entry    |-> EntriesNamed(corpus.entries, artifact.entry_id)]

DocumentViews(corpus, id) ==
  {DocumentView(corpus, a) : a \in ArtifactsNamed(corpus.artifacts, id)}

DocumentsOf(corpus, root) ==
  {DocumentView(corpus, a) :
     a \in {a \in corpus.artifacts :
              \E s \in SessionsNamed(corpus.sessions, a.session_id) :
                s.workspace_root = root}}

(* get_evidence: the session of the entry, or else of the artifact. *)
AnchorView(corpus, anchor) ==
  LET entry == EntriesNamed(corpus.entries, anchor.entry_id)
      artifact == ArtifactsNamed(corpus.artifacts, anchor.artifact_id)
      SessionsOf(rows) ==
        UNION {SessionsNamed(corpus.sessions, x.session_id) : x \in rows}
  IN  [anchor   |-> anchor,
       entry    |-> entry,
       artifact |-> artifact,
       session  |-> IF SessionsOf(entry) # {} THEN SessionsOf(entry)
                                              ELSE SessionsOf(artifact)]

EvidenceViews(corpus, id) ==
  {AnchorView(corpus, a) : a \in AnchorsNamed(corpus.anchors, id)}

-----------------------------------------------------------------------------
(* case_from_episode. *)
Related(rows, episode) == {x \in rows : x.episode_id = episode.episode_id}

Texts(rows, kind) == {x.id[3][2] : x \in {x \in rows : x.id[3][1] = kind}}

(* What a claim of the episode says, or else an insight. *)
Stating(corpus, episode, kind) ==
  LET claimed == Texts(Related(corpus.claims, episode), kind)
  IN  IF claimed # {} THEN claimed
      ELSE Texts(Related(corpus.insights, episode), kind)

Verification(corpus, episode) ==
  LET subjects == {x.id : x \in Related(corpus.insights, episode)
                                  \cup Related(corpus.procedures, episode)}
  IN  {v.verdict : v \in {v \in corpus.verifications : v.subject \in subjects}}

RootOf(corpus, episode) ==
  LET own == SessionsNamed(corpus.sessions, episode.session_id)
  IN  IF own = {} THEN Absent ELSE (CHOOSE s \in own : TRUE).workspace_root

CaseRecord(corpus, episode) ==
  [case_id        |-> episode.episode_id,
   workspace_root |-> RootOf(corpus, episode),
   problem        |-> episode.episode_id[2],
   root_cause     |-> Stating(corpus, episode, "root_cause"),
   resolution     |-> Stating(corpus, episode, "fix"),
   commands       |-> {x.id[3] : x \in Related(corpus.procedures, episode)},
   verification   |-> Verification(corpus, episode),
   evidence       |-> {x.id : x \in Related(corpus.claims, episode)}]

CaseRecords(corpus, id) ==
  {CaseRecord(corpus, e) : e \in EpisodesNamed(corpus.episodes, id)}

(* list_runs: one statement. *)
RunsOf(sessions, root) ==
  {s \in sessions : s.session_kind = "run" /\ s.workspace_root = root}

-----------------------------------------------------------------------------
(* workspace_id_for_*: the workspaces found for an id, none if it is not   *)
(* found.  A case whose session is gone is not found, an anchor is found   *)
(* whatever it belongs to.                                                 *)
Roots(sessions) == {s.workspace_root : s \in sessions}

WorkspaceForSession(view, id) == Roots(SessionsNamed(view.sessions, id))

WorkspaceForCase(view, knowledge, id) ==
  UNION {WorkspaceForSession(view, e.session_id) :
           e \in EpisodesNamed(knowledge.episodes, id)}

WorkspaceForArtifact(view, id) ==
  UNION {WorkspaceForSession(view, a.session_id) :
           a \in ArtifactsNamed(view.artifacts, id)}

(* Faulty: only the artifact is asked for its session. *)
WorkspaceForArtifactAnchor(view, id) ==
  UNION {LET own == WorkspaceForArtifact(view, a.artifact_id)
         IN  IF own = {} THEN {Absent} ELSE own : a \in AnchorsNamed(view.anchors, id)}

WorkspaceForAnchor(view, id) ==
  UNION {LET own == UNION {WorkspaceForSession(view, e.session_id) :
                             e \in EntriesNamed(view.entries, a.entry_id)}
         IN  CASE own # {} -> own
               [] own = {} /\ WorkspaceForArtifact(view, a.artifact_id) # {} ->
                    WorkspaceForArtifact(view, a.artifact_id)
               [] OTHER -> {Absent} :
           a \in AnchorsNamed(view.anchors, id)}
=============================================================================
