----------------------------- MODULE Derivation -----------------------------
(***************************************************************************)
(* plan_derivation (axiomsync-kernel derive.rs): the episodes, statements, *)
(* evidence, verifications and search documents of projected rows.         *)
(*                                                                         *)
(* A string is a pair <<name, length>>, so that a clipped text is a string *)
(* of its own.  A text is a record                                         *)
(*   name, length   the string                                             *)
(*   blank          whether it trims to nothing                            *)
(*   says           the marks found in it: "root_cause", "fix" and         *)
(*                  "decision" (a needle of the claim), "check_passed",    *)
(*                  "approved"                                             *)
(*   commands       its command-like lines, a sequence                     *)
(***************************************************************************)
EXTENDS Projection

Ext == INSTANCE SequencesExt

CONSTANTS
  PassedKinds,  \* the event kinds that are a passed verification
  HashRank(_)   \* the place of an anchor id in the order of the hashes

(* Clip to a number of characters. *)
Truncate(text, max) ==
  <<text.name, IF text.length <= max THEN text.length ELSE max>>

(* Anchors reach the planner in the order of the projection plan, or in    *)
(* the order of the table, which is that of the hashed ids.                *)
ByPlace(a, b) == a.place < b.place
ByHash(a, b) == HashRank(a.anchor_id) < HashRank(b.anchor_id)

AnchorsOf(anchors, entry_id) == {a \in anchors : a.entry_id = entry_id}

Corpus(sessions, entries, anchors, Before(_, _)) ==
  [sessions |-> sessions,
   entries  |-> entries,
   first    |-> [id \in {a.entry_id : a \in anchors} |->
                   CHOOSE a \in AnchorsOf(anchors, id) :
                     \A b \in AnchorsOf(anchors, id) : ~Before(b, a)]]

EntriesOf(corpus, session) ==
  {e \in corpus.entries : e.session_id = session.session_id}

Foremost(entries) ==
  CHOOSE e \in entries : \A f \in entries : e.seq_no <= f.seq_no

WithText(entries) == {e \in entries : e.text_body # Absent}

-----------------------------------------------------------------------------
(* The summary: the title, or the first text even if it is blank, or a     *)
(* default.                                                                *)
Summary(session, entries) ==
  CASE session.title # Absent -> session.title
    [] session.title = Absent /\ WithText(entries) # {} ->
         Truncate(Foremost(WithText(entries)).text_body, 120)
    [] OTHER -> <<session.session_kind, 0>>

(* Faulty: sessions with one summary share an episode. *)
EpisodeIdOfText(session, entries) == <<Absent, Summary(session, entries)>>

EpisodeId(session, entries) ==
  <<session.session_id, Summary(session, entries)>>

EpisodeKind(session) ==
  IF session.session_kind \in {"run", "import"} THEN "summary"
                                                ELSE "investigation"

Episode(session, entries) ==
  [episode_id   |-> EpisodeId(session, entries),
   session_id   |-> session.session_id,
   episode_kind |-> EpisodeKind(session)]

-----------------------------------------------------------------------------
(* Statements: insights, the claim each insight is mirrored by, and the    *)
(* procedure.                                                              *)

(* The first text that says it, clipped. *)
Claims(entries, kind) ==
  LET saying == {e \in WithText(entries) : kind \in e.text_body.says}
  IN  IF saying = {} THEN {}
      ELSE {<<kind, Truncate(Foremost(saying).text_body, 160)>>}

Observations(session, entries) ==
  IF WithText(entries) = {} THEN {}
  ELSE LET text == Foremost(WithText(entries)).text_body
       IN  IF text.blank \/ Truncate(text, 160) = Summary(session, entries)
           THEN {} ELSE {<<"observation", Truncate(text, 160)>>}

Insights(session, entries) ==
  {<<"summary", Summary(session, entries)>>}
    \cup Observations(session, entries)
    \cup UNION {Claims(entries, k) : k \in {"root_cause", "fix", "decision"}}

(* The command-like lines of the texts in order, a repetition of the line   *)
(* before it dropped.                                                       *)
AddCommand(steps, line) ==
  IF steps # <<>> /\ steps[Len(steps)] = line THEN steps ELSE Append(steps, line)

Steps(entries) ==
  LET ordered == Ext!SetToSortSeq(WithText(entries),
                                  LAMBDA e, f : e.seq_no < f.seq_no)
      lines == [i \in DOMAIN ordered |-> ordered[i].text_body.commands]
  IN  Ext!FoldLeft(AddCommand, <<>>, Ext!FlattenSeq(lines))

Statement(table, episode_id, what) ==
  [id |-> <<table, episode_id, what>>, table |-> table, episode_id |-> episode_id]

Statements(session, entries) ==
  LET episode_id == EpisodeId(session, entries)
  IN  {Statement(table, episode_id, what) :
         table \in {"insights", "claims"}, what \in Insights(session, entries)}
        \cup (IF Steps(entries) = <<>> THEN {}
              ELSE {Statement("procedures", episode_id, Steps(entries))})

-----------------------------------------------------------------------------
(* Verifications.  A session has at most one root cause, one fix and one   *)
(* decision, so that has_conflict never finds two of one kind.             *)
HasConflict(insights) ==
  \E x, y \in insights :
    /\ x # y
    /\ x[1] = y[1]
    /\ x[1] \in {"root_cause", "fix", "decision"}

Verdict(session, entries) ==
  LET said == UNION {e.text_body.says : e \in WithText(entries)}
      passed == \/ "check_passed" \in said
                \/ \E e \in entries : e.entry_kind \in PassedKinds
  IN  CASE HasConflict(Insights(session, entries)) -> <<"conflicted", "heuristic">>
        [] ~HasConflict(Insights(session, entries)) /\ passed ->
             <<"verified", "deterministic">>
        [] ~HasConflict(Insights(session, entries)) /\ ~passed
             /\ "approved" \in said -> <<"verified", "human">>
        [] OTHER -> <<"proposed", "heuristic">>

IsVerifiable(statement) ==
  \/ statement.table = "procedures"
  \/ statement.table = "insights" /\ statement.id[3][1] # "summary"

Verifications(session, entries) ==
  {[subject |-> x.id, verdict |-> Verdict(session, entries),
    checked_at |-> session.closed_at] :
     x \in {x \in Statements(session, entries) : IsVerifiable(x)}}

-----------------------------------------------------------------------------
(* The plan.  A session without entries has no episode, and one without    *)
(* anchors has only its episode.  Everything a session states rests on the *)
(* first anchor of its first entry that has one.                           *)
Derived(corpus) ==
  {s \in corpus.sessions : EntriesOf(corpus, s) # {}}

Anchored(corpus, session) ==
  {e \in EntriesOf(corpus, session) : e.entry_id \in DOMAIN corpus.first}

PrimaryAnchor(corpus, session) ==
  corpus.first[Foremost(Anchored(corpus, session)).entry_id].anchor_id

Stated(corpus) == {s \in Derived(corpus) : Anchored(corpus, s) # {}}

(* The title of a document: the summary, the kind of the insight, or the   *)
(* title of the session, for which a procedure has a default of its own.   *)
DocTitle(kind, subject, session) ==
  CASE kind = "episodes" -> subject[2]
    [] kind = "insights" -> <<subject[3][1], 0>>
    [] OTHER -> IF session.title # Absent THEN session.title
                ELSE <<session.session_kind, 1>>

SearchDoc(kind, subject, session) ==
  [doc_kind       |-> kind,
   subject        |-> subject,
   title          |-> DocTitle(kind, subject, session),
   session_id     |-> session.session_id,
   workspace_root |-> session.workspace_root]

SearchDocs(corpus) ==
  {SearchDoc("episodes", EpisodeId(s, EntriesOf(corpus, s)), s) :
     s \in Derived(corpus)}
    \cup UNION {{SearchDoc(x.table, x.id, s) :
                   x \in {x \in Statements(s, EntriesOf(corpus, s)) :
                            x.table # "claims"}} : s \in Stated(corpus)}

PlanDerivation(corpus) ==
  [episodes      |-> {Episode(s, EntriesOf(corpus, s)) : s \in Derived(corpus)},
   statements    |-> UNION {Statements(s, EntriesOf(corpus, s)) : s \in Stated(corpus)},
   evidence      |-> UNION {{[subject |-> x.id, anchor_id |-> PrimaryAnchor(corpus, s)] :
                               x \in Statements(s, EntriesOf(corpus, s))} :
                              s \in Stated(corpus)},
   verifications |-> UNION {Verifications(s, EntriesOf(corpus, s)) : s \in Stated(corpus)},
   search_docs   |-> SearchDocs(corpus)]

NoDerivation == PlanDerivation(Corpus({}, {}, {}, ByPlace))

(* Faulty: only the anchors of texts reach the planner. *)
PlanDerivationOfTexts(p) ==
  PlanDerivation(Corpus(p.sessions, p.entries,
                        {a \in p.anchors : a.artifact_id = Absent}, ByPlace))

(* build_derivation_plan_for_projection. *)
PlanDerivationOf(p) ==
  PlanDerivation(Corpus(p.sessions, p.entries, p.anchors, ByPlace))

(* The references of the derived tables into the projected ones. *)
DerivationFits(d, p) ==
  /\ \A e \in d.episodes : \E s \in p.sessions : s.session_id = e.session_id
  /\ \A v \in d.evidence : \E a \in p.anchors : a.anchor_id = v.anchor_id
=============================================================================
