------------------------------- MODULE Search -------------------------------
(***************************************************************************)
(* search_cases (axiomsync-kernel query.rs): the cases that match a query, *)
(* ranked.                                                                 *)
(*                                                                         *)
(* A request has                                                           *)
(*   phrase, tokens   the words of the query of two letters or more, joined*)
(*                    by spaces and apart, all in lower case               *)
(*   session_kind, connector, workspace_root   the filter, Absent for any  *)
(*   limit            the number of hits asked for, 0 for ten              *)
(* A score is counted in halves.                                           *)
(***************************************************************************)
EXTENDS Views, Integers, FiniteSetsExt

CONSTANTS
  CaseRank(_),     \* the place of a case's id in the order of the hashes
  Equals(_, _),    \* whether a text in lower case is the phrase
  Contains(_, _)   \* whether a text in lower case contains the words

SessionMatches(session, request) ==
  /\ request.session_kind \in {Absent, session.session_kind}
  /\ request.connector \in {Absent, session.external[2]}
  /\ request.workspace_root \in {Absent, session.workspace_root}

(* Faulty: only procedures lead to their episode. *)
EpisodesByProcedure(corpus, table, id) ==
  {x.episode_id : x \in {x \in corpus.procedures : x.id = id}}

(* insight_to_episode, procedure_to_episode. *)
EpisodesOf(corpus, table, id) ==
  {x.episode_id : x \in {x \in corpus[table] : x.id = id}}

(* doc_episode_id. *)
Docs(corpus, id) ==
  {doc \in corpus.search_docs :
     id \in (IF doc.doc_kind = "episodes" THEN {doc.subject}
             ELSE EpisodesOf(corpus, doc.doc_kind, doc.subject))}

(* The anchors of the insights, as far as both were found. *)
Evidence(corpus, id) ==
  {a \in corpus.anchors :
     \E v \in corpus.insight_anchors :
       /\ v.anchor_id = a.anchor_id
       /\ id \in EpisodesOf(corpus, "insights", v.subject)}

Verified(corpus, id) ==
  {v.verdict[1] : v \in {v \in corpus.verifications :
     id \in EpisodesOf(corpus, v.subject[1], v.subject)}}

-----------------------------------------------------------------------------
(* What the document says besides its title. *)
Body(doc) ==
  CASE doc.doc_kind = "episodes" -> doc.subject[2]
    [] doc.doc_kind = "insights" -> doc.subject[3][2]
    [] OTHER -> doc.subject[2][2]

Bonus(condition, points) == IF condition THEN points ELSE 0

Weight(kind) ==
  CASE kind = "episodes" -> 8 [] kind = "insights" -> 10 [] OTHER -> 7

(* doc_score: nothing, unless every word is in the title or the body. *)
DocScore(doc, request) ==
  LET InTitle(word) == Contains(doc.title, word)
      InBody(word) == Contains(Body(doc), word)
  IN  IF \E word \in request.tokens : ~InTitle(word) /\ ~InBody(word) THEN 0
      ELSE Weight(doc.doc_kind)
             + Bonus(Equals(doc.title, request.phrase), 12)
             + Bonus(Equals(Body(doc), request.phrase), 8)
             + Bonus(InBody(request.phrase), 6)
             + 4 * Cardinality({word \in request.tokens : InTitle(word)})
             + 2 * Cardinality({word \in request.tokens : InBody(word)})

SummaryScore(summary, request) ==
  IF \E word \in request.tokens : ~Contains(summary, word) THEN 0
  ELSE 6 + Bonus(Equals(summary, request.phrase), 10)
         + Bonus(Contains(summary, request.phrase), 4)

EvidenceScore(anchors) ==
  IF Cardinality(anchors) < 4 THEN Cardinality(anchors) ELSE 4

VerificationScore(verdicts) ==
  Bonus("verified" \in verdicts, 5) + Bonus("proposed" \in verdicts, 1)
    - Bonus("conflicted" \in verdicts, 3)

-----------------------------------------------------------------------------
(* A case is hit if a document or its summary is. *)
Matching(corpus, id, request) ==
  {doc \in Docs(corpus, id) : DocScore(doc, request) > 0}

IsHit(corpus, episode, request) ==
  /\ \E s \in SessionsNamed(corpus.sessions, episode.session_id) :
       SessionMatches(s, request)
  /\ \/ Matching(corpus, episode.episode_id, request) # {}
     \/ SummaryScore(episode.episode_id[2], request) > 0

Score(corpus, id, request) ==
  MapThenSumSet(LAMBDA doc : DocScore(doc, request), Matching(corpus, id, request))
    + SummaryScore(id[2], request)
    + EvidenceScore(Evidence(corpus, id))
    + VerificationScore(Verified(corpus, id))

(* A hit, with all of the evidence of which the first three are shown. *)
Hit(corpus, id, request) ==
  [id       |-> id,
   score    |-> Score(corpus, id, request),
   evidence |-> {a.anchor_id : a \in Evidence(corpus, id)}]

(* A query without words hits nothing. *)
Hits(corpus, request) ==
  IF request.tokens = {} THEN {}
  ELSE {Hit(corpus, e.episode_id, request) :
          e \in {e \in corpus.episodes : IsHit(corpus, e, request)}}

(* By score, and by the hash of the id where scores are equal. *)
RanksBefore(h, g) ==
  \/ h.score > g.score
  \/ h.score = g.score /\ CaseRank(h.id) < CaseRank(g.id)

Rank(hits, h) == Cardinality({g \in hits \ {h} : RanksBefore(g, h)})

(* The answer, in the order RanksBefore, is cut to the limit. *)
EffectiveLimit(limit) == IF limit = 0 THEN 10 ELSE limit

SearchCases(corpus, request) ==
  LET hits == Hits(corpus, request)
  IN  {h \in hits : Rank(hits, h) < EffectiveLimit(request.limit)}
=============================================================================
