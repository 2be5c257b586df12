----------------------------- MODULE Retriever -----------------------------
(***************************************************************************)
(* Step 2 of the pipeline, blast_radius/retrieval: from a parsed query to  *)
(* the QIDs it is about.  Identifiers are looked up; text goes through     *)
(* keyword and dense search, rank fusion, a cross-encoder and the gate.    *)
(* What full-text search and the models return is chosen freely, within    *)
(* the sets Hits, Cosines and Relevances; everything after it is the code. *)
(*                                                                         *)
(* One behaviour is one retriever and one query.  A list that the code     *)
(* keeps sorted is a set here, and the order a relation (Better).          *)
(***************************************************************************)
EXTENDS Integers, Sequences, FiniteSets, FiniteSetsExt, Functions

CONSTANTS Qids,           \* numbers an analyst may write after "QID"
          Cves,           \* ids an analyst may write
          Known,          \* the rows of table qids
          QidsFor,        \* per CVE, its QIDs in the order of qids_for_cve
          Chunks,         \* chunk ids
          Owner,          \* per chunk, its document
          Text,           \* the chunks that have a vector; the others are traces
          Questions,      \* the parsed queries of the run
          Hits,           \* the rankings full-text search may return
          Cosines,        \* the similarities a phrasing may have to the text chunks
          Relevances,     \* the scores the cross-encoder may give
          CandidateCount, ContextCount, FusionK,
          Unit,           \* the whole number of units that stands for the score 1.0
          DenseFloor, DenseMargin, RerankFloor, RerankMargin,
          Pending, NotReranked, NoCursor

Docs == [type : {"qid"}, id : Known] \cup [type : {"cve"}, id : Cves]

Rankings == Seq(Chunks)

ASSUME IdsAssumption == /\ Qids \subseteq Nat
                        /\ Chunks \subseteq Nat
                        /\ Text \subseteq Chunks
                        /\ IsFiniteSet(Chunks)
(* Every pair of the index has both ends (Exports!ReferencesResolve), and a *)
(* CVE has a write-up only because a row mapped a QID to it.                *)
ASSUME CorpusAssumption ==
    /\ Known \subseteq Qids
    /\ QidsFor \in [Cves -> Seq(Known)]
    /\ Owner \in [Chunks -> Docs]
    /\ \A c \in Chunks : Owner[c].type = "cve" => QidsFor[Owner[c].id] # <<>>
(* A pair is in the index once: it is its primary key. *)
ASSUME PairsAssumption ==
    \A c \in Cves : \A i, j \in DOMAIN QidsFor[c] : QidsFor[c][i] = QidsFor[c][j] => i = j
ASSUME QuestionsAssumption ==
    Questions \subseteq [cves : Seq(Cves), qids : Seq(Qids), queries : Nat, long : BOOLEAN]
ASSUME SearchAssumption ==
    /\ Hits \subseteq {r \in Rankings : Len(r) <= CandidateCount}
    /\ Cosines \subseteq [Text -> Int]
    /\ Relevances \subseteq [Chunks -> Int]
ASSUME SettingsAssumption ==
    /\ {CandidateCount, ContextCount, FusionK} \subseteq Nat \ {0}
    /\ {DenseFloor, RerankFloor} \subseteq Int
    /\ {DenseMargin, RerankMargin} \subseteq Nat
ASSUME UnitAssumption == /\ Unit \in Nat \ {0}
                         /\ \A r \in 1..CandidateCount : Unit % (FusionK + r) = 0

(* A RetrievalResult. *)
Answers == [matches : Seq(Known), cves : [Known -> Seq(Cves)], hits : [Known -> Seq(Chunks)],
            unknown : SUBSET (Cves \cup Qids), abstained : BOOLEAN]

ASSUME SpecialAssumption == /\ NoCursor \notin Cves \cup Chunks
                            /\ NotReranked \notin [Chunks -> Int]
                            /\ Pending \notin Answers

VARIABLES
    stages,     \* which of "keyword", "dense", "rerank" the settings enable
    sameModel,  \* the artifact was embedded with the configured model
    question,   \* the parsed query
    pc,
    rest,       \* identifiers of the current loop not yet looked up
    cursor,     \* the CVE or chunk whose QIDs are being drafted
    todo,       \* its QIDs not yet drafted
    drafts,     \* the keys of the dict of drafts, in insertion order
    cves,       \* matched_cve_ids of each draft
    hits,       \* chunks of each draft
    unknown,    \* unknown_identifiers
    asked,      \* the phrasings that have been searched
    rankings,   \* one ranking per phrasing and search stage
    cosines,    \* the similarities of each phrasing
    fused,      \* fused_scores: the chunks fusion keeps, with their scores
    relevance,  \* the cross-encoder's scores, or NotReranked
    candidates, \* the output of search
    supporting, \* the candidates good enough to act on, not yet rolled up
    abstained,
    answer      \* the RetrievalResult, or Pending

ask_vars    == <<stages, sameModel, question>>
draft_vars  == <<drafts, cves, hits>>
search_vars == <<asked, rankings, cosines, fused, relevance, candidates>>
vars == <<ask_vars, pc, rest, cursor, todo, draft_vars, unknown, search_vars,
          supporting, abstained, answer>>

Steps == {"new", "refused", "cves", "draft", "qids", "keyword", "dense",
          "fuse", "rank", "gate", "hits", "add", "finish", "done"}

Init ==
    /\ stages \in SUBSET {"keyword", "dense", "rerank"}
    /\ sameModel \in BOOLEAN
    /\ question \in Questions
    /\ pc = "new"
    /\ rest = <<>>
    /\ cursor = NoCursor
    /\ todo = <<>>
    /\ drafts = <<>>
    /\ cves = [k \in Known |-> <<>>]
    /\ hits = [k \in Known |-> <<>>]
    /\ unknown = {}
    /\ asked = 0
    /\ rankings = <<>>
    /\ cosines = <<>>
    /\ fused = <<>>
    /\ relevance = NotReranked
    /\ candidates = {}
    /\ supporting = {}
    /\ abstained = FALSE
    /\ answer = Pending

Elements(s) == {s[i] : i \in DOMAIN s}

TypeOK ==
    /\ stages \in SUBSET {"keyword", "dense", "rerank"}
    /\ sameModel \in BOOLEAN
    /\ question \in Questions
    /\ pc \in Steps
    /\ rest \in Seq(Cves) \cup Seq(Qids)
    /\ cursor \in Cves \cup Chunks \cup {NoCursor}
    /\ todo \in Seq(Known)
    /\ drafts \in Seq(Known)
    /\ cves \in [Known -> Seq(Cves)]
    /\ hits \in [Known -> Seq(Chunks)]
    /\ unknown \in SUBSET (Cves \cup Qids)
    /\ asked \in 0..question.queries
    /\ rankings \in Seq(Rankings)
    /\ cosines \in Seq(Cosines)
    /\ DOMAIN fused \subseteq Chunks
    /\ relevance \in Relevances \cup {NotReranked}
    /\ candidates \in SUBSET Chunks
    /\ supporting \in SUBSET candidates
    /\ abstained \in BOOLEAN
    /\ answer \in Answers \cup {Pending}

-----------------------------------------------------------------------------
(* __init__ and the identifiers *)

(* The settings and the artifact fit together, or RetrieverConfigError. *)
Construct ==
    /\ pc = "new"
    /\ IF /\ stages \cap {"keyword", "dense"} # {}
          /\ "dense" \in stages => sameModel
       THEN pc' = "cves" /\ rest' = question.cves
       ELSE pc' = "refused" /\ UNCHANGED rest
    /\ UNCHANGED <<ask_vars, cursor, todo, draft_vars, unknown, search_vars,
                   supporting, abstained, answer>>

(* drafts.setdefault(qid, ...) *)
Entered(k) == IF k \in Elements(drafts) THEN drafts ELSE Append(drafts, k)

LookUpCve ==
    /\ pc = "cves"
    /\ rest # <<>>
    /\ rest' = Tail(rest)
    /\ IF QidsFor[Head(rest)] = <<>>
       THEN /\ unknown' = unknown \cup {Head(rest)}
            /\ UNCHANGED <<pc, cursor, todo>>
       ELSE /\ pc' = "draft"
            /\ cursor' = Head(rest)
            /\ todo' = QidsFor[Head(rest)]
            /\ UNCHANGED unknown
    /\ UNCHANGED <<ask_vars, draft_vars, search_vars, supporting, abstained, answer>>

(* One QID of the CVE that cursor names. *)
Draft ==
    /\ pc = "draft"
    /\ LET k == Head(todo) IN
       /\ drafts' = Entered(k)
       /\ cves' = [cves EXCEPT ![k] = Append(@, cursor)]
    /\ todo' = Tail(todo)
    /\ pc' = IF Tail(todo) = <<>> THEN "cves" ELSE "draft"
    /\ UNCHANGED <<ask_vars, rest, cursor, hits, unknown, search_vars,
                   supporting, abstained, answer>>

(* Mutant: a QID counts as known because it was typed as one. *)
LookUpQidUnchecked ==
    /\ pc = "qids"
    /\ rest # <<>>
    /\ rest' = Tail(rest)
    /\ drafts' = Entered(Head(rest))
    /\ UNCHANGED <<ask_vars, pc, cursor, todo, cves, hits, unknown, search_vars,
                   supporting, abstained, answer>>

EndOfCves ==
    /\ pc = "cves"
    /\ rest = <<>>
    /\ rest' = question.qids
    /\ pc' = "qids"
    /\ UNCHANGED <<ask_vars, cursor, todo, draft_vars, unknown, search_vars,
                   supporting, abstained, answer>>

LookUpQid ==
    /\ pc = "qids"
    /\ rest # <<>>
    /\ rest' = Tail(rest)
    /\ IF Head(rest) \notin Known
       THEN unknown' = unknown \cup {Head(rest)} /\ UNCHANGED drafts
       ELSE drafts' = Entered(Head(rest)) /\ UNCHANGED unknown
    /\ UNCHANGED <<ask_vars, pc, cursor, todo, cves, hits, search_vars,
                   supporting, abstained, answer>>

(* Mutant: the words around an identifier widen the answer. *)
ChooseBoth ==
    /\ pc = "qids"
    /\ rest = <<>>
    /\ pc' = IF question.queries > 0 THEN "keyword" ELSE "finish"
    /\ UNCHANGED <<ask_vars, rest, cursor, todo, draft_vars, unknown, search_vars,
                   supporting, abstained, answer>>

(* Search runs only when no identifier resolved. *)
Choose ==
    /\ pc = "qids"
    /\ rest = <<>>
    /\ pc' = IF drafts = <<>> /\ question.queries > 0 THEN "keyword" ELSE "finish"
    /\ UNCHANGED <<ask_vars, rest, cursor, todo, draft_vars, unknown, search_vars,
                   supporting, abstained, answer>>

-----------------------------------------------------------------------------
(* search *)

(* Nothing is searched for when the phrasing has no searchable term. *)
SearchKeyword ==
    /\ pc = "keyword"
    /\ pc' = "dense"
    /\ \/ UNCHANGED rankings
       \/ "keyword" \in stages /\ \E r \in Hits : rankings' = Append(rankings, r)
    /\ UNCHANGED <<ask_vars, rest, cursor, todo, draft_vars, unknown, asked, cosines,
                   fused, relevance, candidates, supporting, abstained, answer>>

Lesser(m, n) == IF m < n THEN m ELSE n

(* DenseIndex.search: the best rows, equal similarities by chunk id. *)
Nearest(s) ==
    {r \in [1..Lesser(CandidateCount, Cardinality(Text)) -> Text] :
        LET Nearer(c, d) == s[c] > s[d] \/ (s[c] = s[d] /\ c < d) IN
        /\ \A i, j \in DOMAIN r : i < j => Nearer(r[i], r[j])
        /\ \A c \in Text \ Elements(r) : \A i \in DOMAIN r : Nearer(r[i], c)}

SearchDense ==
    /\ pc = "dense"
    /\ IF "dense" \in stages
       THEN \E s \in Cosines : \E r \in Nearest(s) :
                /\ cosines' = Append(cosines, s)
                /\ rankings' = Append(rankings, r)
       ELSE UNCHANGED <<cosines, rankings>>
    /\ asked' = asked + 1
    /\ pc' = IF asked + 1 < question.queries THEN "keyword" ELSE "fuse"
    /\ UNCHANGED <<ask_vars, rest, cursor, todo, draft_vars, unknown, fused,
                   relevance, candidates, supporting, abstained, answer>>

(* reciprocal_rank_fusion, with 1 / (k + rank) in whole units. *)
FusedScore(c) ==
    LET in == {i \in DOMAIN rankings : c \in Elements(rankings[i])}
        rank(i) == CHOOSE r \in DOMAIN rankings[i] : rankings[i][r] = c
    IN  SumFunction([i \in in |-> Unit \div (FusionK + rank(i))])

Found == UNION {Elements(rankings[i]) : i \in DOMAIN rankings}

(* Higher scores first, equal scores by chunk id. *)
Before(score, c, d) == score[c] > score[d] \/ (score[c] = score[d] /\ c < d)

(* The first n of S. *)
Best(n, S, score) ==
    {c \in S : Cardinality({d \in S \ {c} : Before(score, d, c)}) < n}

Fuse ==
    /\ pc = "fuse"
    /\ LET score == [c \in Found |-> FusedScore(c)]
       IN  fused' = [c \in Best(CandidateCount, Found, score) |-> score[c]]
    /\ pc' = "rank"
    /\ UNCHANGED <<ask_vars, rest, cursor, todo, draft_vars, unknown, asked, rankings,
                   cosines, relevance, candidates, supporting, abstained, answer>>

(* The scored chunks are in the cross-encoder's order, or as they were fused. *)
Order(scores) == IF scores = NotReranked THEN fused ELSE scores

(* Mutant: every chunk keeps its slot. *)
BestPerChunk(S, score) == S

(* Each document keeps the slot of its first chunk. *)
BestPerDocument(S, score) ==
    {c \in S : \A d \in S \ {c} : Owner[d] = Owner[c] => Before(score, c, d)}

(* Mutant: slots are given before the cross-encoder has read the chunks. *)
RankTooLate ==
    /\ pc = "rank"
    /\ pc' = "gate"
    /\ IF "rerank" \in stages /\ ~question.long /\ DOMAIN fused # {}
       THEN relevance' \in Relevances
       ELSE UNCHANGED relevance
    /\ candidates' = Best(ContextCount, BestPerDocument(DOMAIN fused, fused),
                          Order(relevance'))
    /\ UNCHANGED <<ask_vars, rest, cursor, todo, draft_vars, unknown, asked, rankings,
                   cosines, fused, supporting, abstained, answer>>

(* The rest of search: the cross-encoder where it applies (long text keeps *)
(* its fused order), one slot per document, and the cap.                   *)
Rank ==
    /\ pc = "rank"
    /\ pc' = "gate"
    /\ IF "rerank" \in stages /\ ~question.long /\ DOMAIN fused # {}
       THEN relevance' \in Relevances
       ELSE UNCHANGED relevance
    /\ LET score == Order(relevance') IN
       candidates' = Best(ContextCount, BestPerDocument(DOMAIN fused, score), score)
    /\ UNCHANGED <<ask_vars, rest, cursor, todo, draft_vars, unknown, asked, rankings,
                   cosines, fused, supporting, abstained, answer>>

-----------------------------------------------------------------------------
(* From candidates to matches *)

(* _gate: which score decides about the chunks of S. *)
Gate(S) == IF relevance # NotReranked THEN "rerank_score"
           ELSE IF "dense" \in stages /\ S \cap Text # {} THEN "dense_score"
           ELSE "none"

(* The chunks of S that carry the score, and what it is. *)
Carriers(S) == IF Gate(S) = "dense_score" THEN S \cap Text ELSE S
Score(S, c) == CASE Gate(S) = "rerank_score" -> relevance[c]
                 [] Gate(S) = "dense_score"  -> cosines[1][c]
                 [] OTHER                    -> fused[c]
Floor(S)  == IF Gate(S) = "rerank_score" THEN RerankFloor ELSE DenseFloor
Margin(S) == IF Gate(S) = "rerank_score" THEN RerankMargin ELSE DenseMargin

(* Mutant: whatever clears the floor supports a match. *)
SupportingNoMargin(S) ==
    IF Gate(S) = "none"
    THEN {c \in S : \A d \in S \ {c} : Before(Order(relevance), c, d)}
    ELSE {c \in Carriers(S) : Score(S, c) >= Floor(S)}

(* _supporting: without a comparable score, the top hit and nothing else. *)
Supporting(S) ==
    IF Gate(S) = "none"
    THEN {c \in S : \A d \in S \ {c} : Before(Order(relevance), c, d)}
    ELSE {c \in Carriers(S) :
            /\ Score(S, c) >= Floor(S)
            /\ \A d \in Carriers(S) : Score(S, c) >= Score(S, d) - Margin(S)}

Support ==
    /\ pc = "gate"
    /\ supporting' = Supporting(candidates)
    /\ abstained' = (supporting' = {})
    /\ pc' = "hits"
    /\ UNCHANGED <<ask_vars, rest, cursor, todo, draft_vars, unknown, search_vars, answer>>

(* _add_search_hit for the best chunk not rolled up: the QIDs it belongs to. *)
NextHit ==
    /\ pc = "hits"
    /\ \E c \in supporting :
        /\ \A d \in supporting \ {c} : Before(Order(relevance), c, d)
        /\ cursor' = c
        /\ todo' = IF Owner[c].type = "qid" THEN <<Owner[c].id>> ELSE QidsFor[Owner[c].id]
        /\ supporting' = supporting \ {c}
    /\ pc' = "add"
    /\ UNCHANGED <<ask_vars, rest, draft_vars, unknown, search_vars, abstained, answer>>

(* One QID of the chunk that cursor names. *)
AddHit ==
    /\ pc = "add"
    /\ LET k == Head(todo)
           doc == Owner[cursor] IN
       /\ drafts' = Entered(k)
       /\ hits' = [hits EXCEPT ![k] = Append(@, cursor)]
       /\ cves' = IF doc.type = "cve" /\ doc.id \notin Elements(cves[k])
                  THEN [cves EXCEPT ![k] = Append(@, doc.id)] ELSE cves
    /\ todo' = Tail(todo)
    /\ pc' = IF Tail(todo) = <<>> THEN "hits" ELSE "add"
    /\ UNCHANGED <<ask_vars, rest, cursor, unknown, search_vars, supporting,
                   abstained, answer>>

EndOfHits ==
    /\ pc = "hits"
    /\ supporting = {}
    /\ pc' = "finish"
    /\ UNCHANGED <<ask_vars, rest, cursor, todo, draft_vars, unknown, search_vars,
                   supporting, abstained, answer>>

(* _finish: the best score under a draft; none counts as 0.0 in the sort. *)
MatchScore(k) ==
    LET S == Elements(hits[k])
    IN  IF S = {} THEN 0 ELSE Max({Score(S, c) : c \in Carriers(S)})

(* Mutant: the matches stay as they were drafted. *)
MatchDraftedBefore(k, l) ==
    LET Place(m) == CHOOSE i \in DOMAIN drafts : drafts[i] = m
    IN  Place(k) < Place(l)

(* A stable sort: equal scores stay as they were drafted. *)
MatchBefore(k, l) ==
    LET Place(m) == CHOOSE i \in DOMAIN drafts : drafts[i] = m
    IN  \/ MatchScore(k) > MatchScore(l)
        \/ MatchScore(k) = MatchScore(l) /\ Place(k) < Place(l)

Finish ==
    /\ pc = "finish"
    /\ \E m \in [DOMAIN drafts -> Elements(drafts)] :
        /\ Elements(m) = Elements(drafts)
        /\ \A i, j \in DOMAIN m : i < j => MatchBefore(m[i], m[j])
        /\ answer' = [matches |-> m, cves |-> cves, hits |-> hits,
                      unknown |-> unknown, abstained |-> abstained]
    /\ pc' = "done"
    /\ UNCHANGED <<ask_vars, rest, cursor, todo, draft_vars, unknown, search_vars,
                   supporting, abstained>>

(* The call has returned, or there is no retriever to call. *)
Ended == pc \in {"done", "refused"} /\ UNCHANGED vars

Next == \/ Construct \/ LookUpCve \/ Draft \/ EndOfCves \/ LookUpQid \/ Choose
        \/ SearchKeyword \/ SearchDense \/ Fuse \/ Rank
        \/ Support \/ NextHit \/ AddHit \/ EndOfHits \/ Finish
        \/ Ended

Spec == Init /\ [][Next]_vars

-----------------------------------------------------------------------------
(* Properties *)

Contract == INSTANCE RetrieverContract

(* retrieve keeps RetrieverContract: identifiers alone decide where one     *)
(* resolves, every match is a row of the artifact (the assertion of         *)
(* _finish), carries only its own chunks and CVEs, and a search without     *)
(* matches abstains.                                                        *)
KeepsContract == Contract!Spec

(* Where the cross-encoder scores, or one phrasing is searched densely      *)
(* alone, dropping chunks on the way (one slot per document, the cap) never *)
(* turns the best score of what was fused into an abstention, nor a worse   *)
(* one into a match.                                                        *)
AbstainsByTheBestScore ==
    pc \in {"hits", "add", "finish", "done"} /\ asked > 0
    /\ (relevance # NotReranked \/ (stages = {"dense"} /\ asked = 1))
    => (abstained <=> \A c \in DOMAIN fused :
                          Score(DOMAIN fused, c) < Floor(DOMAIN fused))

(* However many chunks and phrasings hit a document, it supports a match    *)
(* with one chunk, so matches do not swell with the length of a write-up.   *)
OneSlotPerDocument ==
    answer # Pending => \A k \in Elements(answer.matches) :
        \A i, j \in DOMAIN answer.hits[k] :
            i # j => Owner[answer.hits[k][i]] # Owner[answer.hits[k][j]]

(* A chunk that supports a match reaches the floor of its score and is      *)
(* within the margin of the best candidate's, also after rolling up.        *)
MatchesClearTheFloor ==
    answer # Pending => \A k \in Elements(answer.matches) :
        \A c \in Elements(answer.hits[k]) :
            Gate(candidates) # "none" =>
                /\ Score(candidates, c) >= Floor(candidates)
                /\ \A d \in Carriers(candidates) :
                       Score(candidates, c) >= Score(candidates, d) - Margin(candidates)

(* Matches come best first, by the best chunk of each. *)
MatchesAreSorted ==
    answer # Pending => \A i, j \in DOMAIN answer.matches :
        i < j => MatchScore(answer.matches[i]) >= MatchScore(answer.matches[j])

(* The best score of the write-ups decides whether there is a match, which  *)
(* chunk of each stands for it, and which match comes first.                *)
BestScoresDecide == AbstainsByTheBestScore /\ OneSlotPerDocument /\ MatchesAreSorted

(* The reason given for an abstention, retriever.py:437: "The closest       *)
(* write-up has a similarity of ..., below the floor of ...".  So no chunk  *)
(* that search fused and compared has a similarity that reaches the floor.  *)
AbstentionReasonIsTrue ==
    abstained /\ Gate(candidates) = "dense_score"
    => \A c \in DOMAIN fused \cap Text : cosines[1][c] < DenseFloor
=============================================================================
