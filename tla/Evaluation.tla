----------------------------- MODULE Evaluation -----------------------------
(***************************************************************************)
(* What the evaluation of blast_radius/evaluation makes of a question set: *)
(* which files questions.load takes, what questions.validate finds wrong   *)
(* with the gold answers, and how runner.score_question and metrics score  *)
(* one retrieval.  A mean is left out: it is a sum over these scores.      *)
(***************************************************************************)
EXTENDS Selection, SequencesExt

CONSTANTS Qids,       \* ids a question may name, in the order of their spelling
          Cves,
          Known,      \* the rows of table qids
          Held,       \* the rows of table cves
          QidsFor,    \* per CVE, the QIDs the scanner maps to it, in order
          Hosts,
          Detected,   \* per host, the QIDs found on it
          Cutoff      \* _K

Types == {"identifier", "paraphrase", "product", "negative"}

(* A line of the file; one that is no JSON or has a wrong field never fits. *)
Question == [fits : BOOLEAN, id : Nat, type : Types, qids : Seq(Qids), cves : Seq(Cves)]

Doc == [type : {"qid"}, id : Known] \cup [type : {"cve"}, id : Held]

Result == [matches : Seq([qid : Known, cves : Seq(Held)]), candidates : Seq(Doc)]

(* Only detections and their write-ups make a QID known. *)
ASSUME ArtifactAssumption ==
    /\ Qids \subseteq Nat /\ Cves \subseteq Nat
    /\ Known \subseteq Qids /\ Held \subseteq Cves
    /\ QidsFor \in [Cves -> Seq(Known)]
    /\ Detected \in [Hosts -> SUBSET Known]
    /\ \A k \in Known : \E h \in Hosts : k \in Detected[h]
    /\ IsFiniteSet(Hosts)
    /\ Cutoff \in Nat \ {0}

-----------------------------------------------------------------------------
(* questions.py *)

(* _require_canonical_order: sorted, no repeats. *)
Canonical(ids) == \A i, j \in DOMAIN ids : i < j => ids[i] < ids[j]

(* load, or QuestionSetError. *)
Loads(file) ==
    \A n \in DOMAIN file :
      /\ file[n].fits /\ Canonical(file[n].qids) /\ Canonical(file[n].cves)
      /\ \A m \in 1..(n - 1) : file[m].id # file[n].id

IsNegative(q) == q.type = "negative"

(* Mutant: a gold CVE need not bring all of its QIDs along. *)
NamedGoldIsSound(q) ==
    /\ IsNegative(q) => q.qids = <<>> /\ q.cves = <<>>
    /\ ~IsNegative(q) => q.qids # <<>>
    /\ ToSet(q.qids) \subseteq Known
    /\ ToSet(q.cves) \subseteq Held

(* _gold_problems reports each way in which this is false. *)
GoldIsSound(q) ==
    /\ IsNegative(q) => q.qids = <<>> /\ q.cves = <<>>
    /\ ~IsNegative(q) => q.qids # <<>>
    /\ ToSet(q.qids) \subseteq Known
    /\ ToSet(q.cves) \subseteq Held
    /\ \A c \in ToSet(q.cves) : ToSet(QidsFor[c]) \subseteq ToSet(q.qids)

(* validate: whether it returns no problem. *)
Valid(questions) ==
    /\ \A m, n \in DOMAIN questions : questions[m].id = questions[n].id => m = n
    /\ \A n \in DOMAIN questions : GoldIsSound(questions[n])

-----------------------------------------------------------------------------
(* runner.py: the ids that a retrieval ranks, and its hosts *)

(* _unique: first occurrences, in order. *)
Unique(s) == Selected(s, {i \in DOMAIN s : \A j \in 1..(i - 1) : s[j] # s[i]})

(* _ranked_ids: the matches of a lookup are its ranking. *)
RankedQids(result) ==
    IF result.candidates = <<>>
    THEN [i \in DOMAIN result.matches |-> result.matches[i].qid]
    ELSE LET of(d) == IF d.type = "qid" THEN <<d.id>> ELSE QidsFor[d.id]
         IN  Unique(FlattenSeq([i \in DOMAIN result.candidates |-> of(result.candidates[i])]))

RankedCves(result) ==
    IF result.candidates = <<>>
    THEN Unique(FlattenSeq([i \in DOMAIN result.matches |-> result.matches[i].cves]))
    ELSE LET of(d) == IF d.type = "cve" THEN <<d.id>> ELSE <<>>
         IN  Unique(FlattenSeq([i \in DOMAIN result.candidates |-> of(result.candidates[i])]))

Matched(result) == {result.matches[i].qid : i \in DOMAIN result.matches}

HostsOf(qids) == {h \in Hosts : Detected[h] \cap qids # {}}

-----------------------------------------------------------------------------
(* metrics.py.  A ratio keeps its two numbers. *)

Whole == [hits |-> 1, of |-> 1]
Zero  == [hits |-> 0, of |-> 1]

Considered(ranked) == {i \in DOMAIN ranked : i <= Cutoff}

RecallAtK(ranked, gold) == \E i \in Considered(ranked) : ranked[i] \in gold

PrecisionAtK(ranked, gold) ==
    IF ranked = <<>> THEN Zero
    ELSE [hits |-> Cardinality({i \in Considered(ranked) : ranked[i] \in gold}),
          of |-> Cardinality(Considered(ranked))]

(* The rank of the first gold id, or 0. *)
ReciprocalRank(ranked, gold) ==
    IF \A i \in DOMAIN ranked : ranked[i] \notin gold THEN 0
    ELSE CHOOSE i \in DOMAIN ranked : ranked[i] \in gold
                                      /\ \A j \in 1..(i - 1) : ranked[j] \notin gold

(* set_precision_recall: 0 / 0 is what the answer deserves. *)
SetPrecisionRecall(returned, gold) ==
    IF returned = {} /\ gold = {} THEN [precision |-> Whole, recall |-> Whole]
    ELSE IF returned = {} \/ gold = {} THEN [precision |-> Zero, recall |-> Zero]
    ELSE LET hits == Cardinality(returned \cap gold)
         IN  [precision |-> [hits |-> hits, of |-> Cardinality(returned)],
              recall |-> [hits |-> hits, of |-> Cardinality(gold)]]

(* recall_at_k raises ValueError when there is no gold. *)
Undefined(q) == ~IsNegative(q) /\ q.qids = <<>>

(* score_question: a score that does not apply is {}. *)
Score(q, result) ==
    LET gold    == ToSet(q.qids)
        ranked  == RankedQids(result)
        applies == ~IsNegative(q)
    IN  [recall    |-> IF applies THEN {RecallAtK(ranked, gold)} ELSE {},
         precision |-> IF applies THEN {PrecisionAtK(ranked, gold)} ELSE {},
         rank      |-> IF applies THEN {ReciprocalRank(ranked, gold)} ELSE {},
         cve       |-> IF applies /\ q.cves # <<>> /\ q.type # "identifier"
                       THEN {RecallAtK(RankedCves(result), ToSet(q.cves))} ELSE {},
         hosts     |-> IF applies
                       THEN {SetPrecisionRecall(HostsOf(Matched(result)), HostsOf(gold))}
                       ELSE {},
         abstained |-> (result.matches # <<>>) # IsNegative(q)]
=============================================================================
