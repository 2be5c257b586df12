-------------------------- MODULE RetrieverProofs --------------------------
(***************************************************************************)
(* Theorems of Retriever, for any corpus, any settings and any results of  *)
(* search.  The invariant follows the query through its two phases: what   *)
(* the identifiers not yet looked up will still add, and what the chunks   *)
(* not yet rolled up will.                                                 *)
(***************************************************************************)
EXTENDS Retriever, FiniteLemmas

LookingUp == {"cves", "draft", "qids"}
Searching == {"keyword", "dense", "fuse", "rank", "gate"}
RollingUp == {"hits", "add"}

QidsOf(c) == Elements(QidsFor[c])

(* The QIDs that CVEs of s are mapped to, and the CVEs of s that lead nowhere. *)
Mapped(s)  == {k \in Known : \E c \in Elements(s) : k \in QidsOf(c)}
Strange(s) == {c \in Elements(s) : QidsFor[c] = <<>>}

Resolved   == Contract!Resolved(question)
Unresolved == Contract!Unresolved(question)

(* rest, cursor and todo belong to the loop that is running. *)
LoopInv ==
    /\ pc \in {"cves", "draft"} => rest \in Seq(Cves)
    /\ pc = "qids" => rest \in Seq(Qids)
    /\ pc = "draft" => /\ cursor \in Cves /\ todo # <<>>
                       /\ Elements(todo) \subseteq QidsOf(cursor)
    /\ pc = "add" => /\ cursor \in Supporting(candidates) /\ todo # <<>>
                     /\ \A k \in Elements(todo) : Contract!BelongsTo(Owner[cursor], k)

(* What is unknown, and what the identifiers to come will add. *)
UnknownInv ==
    /\ pc = "new" => unknown = {}
    /\ pc \in {"cves", "draft"} => unknown \cup Strange(rest) = Strange(question.cves)
    /\ pc = "qids" => unknown \cup (Elements(rest) \ Known) = Unresolved
    /\ pc \in Searching \cup RollingUp \cup {"finish", "done"} => unknown = Unresolved

(* What is drafted, and what the identifiers to come will add. *)
DraftsInv ==
    /\ pc = "new" => drafts = <<>>
    /\ pc = "cves" => Elements(drafts) \cup Mapped(rest) = Mapped(question.cves)
    /\ pc = "draft" =>
         Elements(drafts) \cup Mapped(rest) \cup Elements(todo) = Mapped(question.cves)
    /\ pc = "qids" => Elements(drafts) \cup (Elements(rest) \cap Known) = Resolved
    /\ pc \in Searching => drafts = <<>>

(* A search is on only if no identifier resolved; it abstains if nothing    *)
(* supports a match.                                                        *)
SearchInv ==
    /\ pc \in Searching \cup RollingUp => Resolved = {} /\ question.queries > 0
    /\ pc = "hits" => (abstained <=> supporting = {} /\ drafts = <<>>)
    /\ pc = "add" => ~abstained
    /\ pc \in {"keyword", "dense"} => asked < question.queries
    /\ pc \in {"new"} \cup LookingUp => asked = 0
    /\ pc \in {"new"} \cup LookingUp \cup Searching => supporting = {}
    /\ pc \in {"new", "refused"} \cup LookingUp \cup Searching => ~abstained

(* How the matches came about. *)
Identified == /\ Elements(drafts) = Resolved
              /\ ~abstained
              /\ \A k \in Known : hits[k] = <<>>
              /\ Resolved = {} => question.queries = 0
Searched   == /\ Resolved = {} /\ question.queries > 0
              /\ abstained <=> drafts = <<>>
              /\ \A k \in Elements(drafts) : hits[k] # <<>>

FinishInv == pc \in {"finish", "done"} => Identified \/ Searched

(* Chunks and CVEs are rolled up to their own QIDs. *)
RollUpInv ==
    /\ pc \in RollingUp => supporting \subseteq Supporting(candidates)
    /\ pc \in LookingUp \cup Searching \cup {"new"} => \A k \in Known : hits[k] = <<>>
    /\ pc \in RollingUp => \A k \in Elements(drafts) : hits[k] # <<>>
    /\ \A k \in Known : \A c \in Elements(cves[k]) : k \in QidsOf(c)
    /\ \A k \in Known : \A x \in Elements(hits[k]) :
           x \in Supporting(candidates) /\ Contract!BelongsTo(Owner[x], k)

AnswerInv ==
    /\ answer = Pending <=> pc # "done"
    /\ pc = "done" => /\ Elements(answer.matches) = Elements(drafts)
                      /\ answer.cves = cves /\ answer.hits = hits
                      /\ answer.unknown = unknown /\ answer.abstained = abstained

(* The keys of a dict do not repeat. *)
Distinct(s) == \A i, j \in DOMAIN s : s[i] = s[j] => i = j

(* What the searches have left: one list of similarities per phrasing, and, *)
(* if only dense search is on, the ranking that follows from each.          *)
ResultsInv ==
    /\ "dense" \in stages => Len(cosines) = asked
    /\ stages = {"dense"} => /\ Len(rankings) = asked
                             /\ \A i \in 1..asked : rankings[i] \in Nearest(cosines[i])
    /\ pc = "fuse" => asked > 0

(* What fusion has left: whole scores, and for one dense ranking the order  *)
(* of its similarities.                                                     *)
FusedInv ==
    /\ \A c \in DOMAIN fused : fused[c] \in Int
    /\ pc \in {"new", "keyword", "dense", "fuse"} \cup LookingUp => DOMAIN fused = {}
    /\ DOMAIN fused # {} => asked > 0
    /\ stages = {"dense"} /\ asked = 1 =>
          /\ DOMAIN fused \subseteq Text
          /\ \A c, d \in DOMAIN fused :
                 Before(fused, c, d) => cosines[1][c] >= cosines[1][d]

(* What ranking has left: one chunk per document, the best of all on top. *)
RankedInv ==
    /\ pc \in {"new", "keyword", "dense", "fuse", "rank"} \cup LookingUp => candidates = {}
    /\ candidates \subseteq DOMAIN fused
    /\ \A c, d \in candidates : Owner[c] = Owner[d] => c = d
    /\ pc \in {"gate", "finish", "done"} \cup RollingUp /\ DOMAIN fused # {} =>
          \E b \in candidates : \A d \in DOMAIN fused \ {b} : Before(Order(relevance), b, d)

(* A chunk is rolled up once, and to each of its QIDs once. *)
SlotsInv ==
    /\ \A k \in Known : Distinct(hits[k])
    /\ pc \in RollingUp => \A k \in Known : Elements(hits[k]) \cap supporting = {}
    /\ pc = "add" => /\ cursor \notin supporting /\ Distinct(todo)
                     /\ \A k \in Elements(todo) : cursor \notin Elements(hits[k])

BestInv == ResultsInv /\ FusedInv /\ RankedInv /\ SlotsInv

IInv == /\ TypeOK /\ LoopInv /\ UnknownInv /\ DraftsInv /\ SearchInv /\ FinishInv
        /\ RollUpInv /\ AnswerInv
USE IdsAssumption, CorpusAssumption, QuestionsAssumption, SpecialAssumption

-----------------------------------------------------------------------------
(* Lemmas about sequences and the contract's operators *)

LEMMA ElementsOfAppend ==
  ASSUME NEW S, NEW s \in Seq(S), NEW x \in S
  PROVE  /\ Append(s, x) \in Seq(S) /\ Append(s, x) # <<>>
         /\ Elements(Append(s, x)) = Elements(s) \cup {x}
<1>1. /\ Len(s) \in Nat /\ DOMAIN s = 1..Len(s)
      /\ DOMAIN Append(s, x) = 1..(Len(s) + 1)
      /\ \A i \in 1..(Len(s) + 1) :
            Append(s, x)[i] = IF i = Len(s) + 1 THEN x ELSE s[i]
  OBVIOUS
<1>2. Elements(Append(s, x)) = Elements(s) \cup {x}
  BY <1>1 DEF Elements
<1> QED
  BY <1>2

LEMMA ElementsOfTail ==
  ASSUME NEW S, NEW s \in Seq(S), s # <<>>
  PROVE  /\ Head(s) \in S /\ Tail(s) \in Seq(S)
         /\ Elements(s) = {Head(s)} \cup Elements(Tail(s))
<1>1. /\ Len(s) \in Nat /\ Len(s) > 0 /\ DOMAIN s = 1..Len(s) /\ Head(s) = s[1]
      /\ DOMAIN Tail(s) = 1..(Len(s) - 1)
      /\ \A i \in 1..(Len(s) - 1) : Tail(s)[i] = s[i + 1]
  OBVIOUS
<1>2. Elements(s) \subseteq {Head(s)} \cup Elements(Tail(s))
  <2> SUFFICES ASSUME NEW i \in 1..Len(s), i # 1
               PROVE  s[i] \in Elements(Tail(s))
    BY <1>1 DEF Elements
  <2>1. i - 1 \in 1..(Len(s) - 1) /\ Tail(s)[i - 1] = s[i]
    BY <1>1
  <2> QED
    BY <1>1, <2>1 DEF Elements
<1>3. {Head(s)} \cup Elements(Tail(s)) \subseteq Elements(s)
  BY <1>1 DEF Elements
<1> QED
  BY <1>2, <1>3

LEMMA ElementsOfSeq ==
  ASSUME NEW S, NEW s \in Seq(S)
  PROVE  /\ Elements(s) \subseteq S
         /\ Elements(s) = {} <=> s = <<>>
<1>1. Len(s) \in Nat /\ DOMAIN s = 1..Len(s) /\ \A i \in 1..Len(s) : s[i] \in S
  OBVIOUS
<1>2. CASE s = <<>>
  BY <1>1, <1>2 DEF Elements
<1>3. CASE s # <<>>
  <2>1. 1 \in DOMAIN s
    BY <1>1, <1>3
  <2>2. s[1] \in Elements(s)
    BY <2>1 DEF Elements
  <2>3. Elements(s) \subseteq S
    BY <1>1 DEF Elements
  <2> QED
    BY <1>3, <2>2, <2>3
<1> QED
  BY <1>2, <1>3

LEMMA FunctionIsSeq ==
  ASSUME NEW S, NEW n \in Nat, NEW f \in [1..n -> S]
  PROVE  f \in Seq(S)
OBVIOUS

(* What the contract says of the question is fixed with the question. *)
LEMMA QuestionStays ==
  ASSUME UNCHANGED question
  PROVE  Resolved' = Resolved /\ Unresolved' = Unresolved
BY DEF Resolved, Unresolved, Contract!Resolved, Contract!Unresolved, Contract!Elements

(* Resolved and Unresolved, by the kind of identifier. *)
LEMMA Kinds ==
  /\ Resolved = Mapped(question.cves) \cup (Elements(question.qids) \cap Known)
  /\ Unresolved = Strange(question.cves) \cup (Elements(question.qids) \ Known)
BY DEF Resolved, Unresolved, Contract!Resolved, Contract!Unresolved, Contract!Elements,
       Elements, Mapped, Strange, QidsOf

(* What supports a match is fixed with the results of search. *)
LEMMA SupportStays ==
  ASSUME UNCHANGED <<ask_vars, search_vars>>
  PROVE  Supporting(candidates)' = Supporting(candidates)
BY DEF ask_vars, search_vars, Supporting, Gate, Carriers, Score, Floor, Margin, Order, Before

LEMMA SupportersAreCandidates == Supporting(candidates) \subseteq candidates
BY DEF Supporting, Carriers

LEMMA QuestionType ==
  ASSUME question \in Questions
  PROVE  question.cves \in Seq(Cves) /\ question.qids \in Seq(Qids) /\ question.queries \in Nat
OBVIOUS

LEMMA OwnersType ==
  /\ \A c \in Cves : QidsFor[c] \in Seq(Known)
  /\ \A x \in Chunks : Owner[x] \in Docs
OBVIOUS

-----------------------------------------------------------------------------
(* The invariant holds before the call. *)
LEMMA InitIInv == Init => IInv
<1> SUFFICES ASSUME Init PROVE IInv
  OBVIOUS
<1>1. TypeOK
  <2>1. DOMAIN fused = {} /\ rankings \in Seq(Rankings) /\ cosines \in Seq(Cosines)
    BY DEF Init
  <2>2. asked \in 0..question.queries
    BY QuestionType DEF Init
  <2>3. /\ drafts \in Seq(Known) /\ todo \in Seq(Known) /\ rest \in Seq(Cves)
        /\ cves \in [Known -> Seq(Cves)] /\ hits \in [Known -> Seq(Chunks)]
    BY DEF Init
  <2> QED
    BY <2>1, <2>2, <2>3 DEF Init, TypeOK, Steps
<1>2. LoopInv /\ UnknownInv /\ DraftsInv /\ SearchInv /\ FinishInv /\ AnswerInv
  BY DEF Init, LoopInv, UnknownInv, DraftsInv, SearchInv, FinishInv, AnswerInv, LookingUp,
         Searching, RollingUp
<1>3. RollUpInv
  BY DEF Init, RollUpInv, Elements, LookingUp, Searching, RollingUp
<1> QED
  BY <1>1, <1>2, <1>3 DEF IInv

(* While identifiers are looked up, the call has drafted what the ones      *)
(* before it lead to.                                                       *)
LEMMA ConstructStep == ASSUME IInv, Construct PROVE IInv'
<1> USE DEF IInv, ask_vars, draft_vars, search_vars
<1>0. /\ Resolved' = Resolved /\ Unresolved' = Unresolved
      /\ Supporting(candidates)' = Supporting(candidates)
  BY QuestionStays, SupportStays DEF Construct
<1>1. TypeOK'
  BY QuestionType DEF TypeOK, Construct, Steps
<1>2. LoopInv'
  BY QuestionType DEF LoopInv, Construct, TypeOK
<1>3. UnknownInv'
  BY DEF UnknownInv, Construct, Searching, RollingUp
<1>4. DraftsInv'
  <2>1. pc = "new" /\ drafts = <<>> /\ Elements(drafts) = {}
    BY DEF Construct, DraftsInv, Elements
  <2> QED
    BY <2>1 DEF DraftsInv, Construct, Searching
<1>5. SearchInv' /\ FinishInv'
  BY DEF SearchInv, FinishInv, Construct, LookingUp, Searching, RollingUp
<1>6. RollUpInv'
  BY <1>0 DEF RollUpInv, Construct, LookingUp, Searching, RollingUp
<1>7. AnswerInv'
  BY DEF AnswerInv, Construct
<1> QED
  BY <1>1, <1>2, <1>3, <1>4, <1>5, <1>6, <1>7

LEMMA LookUpCveStep == ASSUME IInv, LookUpCve PROVE IInv'
<1> USE DEF IInv, ask_vars, draft_vars, search_vars
<1>0. /\ Resolved' = Resolved /\ Unresolved' = Unresolved
      /\ Supporting(candidates)' = Supporting(candidates)
  BY QuestionStays, SupportStays DEF LookUpCve
<1>1. /\ rest \in Seq(Cves) /\ rest # <<>> /\ pc = "cves"
      /\ Head(rest) \in Cves /\ Tail(rest) \in Seq(Cves)
      /\ Elements(rest) = {Head(rest)} \cup Elements(Tail(rest))
      /\ QidsFor[Head(rest)] \in Seq(Known)
  BY ElementsOfTail, OwnersType DEF LoopInv, LookUpCve
<1>2. TypeOK'
  BY <1>1 DEF TypeOK, LookUpCve, Steps
<1>3. LoopInv'
  BY <1>1 DEF LoopInv, LookUpCve, QidsOf
<1>4. UnknownInv'
  BY <1>1 DEF UnknownInv, LookUpCve, Strange, Searching, RollingUp
<1>5. DraftsInv'
  <2>1. QidsOf(Head(rest)) \subseteq Known
        /\ (QidsFor[Head(rest)] = <<>> => QidsOf(Head(rest)) = {})
    BY <1>1, ElementsOfSeq DEF QidsOf
  <2>2. Mapped(rest) = QidsOf(Head(rest)) \cup Mapped(Tail(rest))
    BY <1>1, <2>1 DEF Mapped
  <2>3. Elements(drafts) \cup Mapped(rest) = Mapped(question.cves)
    BY <1>1 DEF DraftsInv
  <2>4. CASE QidsFor[Head(rest)] = <<>>
    BY <1>1, <2>1, <2>2, <2>3, <2>4 DEF DraftsInv, LookUpCve, Searching
  <2>5. CASE QidsFor[Head(rest)] # <<>>
    <3>1. Elements(todo') = QidsOf(Head(rest))
      BY <2>5 DEF LookUpCve, QidsOf
    <3> QED
      BY <1>1, <2>2, <2>3, <2>5, <3>1 DEF DraftsInv, LookUpCve, Searching
  <2> QED
    BY <2>4, <2>5
<1>6. SearchInv' /\ FinishInv'
  BY <1>1 DEF SearchInv, FinishInv, LookUpCve, LookingUp, Searching, RollingUp
<1>7. RollUpInv'
  BY <1>0, <1>1 DEF RollUpInv, LookUpCve, LookingUp, Searching, RollingUp
<1>8. AnswerInv'
  BY <1>1 DEF AnswerInv, LookUpCve
<1> QED
  BY <1>2, <1>3, <1>4, <1>5, <1>6, <1>7, <1>8

LEMMA DraftStep == ASSUME IInv, Draft PROVE IInv'
<1> USE DEF IInv, ask_vars, draft_vars, search_vars
<1>0. /\ Resolved' = Resolved /\ Unresolved' = Unresolved
      /\ Supporting(candidates)' = Supporting(candidates)
  BY QuestionStays, SupportStays DEF Draft
<1>1. /\ pc = "draft" /\ cursor \in Cves /\ todo \in Seq(Known) /\ todo # <<>>
      /\ Elements(todo) \subseteq QidsOf(cursor)
  BY DEF Draft, LoopInv, TypeOK
<1>2. /\ Head(todo) \in Known /\ Tail(todo) \in Seq(Known)
      /\ Elements(todo) = {Head(todo)} \cup Elements(Tail(todo))
      /\ (Tail(todo) = <<>> => Elements(Tail(todo)) = {})
  BY <1>1, ElementsOfTail, ElementsOfSeq
<1>3. /\ drafts' = Entered(Head(todo))
      /\ cves' = [cves EXCEPT ![Head(todo)] = Append(@, cursor)]
  BY DEF Draft
<1>4. drafts' \in Seq(Known) /\ Elements(drafts') = Elements(drafts) \cup {Head(todo)}
  BY <1>2, <1>3, ElementsOfAppend DEF Entered, TypeOK
<1>5. /\ cves' \in [Known -> Seq(Cves)]
      /\ \A k \in Known : Elements(cves'[k]) \subseteq
             Elements(cves[k]) \cup (IF k = Head(todo) THEN {cursor} ELSE {})
  <2>1. /\ cves[Head(todo)] \in Seq(Cves)
        /\ Append(cves[Head(todo)], cursor) \in Seq(Cves)
        /\ Elements(Append(cves[Head(todo)], cursor)) = Elements(cves[Head(todo)]) \cup {cursor}
    <3>1. cves[Head(todo)] \in Seq(Cves)
      BY <1>2 DEF TypeOK
    <3> QED
      BY <1>1, <3>1, ElementsOfAppend
  <2> QED
    BY <1>2, <1>3, <2>1 DEF TypeOK
<1>6. TypeOK'
  BY <1>1, <1>2, <1>4, <1>5 DEF TypeOK, Draft, Steps
<1>7. LoopInv'
  BY <1>1, <1>2 DEF LoopInv, Draft
<1>8. UnknownInv'
  BY <1>1 DEF UnknownInv, Draft, Searching, RollingUp
<1>9. DraftsInv'
  BY <1>1, <1>2, <1>4 DEF DraftsInv, Draft, Searching
<1>10. SearchInv' /\ FinishInv'
  BY <1>1 DEF SearchInv, FinishInv, Draft, LookingUp, Searching, RollingUp
<1>11. RollUpInv'
  BY <1>0, <1>1, <1>2, <1>5 DEF RollUpInv, Draft, LookingUp, Searching, RollingUp
<1>12. AnswerInv'
  BY <1>1 DEF AnswerInv, Draft
<1> QED
  BY <1>6, <1>7, <1>8, <1>9, <1>10, <1>11, <1>12

LEMMA EndOfCvesStep == ASSUME IInv, EndOfCves PROVE IInv'
<1> USE DEF IInv, ask_vars, draft_vars, search_vars
<1>0. /\ Resolved' = Resolved /\ Unresolved' = Unresolved
      /\ Supporting(candidates)' = Supporting(candidates)
  BY QuestionStays, SupportStays DEF EndOfCves
<1>1. /\ pc = "cves" /\ Mapped(rest) = {} /\ Strange(rest) = {}
      /\ question.qids \in Seq(Qids)
  BY QuestionType DEF EndOfCves, Mapped, Strange, Elements, TypeOK
<1>2. TypeOK'
  BY <1>1 DEF TypeOK, EndOfCves, Steps
<1>3. LoopInv'
  BY <1>1 DEF LoopInv, EndOfCves
<1>4. UnknownInv'
  BY <1>0, <1>1, Kinds DEF UnknownInv, EndOfCves, Searching, RollingUp
<1>5. DraftsInv'
  BY <1>0, <1>1, Kinds DEF DraftsInv, EndOfCves, Searching
<1>6. SearchInv' /\ FinishInv'
  BY <1>1 DEF SearchInv, FinishInv, EndOfCves, LookingUp, Searching, RollingUp
<1>7. RollUpInv'
  BY <1>0, <1>1 DEF RollUpInv, EndOfCves, LookingUp, Searching, RollingUp
<1>8. AnswerInv'
  BY <1>1 DEF AnswerInv, EndOfCves
<1> QED
  BY <1>2, <1>3, <1>4, <1>5, <1>6, <1>7, <1>8

LEMMA LookUpQidStep == ASSUME IInv, LookUpQid PROVE IInv'
<1> USE DEF IInv, ask_vars, draft_vars, search_vars
<1>0. /\ Resolved' = Resolved /\ Unresolved' = Unresolved
      /\ Supporting(candidates)' = Supporting(candidates)
  BY QuestionStays, SupportStays DEF LookUpQid
<1>1. /\ pc = "qids" /\ Head(rest) \in Qids /\ Tail(rest) \in Seq(Qids)
      /\ Elements(rest) = {Head(rest)} \cup Elements(Tail(rest))
  BY ElementsOfTail DEF LookUpQid, LoopInv
<1>2. /\ drafts' \in Seq(Known)
      /\ Elements(drafts') = Elements(drafts) \cup ({Head(rest)} \cap Known)
  <2>1. CASE Head(rest) \in Known
    <3>1. drafts' = Entered(Head(rest)) /\ drafts \in Seq(Known)
      BY <2>1 DEF LookUpQid, TypeOK
    <3> QED
      BY <2>1, <3>1, ElementsOfAppend DEF Entered
  <2>2. CASE Head(rest) \notin Known
    BY SMTT(30), <2>2 DEF LookUpQid, TypeOK
  <2> QED
    BY <2>1, <2>2
<1>3. unknown' = unknown \cup ({Head(rest)} \ Known)
  BY DEF LookUpQid
<1>4. TypeOK'
  BY <1>1, <1>2, <1>3 DEF TypeOK, LookUpQid, Steps
<1>5. LoopInv'
  BY <1>1 DEF LoopInv, LookUpQid
<1>6. UnknownInv'
  BY <1>0, <1>1, <1>3 DEF UnknownInv, LookUpQid, Searching, RollingUp
<1>7. DraftsInv'
  BY <1>0, <1>1, <1>2 DEF DraftsInv, LookUpQid, Searching
<1>8. SearchInv' /\ FinishInv'
  BY <1>1 DEF SearchInv, FinishInv, LookUpQid, LookingUp, Searching, RollingUp
<1>9. RollUpInv'
  BY <1>0, <1>1 DEF RollUpInv, LookUpQid, LookingUp, Searching, RollingUp
<1>10. AnswerInv'
  BY <1>1 DEF AnswerInv, LookUpQid
<1> QED
  BY <1>4, <1>5, <1>6, <1>7, <1>8, <1>9, <1>10

(* Only if nothing is drafted does the search begin. *)
LEMMA ChooseStep == ASSUME IInv, Choose PROVE IInv'
<1> USE DEF IInv, ask_vars, draft_vars, search_vars
<1>0. /\ Resolved' = Resolved /\ Unresolved' = Unresolved
      /\ Supporting(candidates)' = Supporting(candidates)
  BY QuestionStays, SupportStays DEF Choose
<1>1. /\ pc = "qids" /\ Elements(rest) = {} /\ ~abstained
      /\ Elements(drafts) = Resolved /\ unknown = Unresolved
      /\ (drafts = <<>> <=> Resolved = {})
      /\ question.queries \in Nat
  <2>1. pc = "qids" /\ Elements(rest) = {} /\ ~abstained
    BY DEF Choose, Elements, SearchInv, LookingUp
  <2>2. Elements(drafts) = Resolved /\ unknown = Unresolved
    BY <2>1 DEF DraftsInv, UnknownInv
  <2>3. drafts = <<>> <=> Elements(drafts) = {}
    BY ElementsOfSeq DEF TypeOK
  <2> QED
    BY <2>1, <2>2, <2>3, QuestionType DEF TypeOK
<1>2. \A k \in Known : hits[k] = <<>>
  BY <1>1 DEF RollUpInv, LookingUp
<1>3. TypeOK'
  BY <1>1 DEF TypeOK, Choose, Steps
<1>4. LoopInv'
  BY <1>1 DEF LoopInv, Choose
<1>5. UnknownInv' /\ DraftsInv'
  BY <1>0, <1>1 DEF UnknownInv, DraftsInv, Choose, Searching, RollingUp
<1>6. SearchInv'
  BY <1>0, <1>1 DEF SearchInv, Choose, LookingUp, Searching, RollingUp
<1>7. FinishInv'
  <2>1. CASE pc' = "finish"
    BY <1>0, <1>1, <1>2, <2>1 DEF FinishInv, Identified, Choose
  <2>2. CASE pc' = "keyword"
    BY <2>2 DEF FinishInv
  <2> QED
    BY <2>1, <2>2 DEF Choose
<1>8. RollUpInv'
  BY <1>0, <1>1 DEF RollUpInv, Choose, LookingUp, Searching, RollingUp
<1>9. AnswerInv'
  BY <1>1 DEF AnswerInv, Choose
<1> QED
  BY <1>3, <1>4, <1>5, <1>6, <1>7, <1>8, <1>9

-----------------------------------------------------------------------------
(* Searching touches nothing but the results of search. *)
LEMMA SearchFrame ==
  ASSUME IInv, pc \in Searching, pc' \in Searching, TypeOK',
         UNCHANGED <<ask_vars, draft_vars, unknown, supporting, abstained, answer>>,
         pc' \in {"keyword", "dense"} => asked' < question.queries
  PROVE  IInv'
<1> USE DEF IInv, ask_vars, draft_vars, Searching
<1>0. Resolved' = Resolved /\ Unresolved' = Unresolved
  BY QuestionStays
<1>1. LoopInv' /\ UnknownInv' /\ DraftsInv' /\ SearchInv' /\ FinishInv' /\ AnswerInv'
  BY <1>0 DEF LoopInv, UnknownInv, DraftsInv, SearchInv, FinishInv, AnswerInv, LookingUp, RollingUp
<1>2. \A k \in Known : hits'[k] = <<>> /\ Elements(hits'[k]) = {}
  BY DEF RollUpInv, Elements
<1>3. \A k \in Known : \A c \in Elements(cves'[k]) : k \in QidsOf(c)
  BY DEF RollUpInv
<1>4. RollUpInv'
  BY <1>2, <1>3 DEF RollUpInv, LookingUp, RollingUp
<1> QED
  BY <1>1, <1>4

LEMMA SearchKeywordStep == ASSUME IInv, SearchKeyword PROVE IInv'
<1>1. rankings' \in Seq(Rankings)
  <2>1. rankings \in Seq(Rankings) /\ Hits \subseteq Rankings
    BY SearchAssumption DEF IInv, TypeOK
  <2> QED
    BY <2>1 DEF SearchKeyword
<1>2. TypeOK'
  BY <1>1 DEF SearchKeyword, IInv, TypeOK, Steps, ask_vars, draft_vars
<1> QED
  BY <1>2, SearchFrame DEF SearchKeyword, Searching, IInv, SearchInv

LEMMA SearchDenseStep == ASSUME IInv, SearchDense PROVE IInv'
<1>1. rankings' \in Seq(Rankings) /\ cosines' \in Seq(Cosines)
  <2>1. CASE "dense" \in stages
    <3>1. PICK s \in Cosines : \E r \in Nearest(s) :
              /\ cosines' = Append(cosines, s)
              /\ rankings' = Append(rankings, r)
      BY <2>1 DEF SearchDense
    <3>2. PICK r \in Nearest(s) : rankings' = Append(rankings, r)
      BY <3>1
    <3>3. r \in Rankings
      <4>1. r \in [1..Lesser(CandidateCount, Cardinality(Text)) -> Text]
        BY DEF Nearest
      <4>2. Lesser(CandidateCount, Cardinality(Text)) \in Nat
        BY FS_Subset, FS_CardinalityType, SettingsAssumption DEF Lesser
      <4> QED
        <5> DEFINE n == Lesser(CandidateCount, Cardinality(Text))
        <5>1. r \in [1..n -> Chunks]
          BY <4>1
        <5> HIDE DEF n
        <5>2. n \in Nat
          BY <4>2 DEF n
        <5> QED
          BY <5>1, <5>2, FunctionIsSeq DEF Rankings
    <3> QED
      BY <3>1, <3>2, <3>3 DEF IInv, TypeOK
  <2>2. CASE "dense" \notin stages
    BY <2>2 DEF SearchDense, IInv, TypeOK
  <2> QED
    BY <2>1, <2>2
<1>2. asked' \in 0..question.queries
  <2>1. asked < question.queries
    BY DEF SearchDense, IInv, SearchInv
  <2> QED
    BY <2>1, QuestionType DEF SearchDense, IInv, TypeOK
<1>3. TypeOK'
  BY <1>1, <1>2 DEF SearchDense, IInv, TypeOK, Steps, ask_vars, draft_vars
<1>4. pc' \in {"keyword", "dense"} => asked' < question.queries
  BY DEF SearchDense
<1> QED
  BY <1>3, <1>4, SearchFrame DEF SearchDense, Searching

LEMMA FuseStep == ASSUME IInv, Fuse PROVE IInv'
<1>1. Found \subseteq Chunks
  BY DEF Found, Elements, IInv, TypeOK, Rankings
<1>2. DOMAIN fused' \subseteq Found
  BY DEF Fuse, Best
<1>3. TypeOK'
  BY <1>1, <1>2 DEF Fuse, IInv, TypeOK, Steps, ask_vars, draft_vars
<1> QED
  BY <1>3, SearchFrame DEF Fuse, Searching

LEMMA RankStep == ASSUME IInv, Rank PROVE IInv'
<1>1. relevance' \in Relevances \cup {NotReranked}
  BY DEF Rank, IInv, TypeOK
<1>2. candidates' \subseteq DOMAIN fused
  BY DEF Rank, Best, BestPerDocument
<1>3. supporting = {}
  BY DEF Rank, IInv, SearchInv, Searching
<1>4. TypeOK'
  BY <1>1, <1>2, <1>3 DEF Rank, IInv, TypeOK, Steps, ask_vars, draft_vars
<1> QED
  BY <1>4, SearchFrame DEF Rank, Searching

-----------------------------------------------------------------------------
(* Supporting chunks are rolled up to the QIDs they belong to. *)
LEMMA SupportStep == ASSUME IInv, Support PROVE IInv'
<1> USE DEF IInv, ask_vars, draft_vars, search_vars
<1>0. /\ Resolved' = Resolved /\ Unresolved' = Unresolved
      /\ Supporting(candidates)' = Supporting(candidates)
  BY QuestionStays, SupportStays DEF Support
<1>1. /\ pc = "gate" /\ pc' = "hits" /\ supporting' = Supporting(candidates)
      /\ abstained' = (supporting' = {}) /\ drafts = <<>> /\ Elements(drafts) = {}
  BY DEF Support, DraftsInv, Searching, Elements
<1>2. TypeOK'
  BY <1>1, SupportersAreCandidates DEF TypeOK, Support, Steps
<1>3. LoopInv' /\ FinishInv'
  BY <1>1 DEF LoopInv, FinishInv
<1>4. UnknownInv'
  BY <1>0, <1>1 DEF UnknownInv, Support, Searching, RollingUp
<1>5. DraftsInv' /\ SearchInv'
  BY <1>0, <1>1 DEF DraftsInv, SearchInv, Support, LookingUp, Searching, RollingUp
<1>6. RollUpInv'
  BY <1>0, <1>1 DEF RollUpInv, Support, LookingUp, Searching, RollingUp
<1>7. AnswerInv'
  BY <1>1 DEF AnswerInv, Support
<1> QED
  BY <1>2, <1>3, <1>4, <1>5, <1>6, <1>7

LEMMA NextHitStep == ASSUME IInv, NextHit PROVE IInv'
<1> USE DEF IInv, ask_vars, draft_vars, search_vars
<1>0. /\ Resolved' = Resolved /\ Unresolved' = Unresolved
      /\ Supporting(candidates)' = Supporting(candidates)
  BY QuestionStays, SupportStays DEF NextHit
<1>1. PICK c \in supporting :
        /\ cursor' = c
        /\ todo' = IF Owner[c].type = "qid" THEN <<Owner[c].id>> ELSE QidsFor[Owner[c].id]
        /\ supporting' = supporting \ {c}
  BY DEF NextHit
<1>2. pc = "hits" /\ pc' = "add" /\ c \in Supporting(candidates) /\ c \in Chunks
  BY DEF NextHit, RollUpInv, RollingUp, TypeOK
<1>3. /\ todo' \in Seq(Known) /\ todo' # <<>>
      /\ \A k \in Elements(todo') : Contract!BelongsTo(Owner[c], k)
  <2>1. CASE Owner[c].type = "qid"
    <3>1. Owner[c].id \in Known /\ todo' = <<Owner[c].id>>
      BY <1>1, <1>2, <2>1, OwnersType DEF Docs
    <3>2. Elements(todo') = {Owner[c].id}
      BY <3>1 DEF Elements
    <3> QED
      BY <2>1, <3>1, <3>2 DEF Contract!BelongsTo
  <2>2. CASE Owner[c].type # "qid"
    <3>1. Owner[c].type = "cve" /\ Owner[c].id \in Cves /\ todo' = QidsFor[Owner[c].id]
      BY <1>1, <1>2, <2>2, OwnersType DEF Docs
    <3> QED
      BY <1>2, <3>1, OwnersType DEF Contract!BelongsTo, Contract!Elements, Elements
  <2> QED
    BY <2>1, <2>2
<1>4. TypeOK'
  BY <1>1, <1>2, <1>3 DEF TypeOK, NextHit, Steps
<1>5. LoopInv'
  BY <1>0, <1>1, <1>2, <1>3 DEF LoopInv, NextHit
<1>6. UnknownInv' /\ DraftsInv'
  BY <1>0, <1>2 DEF UnknownInv, DraftsInv, NextHit, Searching, RollingUp
<1>7. SearchInv' /\ FinishInv'
  BY <1>0, <1>1, <1>2 DEF SearchInv, FinishInv, NextHit, LookingUp, Searching, RollingUp
<1>8. RollUpInv'
  BY <1>0, <1>1, <1>2 DEF RollUpInv, NextHit, LookingUp, Searching, RollingUp
<1>9. AnswerInv'
  BY <1>2 DEF AnswerInv, NextHit
<1> QED
  BY <1>4, <1>5, <1>6, <1>7, <1>8, <1>9

LEMMA AddHitStep == ASSUME IInv, AddHit PROVE IInv'
<1> USE DEF IInv, ask_vars, draft_vars, search_vars
<1>0. /\ Resolved' = Resolved /\ Unresolved' = Unresolved
      /\ Supporting(candidates)' = Supporting(candidates)
  BY QuestionStays, SupportStays DEF AddHit
<1> DEFINE k == Head(todo)
           doc == Owner[cursor]
<1>1. /\ pc = "add" /\ todo \in Seq(Known) /\ todo # <<>>
      /\ cursor \in Supporting(candidates) /\ cursor \in Chunks
      /\ \A l \in Elements(todo) : Contract!BelongsTo(doc, l)
  BY SupportersAreCandidates DEF AddHit, LoopInv, TypeOK
<1>2. /\ k \in Known /\ Tail(todo) \in Seq(Known)
      /\ Elements(todo) = {k} \cup Elements(Tail(todo))
  BY <1>1, ElementsOfTail
<1>3. doc \in Docs /\ Contract!BelongsTo(doc, k)
  BY <1>1, <1>2, OwnersType
<1>4. /\ drafts' \in Seq(Known) /\ drafts' # <<>>
      /\ Elements(drafts') = Elements(drafts) \cup {k}
  <2>1. drafts' = Entered(k) /\ drafts \in Seq(Known)
    BY DEF AddHit, TypeOK
  <2> QED
    BY <1>2, <2>1, ElementsOfAppend, ElementsOfSeq DEF Entered
<1>5. /\ hits' \in [Known -> Seq(Chunks)]
      /\ hits'[k] # <<>> /\ Elements(hits'[k]) = Elements(hits[k]) \cup {cursor}
      /\ \A l \in Known \ {k} : hits'[l] = hits[l]
  <2>1. hits' = [hits EXCEPT ![k] = Append(@, cursor)] /\ hits[k] \in Seq(Chunks)
    BY <1>2 DEF AddHit, TypeOK
  <2>2. /\ Append(hits[k], cursor) \in Seq(Chunks) /\ Append(hits[k], cursor) # <<>>
        /\ Elements(Append(hits[k], cursor)) = Elements(hits[k]) \cup {cursor}
    <3>1. cursor \in Chunks /\ hits[k] \in Seq(Chunks)
      BY <1>1, <2>1
    <3> HIDE DEF k
    <3> QED
      BY <3>1, ElementsOfAppend
  <2>3. hits'[k] = Append(hits[k], cursor) /\ \A l \in Known \ {k} : hits'[l] = hits[l]
    BY <1>2, <2>1 DEF TypeOK
  <2>4. hits' \in [Known -> Seq(Chunks)]
    BY <1>2, <2>1, <2>2 DEF TypeOK
  <2> QED
    BY <2>2, <2>3, <2>4
<1>6. /\ cves' \in [Known -> Seq(Cves)]
      /\ \A l \in Known : \A c \in Elements(cves'[l]) : l \in QidsOf(c)
  <2>1. CASE doc.type = "cve" /\ doc.id \notin Elements(cves[k])
    <3>1. cves' = [cves EXCEPT ![k] = Append(@, doc.id)] /\ cves[k] \in Seq(Cves)
      BY <1>2, <2>1 DEF AddHit, TypeOK
    <3>2. doc.id \in Cves /\ k \in QidsOf(doc.id)
      BY <1>3, <2>1 DEF Docs, Contract!BelongsTo, QidsOf, Elements, Contract!Elements
    <3>3. /\ Append(cves[k], doc.id) \in Seq(Cves)
          /\ Elements(Append(cves[k], doc.id)) = Elements(cves[k]) \cup {doc.id}
      BY <3>1, <3>2, ElementsOfAppend
    <3>4. cves'[k] = Append(cves[k], doc.id) /\ \A l \in Known \ {k} : cves'[l] = cves[l]
      BY <1>2, <3>1 DEF TypeOK
    <3>5. cves' \in [Known -> Seq(Cves)]
      BY <1>2, <3>1, <3>3 DEF TypeOK
    <3> QED
      BY ZenonT(30), <3>2, <3>3, <3>4, <3>5 DEF RollUpInv
  <2>2. CASE ~(doc.type = "cve" /\ doc.id \notin Elements(cves[k]))
    BY <2>2 DEF AddHit, TypeOK, RollUpInv
  <2> QED
    BY <2>1, <2>2
<1>7. /\ todo' = Tail(todo)
      /\ pc' = IF Tail(todo) = <<>> THEN "hits" ELSE "add"
      /\ UNCHANGED <<ask_vars, rest, cursor, unknown, search_vars, supporting,
                     abstained, answer>>
  BY DEF AddHit
<1> HIDE DEF k, doc
<1>8. TypeOK'
  BY <1>2, <1>4, <1>5, <1>6, <1>7 DEF TypeOK, Steps
<1>9. LoopInv'
  BY <1>0, <1>1, <1>2, <1>7 DEF LoopInv, doc
<1>10. UnknownInv' /\ DraftsInv'
  BY <1>0, <1>1, <1>7 DEF UnknownInv, DraftsInv, Searching, RollingUp
<1>11. SearchInv' /\ FinishInv'
  BY <1>0, <1>1, <1>4, <1>7 DEF SearchInv, FinishInv, LookingUp, Searching, RollingUp
<1>12. RollUpInv'
  <2>1. \A l \in Elements(drafts') : hits'[l] # <<>>
    BY <1>1, <1>4, <1>5, ElementsOfSeq DEF RollUpInv, RollingUp, TypeOK
  <2>2. \A l \in Known : \A x \in Elements(hits'[l]) :
            x \in Supporting(candidates)' /\ Contract!BelongsTo(Owner[x], l)
    <3>1. \A l \in Known : \A x \in Elements(hits[l]) :
              x \in Supporting(candidates)' /\ Contract!BelongsTo(Owner[x], l)
      BY <1>0 DEF RollUpInv
    <3>2. cursor \in Supporting(candidates)' /\ Contract!BelongsTo(Owner[cursor], k)
      BY <1>0, <1>1, <1>3 DEF doc
    <3> QED
      BY <1>5, <3>1, <3>2
  <2> QED
    BY <1>0, <1>1, <1>6, <1>7, <2>1, <2>2 DEF RollUpInv, LookingUp, Searching, RollingUp
<1>13. AnswerInv'
  BY <1>1, <1>7 DEF AnswerInv
<1> QED
  BY <1>8, <1>9, <1>10, <1>11, <1>12, <1>13

LEMMA EndOfHitsStep == ASSUME IInv, EndOfHits PROVE IInv'
<1> USE DEF IInv, ask_vars, draft_vars, search_vars
<1>0. /\ Resolved' = Resolved /\ Unresolved' = Unresolved
      /\ Supporting(candidates)' = Supporting(candidates)
  BY QuestionStays, SupportStays DEF EndOfHits
<1>1. pc = "hits" /\ pc' = "finish" /\ Searched
  BY DEF EndOfHits, SearchInv, RollUpInv, Searched, RollingUp
<1>2. TypeOK'
  BY DEF TypeOK, EndOfHits, Steps
<1>3. LoopInv' /\ DraftsInv'
  BY <1>1 DEF LoopInv, DraftsInv, Searching
<1>4. UnknownInv' /\ SearchInv'
  BY <1>0, <1>1 DEF UnknownInv, SearchInv, EndOfHits, LookingUp, Searching, RollingUp
<1>5. FinishInv'
  BY <1>0, <1>1 DEF FinishInv, Searched, EndOfHits
<1>6. RollUpInv'
  BY <1>0, <1>1 DEF RollUpInv, EndOfHits, LookingUp, Searching, RollingUp
<1>7. AnswerInv'
  BY <1>1 DEF AnswerInv, EndOfHits
<1> QED
  BY <1>2, <1>3, <1>4, <1>5, <1>6, <1>7

-----------------------------------------------------------------------------
LEMMA EnteredIsDistinct ==
  ASSUME drafts \in Seq(Known), Distinct(drafts), NEW k \in Known
  PROVE  Distinct(Entered(k))
<1>1. CASE k \in Elements(drafts)
  BY <1>1 DEF Entered
<1>2. CASE k \notin Elements(drafts)
  <2>1. /\ Len(drafts) \in Nat /\ DOMAIN drafts = 1..Len(drafts)
        /\ DOMAIN Append(drafts, k) = 1..(Len(drafts) + 1)
        /\ \A i \in 1..(Len(drafts) + 1) :
              Append(drafts, k)[i] = IF i = Len(drafts) + 1 THEN k ELSE drafts[i]
    OBVIOUS
  <2>2. \A i \in 1..Len(drafts) : drafts[i] # k
    BY <1>2, <2>1 DEF Elements
  <2>3. Distinct(Append(drafts, k))
    BY <2>1, <2>2 DEF Distinct
  <2> QED
    BY <1>2, <2>3 DEF Entered
<1> QED
  BY <1>1, <1>2

LEMMA DistinctStep ==
  ASSUME IInv, Distinct(drafts), [Next]_vars
  PROVE  Distinct(drafts')
<1>1. /\ drafts \in Seq(Known) /\ todo \in Seq(Known)
      /\ pc \in {"draft", "add"} => todo # <<>>
  BY DEF IInv, TypeOK, LoopInv
<1>2. drafts' = drafts \/ \E k \in Known : drafts' = Entered(k)
  <2>1. CASE Draft \/ AddHit
    <3>1. drafts' = Entered(Head(todo)) /\ pc \in {"draft", "add"}
      BY <2>1 DEF Draft, AddHit
    <3> QED
      BY <1>1, <3>1, ElementsOfTail
  <2>2. CASE LookUpQid
    BY <2>2 DEF LookUpQid
  <2>3. CASE ~(Draft \/ LookUpQid \/ AddHit)
    BY <2>3 DEF Next, vars, draft_vars, Construct, LookUpCve, EndOfCves, Choose, SearchKeyword,
       SearchDense, Fuse, Rank, Support, NextHit, EndOfHits, Finish, Ended
  <2> QED
    BY <2>1, <2>2, <2>3
<1> QED
  BY <1>1, <1>2, EnteredIsDistinct

(* What has as many places as a list without repeats has none either. *)
LEMMA SortedIsDistinct ==
  ASSUME drafts \in Seq(Known), Distinct(drafts),
         NEW m \in [DOMAIN drafts -> Elements(drafts)], Elements(m) = Elements(drafts)
  PROVE  Distinct(m)
<1> DEFINE D == DOMAIN drafts
           E == Elements(drafts)
<1>1. IsFiniteSet(D)
  <2>1. Len(drafts) \in Nat /\ D = 1..Len(drafts)
    OBVIOUS
  <2>2. 1 \in Int /\ Len(drafts) \in Int
    BY <2>1
  <2>3. IsFiniteSet(1..Len(drafts))
    BY ONLY <2>2, FS_Interval, Zenon
  <2> QED
    BY <2>1, <2>3
<1>2. drafts \in Surjection(D, E) /\ drafts \in Injection(D, E)
  <2>1. drafts \in [D -> E]
    BY DEF Elements
  <2>2. \A e \in E : \E i \in D : drafts[i] = e
    BY DEF Elements
  <2>3. \A i, j \in D : drafts[i] = drafts[j] => i = j
    BY DEF Distinct
  <2> HIDE DEF D, E
  <2> QED
    BY <2>1, <2>2, <2>3 DEF Surjection, Injection, IsInjective
<1>3. Cardinality(E) = Cardinality(D)
  BY <1>1, <1>2, FS_Surjection
<1>4. m \in Surjection(D, E)
  BY DEF Surjection, Elements
<1>5. m \in Injection(D, E)
  BY <1>1, <1>3, <1>4, FS_Surjection
<1>6. DOMAIN m = D
  OBVIOUS
<1>7. \A i, j \in D : m[i] = m[j] => i = j
  BY <1>5 DEF Injection, IsInjective
<1> QED
  BY <1>6, <1>7 DEF Distinct

(* The matches are the drafts in some order. *)
LEMMA DraftsAreSorted ==
  ASSUME IInv, Finish
  PROVE  \E m \in Seq(Known) :
            /\ Elements(m) = Elements(drafts)
            /\ Distinct(drafts) => Distinct(m)
            /\ answer' = [matches |-> m, cves |-> cves, hits |-> hits,
                          unknown |-> unknown, abstained |-> abstained]
<1>1. PICK m \in [DOMAIN drafts -> Elements(drafts)] :
        /\ Elements(m) = Elements(drafts)
        /\ answer' = [matches |-> m, cves |-> cves, hits |-> hits,
                      unknown |-> unknown, abstained |-> abstained]
  BY DEF Finish
<1>2. Len(drafts) \in Nat /\ DOMAIN drafts = 1..Len(drafts) /\ Elements(drafts) \subseteq Known
  BY ElementsOfSeq DEF IInv, TypeOK
<1>3. m \in Seq(Known)
  BY <1>2, FunctionIsSeq
<1>4. Distinct(drafts) => Distinct(m)
  BY <1>1, SortedIsDistinct DEF IInv, TypeOK
<1> QED
  BY <1>1, <1>3, <1>4

(* The answer is made of the drafts. *)
LEMMA FinishStep == ASSUME IInv, Finish PROVE IInv'
<1> USE DEF IInv, ask_vars, draft_vars, search_vars
<1>0. /\ Resolved' = Resolved /\ Unresolved' = Unresolved
      /\ Supporting(candidates)' = Supporting(candidates)
  BY QuestionStays, SupportStays DEF Finish
<1>1. PICK m \in Seq(Known) :
        /\ Elements(m) = Elements(drafts)
        /\ answer' = [matches |-> m, cves |-> cves, hits |-> hits,
                      unknown |-> unknown, abstained |-> abstained]
  BY DraftsAreSorted
<1>2. pc = "finish" /\ pc' = "done" /\ UNCHANGED <<draft_vars, unknown, abstained>>
  BY DEF Finish
<1>4. answer' \in Answers
  BY <1>1 DEF Answers, TypeOK
<1>5. TypeOK'
  BY <1>4 DEF TypeOK, Finish, Steps
<1>6. LoopInv' /\ DraftsInv'
  BY <1>2 DEF LoopInv, DraftsInv, Searching
<1>7. UnknownInv' /\ SearchInv'
  BY <1>0, <1>2 DEF UnknownInv, SearchInv, LookingUp, Searching, RollingUp
<1>8. FinishInv'
  BY <1>0, <1>2 DEF FinishInv, Identified, Searched, Finish
<1>9. RollUpInv'
  BY <1>0, <1>2 DEF RollUpInv, Finish, LookingUp, Searching, RollingUp
<1>10. AnswerInv'
  BY <1>1, <1>2, <1>4 DEF AnswerInv
<1> QED
  BY <1>5, <1>6, <1>7, <1>8, <1>9, <1>10

LEMMA StutterStep == ASSUME IInv, UNCHANGED vars PROVE IInv'
<1> USE DEF IInv, vars, ask_vars, draft_vars, search_vars
<1>0. /\ Resolved' = Resolved /\ Unresolved' = Unresolved
      /\ Supporting(candidates)' = Supporting(candidates)
  BY QuestionStays, SupportStays
<1>1. TypeOK' /\ LoopInv'
  BY <1>0 DEF TypeOK, LoopInv
<1>2. UnknownInv' /\ DraftsInv' /\ SearchInv'
  BY <1>0 DEF UnknownInv, DraftsInv, SearchInv, Mapped, Strange
<1>3. FinishInv' /\ RollUpInv' /\ AnswerInv'
  BY <1>0 DEF FinishInv, Identified, Searched, RollUpInv, AnswerInv
<1> QED
  BY <1>1, <1>2, <1>3

(* IInv is inductive: it holds in every state of a call. *)
THEOREM Invariance == Spec => []IInv
<1>1. ASSUME IInv, [Next]_vars PROVE IInv'
  BY <1>1, ConstructStep, LookUpCveStep, DraftStep, EndOfCvesStep, LookUpQidStep, ChooseStep,
     SearchKeywordStep, SearchDenseStep, FuseStep, RankStep, SupportStep, NextHitStep,
     AddHitStep, EndOfHitsStep, FinishStep, StutterStep DEF Next, Ended
<1> QED
  BY InitIInv, <1>1, PTL DEF Spec

-----------------------------------------------------------------------------
(* Every variable keeps its type, whatever search returns. *)
THEOREM TypeCorrect == Spec => []TypeOK
<1>1. IInv => TypeOK
  BY DEF IInv
<1> QED
  BY <1>1, Invariance, PTL

(* Every chunk under a match reaches the floor and stays within the margin  *)
(* of the best candidate, for any scores: _supporting decides, and rolling  *)
(* up adds no other chunk.                                                  *)
THEOREM FloorHolds == Spec => []MatchesClearTheFloor
<1>1. ASSUME IInv PROVE MatchesClearTheFloor
  <2> SUFFICES ASSUME answer # Pending, NEW k \in Elements(answer.matches),
                      NEW c \in Elements(answer.hits[k]), Gate(candidates) # "none"
               PROVE  /\ Score(candidates, c) >= Floor(candidates)
                      /\ \A d \in Carriers(candidates) :
                             Score(candidates, c) >= Score(candidates, d) - Margin(candidates)
    BY DEF MatchesClearTheFloor
  <2>1. k \in Known /\ c \in Elements(hits[k])
    BY <1>1, ElementsOfSeq DEF IInv, AnswerInv, TypeOK
  <2>2. c \in Supporting(candidates)
    BY <1>1, <2>1 DEF IInv, RollUpInv
  <2> QED
    BY <2>2 DEF Supporting
<1> QED
  BY <1>1, Invariance, PTL

LEMMA SameElements ==
  ASSUME NEW s
  PROVE  Contract!Elements(s) = Elements(s)
BY DEF Contract!Elements, Elements

LEMMA DraftsAreDistinct == Spec => []Distinct(drafts)
<1>1. Init => Distinct(drafts)
  BY DEF Init, Distinct
<1>2. ASSUME IInv, Distinct(drafts), [Next]_vars PROVE Distinct(drafts)'
  BY <1>2, DistinctStep DEF Distinct
<1> QED
  BY <1>1, <1>2, Invariance, PTL DEF Spec

(* What IInv says of the end of a call is what the contract promises. *)
LEMMA AnswerIsPromised ==
  ASSUME IInv, pc = "finish", NEW m \in Seq(Known), Elements(m) = Elements(drafts), Distinct(m)
  PROVE  Contract!Promised(question, [matches |-> m, cves |-> cves, hits |-> hits,
                                      unknown |-> unknown, abstained |-> abstained])
<1> DEFINE a == [matches |-> m, cves |-> cves, hits |-> hits,
                 unknown |-> unknown, abstained |-> abstained]
<1>1. /\ a.matches = m /\ a.cves = cves /\ a.hits = hits
      /\ a.unknown = Unresolved /\ a.abstained = abstained
  BY DEF IInv, UnknownInv
<1> HIDE DEF a
<1>2. /\ Elements(m) \subseteq Known
      /\ (m = <<>> <=> Elements(m) = {}) /\ (drafts = <<>> <=> Elements(drafts) = {})
  BY ElementsOfSeq DEF IInv, TypeOK
<1>3. Contract!Elements(a.matches) = Elements(drafts)
  BY <1>1, SameElements
<1>4. Contract!Coherent(a)
  <2> SUFFICES ASSUME NEW k \in Known
               PROVE  /\ \A c \in Contract!Elements(cves[k]) : k \in Contract!Elements(QidsFor[c])
                      /\ \A x \in Contract!Elements(hits[k]) : Contract!BelongsTo(Owner[x], k)
    <3>1. \A i, j \in DOMAIN a.matches : a.matches[i] = a.matches[j] => i = j
      BY <1>1 DEF Distinct
    <3>2. \A k \in Contract!Elements(a.matches) : k \in Known
      BY <1>2, <1>3
    <3> QED
      BY <1>1, <3>1, <3>2 DEF Contract!Coherent
  <2>1. \A c \in Elements(cves[k]) : k \in Elements(QidsFor[c])
    BY DEF IInv, RollUpInv, QidsOf
  <2>2. \A x \in Elements(hits[k]) : Contract!BelongsTo(Owner[x], k)
    BY DEF IInv, RollUpInv
  <2> QED
    BY <2>1, <2>2, SameElements
<1>5. \/ Resolved # {} /\ Contract!ByIdentifier(question, a)
      \/ Contract!BySearch(question, a)
  <2>1. CASE Identified /\ Resolved # {}
    BY <1>1, <1>2, <1>3, <2>1 DEF Identified, Resolved, Contract!ByIdentifier
  <2>2. CASE Identified /\ Resolved = {}
    BY <1>1, <1>2, <1>3, <2>2 DEF Identified, Resolved, Contract!BySearch
  <2>3. CASE Searched
    BY <1>1, <1>2, <1>3, <2>3 DEF Searched, Resolved, Contract!BySearch
  <2> QED
    BY <2>1, <2>2, <2>3 DEF IInv, FinishInv
<1> QED
  BY <1>1, <1>4, <1>5 DEF Contract!Promised, Resolved, Unresolved, a

(* retrieve implements RetrieverContract: whatever full-text search and the *)
(* models return, a resolved identifier decides alone, every match is a row *)
(* of the artifact with only its own CVEs and chunks, and a search without  *)
(* a match abstains.                                                        *)
THEOREM RetrieverKeepsContract == Spec => KeepsContract
<1>1. Init => Contract!Init
  BY DEF Init, Contract!Init
<1>2. ASSUME IInv, Distinct(drafts), [Next]_vars
      PROVE  [Contract!Answer]_<<question, answer>>
  <2>1. CASE Finish
    <3>1. answer = Pending /\ question' = question /\ pc = "finish"
      BY <1>2, <2>1 DEF Finish, IInv, AnswerInv, ask_vars
    <3>2. answer' # Pending
      BY <1>2, <2>1, FinishStep DEF IInv, AnswerInv, Finish
    <3>3. PICK m \in Seq(Known) :
            /\ Elements(m) = Elements(drafts) /\ Distinct(m)
            /\ answer' = [matches |-> m, cves |-> cves, hits |-> hits,
                          unknown |-> unknown, abstained |-> abstained]
      BY <1>2, <2>1, DraftsAreSorted
    <3>4. Contract!Promised(question, answer')
      BY <1>2, <3>1, <3>3, AnswerIsPromised
    <3> QED
      BY <3>1, <3>2, <3>4 DEF Contract!Answer
  <2>2. CASE ~Finish
    BY <1>2, <2>2 DEF Next, vars, ask_vars, Construct, LookUpCve, Draft, EndOfCves, LookUpQid,
       Choose, SearchKeyword, SearchDense, Fuse, Rank, Support, NextHit, AddHit, EndOfHits, Ended
  <2> QED
    BY <2>1, <2>2
<1> QED
  BY <1>1, <1>2, Invariance, DraftsAreDistinct, PTL DEF Spec, KeepsContract, Contract!Spec
-----------------------------------------------------------------------------
(* Chunks are in a strict order, and a score that is whole has a best chunk *)

Whole(score, S) == S \subseteq Chunks /\ \A c \in S : score[c] \in Int
OnTop(b, S, score) == b \in S /\ \A d \in S \ {b} : Before(score, b, d)

LEMMA BeforeIsAnOrder ==
  ASSUME NEW S, NEW score, Whole(score, S)
  PROVE  /\ \A c \in S : ~Before(score, c, c)
         /\ \A c, d \in S : c # d => Before(score, c, d) \/ Before(score, d, c)
         /\ \A c, d \in S : ~(Before(score, c, d) /\ Before(score, d, c))
         /\ \A c, d, e \in S : Before(score, c, d) /\ Before(score, d, e) => Before(score, c, e)
         /\ \A c, d \in S : Before(score, c, d) => score[c] >= score[d]
BY DEF Whole, Before

LEMMA BestExists ==
  ASSUME NEW S, NEW score, Whole(score, S), S # {}
  PROVE  \E b \in S : OnTop(b, S, score)
<1> DEFINE R == {p \in S \X S : Before(score, p[2], p[1])}
<1>1. IsFiniteSet(S)
  BY FS_Subset DEF Whole
<1>2. /\ \A x \in S : <<x, x>> \notin R
      /\ \A x, y, z \in S : <<x, y>> \in R /\ <<y, z>> \in R => <<x, z>> \in R
  BY BeforeIsAnOrder
<1>3. \A b, d \in S : <<b, d>> \notin R => ~Before(score, d, b)
  OBVIOUS
<1> HIDE DEF R
<1>4. PICK b \in S : \A d \in S : <<b, d>> \notin R
  BY <1>1, <1>2, MaximalElement
<1>5. \A d \in S \ {b} : Before(score, b, d)
  BY <1>3, <1>4, BeforeIsAnOrder
<1> QED
  BY <1>5 DEF OnTop

(* Neither one slot per document nor the cap takes the best chunk away. *)
LEMMA TopIsKept ==
  ASSUME NEW S, NEW score, Whole(score, S), NEW b, OnTop(b, S, score), NEW n \in Nat \ {0}
  PROVE  b \in Best(n, BestPerDocument(S, score), score)
<1> DEFINE T == BestPerDocument(S, score)
<1>1. b \in T /\ T \subseteq S
  BY DEF OnTop, BestPerDocument
<1>2. {d \in T \ {b} : Before(score, d, b)} = {}
  BY <1>1, BeforeIsAnOrder DEF OnTop
<1>3. Cardinality({d \in T \ {b} : Before(score, d, b)}) = 0
  BY <1>2, FS_EmptySet
<1> HIDE DEF T
<1>4. b \in Best(n, T, score)
  BY <1>1, <1>3 DEF Best
<1> QED
  BY <1>4 DEF T

LEMMA OnePerDocument ==
  ASSUME NEW S, NEW score, Whole(score, S), NEW n
  PROVE  /\ Best(n, BestPerDocument(S, score), score) \subseteq S
         /\ \A c, d \in Best(n, BestPerDocument(S, score), score) :
               Owner[c] = Owner[d] => c = d
<1>1. BestPerDocument(S, score) \subseteq S
  BY DEF BestPerDocument
<1>2. \A c, d \in BestPerDocument(S, score) : Owner[c] = Owner[d] => c = d
  BY BeforeIsAnOrder DEF BestPerDocument
<1> QED
  BY <1>1, <1>2 DEF Best

LEMMA OrderIsWhole ==
  ASSUME TypeOK, FusedInv, NEW r \in Relevances \cup {NotReranked}
  PROVE  Whole(Order(r), DOMAIN fused)
<1>1. DOMAIN fused \subseteq Chunks /\ \A c \in DOMAIN fused : fused[c] \in Int
  BY DEF TypeOK, FusedInv
<1>2. r # NotReranked => r \in [Chunks -> Int]
  BY SearchAssumption
<1> QED
  BY <1>1, <1>2 DEF Whole, Order

-----------------------------------------------------------------------------
(* Rank fusion *)

Part(i, c) == Unit \div (FusionK + CHOOSE r \in DOMAIN rankings[i] : rankings[i][r] = c)
Finding(c) == {i \in DOMAIN rankings : c \in Elements(rankings[i])}

LEMMA FusedScoreIs ==
  ASSUME NEW c
  PROVE  FusedScore(c) = SumFunctionOnSet([i \in Finding(c) |-> Part(i, c)], Finding(c))
BY DEF FusedScore, Part, Finding, SumFunction

LEMMA WholeParts ==
  ASSUME NEW u \in Nat, NEW d \in Nat, d > 0, u % d = 0
  PROVE  u \div d \in Int /\ u = d * (u \div d)
OBVIOUS

LEMMA UnitSplits ==
  ASSUME NEW i \in 1..CandidateCount, NEW j \in 1..CandidateCount, i < j
  PROVE  /\ Unit \div (FusionK + i) \in Int
         /\ Unit \div (FusionK + i) > Unit \div (FusionK + j)
<1> DEFINE x == FusionK + i
           y == FusionK + j
           q == Unit \div x
           p == Unit \div y
<1>1. CandidateCount \in Nat /\ FusionK \in Nat /\ Unit \in Nat /\ Unit > 0
  BY SettingsAssumption, UnitAssumption
<1>2. x \in Nat /\ y \in Nat /\ 0 < x /\ x < y
  BY <1>1
<1>3. Unit % x = 0 /\ Unit % y = 0
  BY UnitAssumption
<1>4. q \in Int /\ p \in Int /\ Unit = x * q /\ Unit = y * p
  <2> HIDE DEF x, y
  <2> QED
    BY <1>1, <1>2, <1>3, WholeParts
<1> HIDE DEF x, y, q, p
<1>5. q > p
  <2> SUFFICES ASSUME q <= p PROVE FALSE
    BY <1>4
  <2>1. p > 0
    BY <1>1, <1>2, <1>4
  <2>2. y * p = x * p + (y - x) * p
    BY <1>1, <1>2, <1>4
  <2>3. (y - x) * p > 0
    BY <1>1, <1>2, <1>4, <2>1
  <2>4. x * q <= x * p
    BY <1>1, <1>2, <1>4
  <2>5. x * q \in Int /\ x * p \in Int /\ (y - x) * p \in Int
    BY <1>1, <1>2, <1>4
  <2> QED
    BY <1>4, <2>2, <2>3, <2>4, <2>5
<1> QED
  BY <1>4, <1>5 DEF q, p, x, y

LEMMA FusedScoreIsInt ==
  ASSUME rankings \in Seq(Rankings), NEW c
  PROVE  FusedScore(c) \in Int
<1> DEFINE f == [i \in Finding(c) |-> Part(i, c)]
<1>1. Len(rankings) \in Nat /\ DOMAIN rankings = 1..Len(rankings)
      /\ \A i \in 1..Len(rankings) : rankings[i] \in Seq(Chunks)
  BY DEF Rankings
<1>2. IsFiniteSet(Finding(c))
  <2>1. IsFiniteSet(1..Len(rankings))
    BY <1>1, FS_Interval
  <2>2. Finding(c) \subseteq 1..Len(rankings)
    BY <1>1 DEF Finding
  <2> QED
    BY <2>1, <2>2, FS_Subset
<1>3. ASSUME NEW i \in Finding(c) PROVE Part(i, c) \in Int
  <2> DEFINE r == CHOOSE r \in DOMAIN rankings[i] : rankings[i][r] = c
  <2>1. \E k \in DOMAIN rankings[i] : rankings[i][k] = c
    BY DEF Finding, Elements
  <2>2. r \in DOMAIN rankings[i]
    BY <2>1
  <2>3. rankings[i] \in Seq(Chunks)
    BY <1>1 DEF Finding
  <2> HIDE DEF r
  <2>4. r \in Nat
    BY <2>2, <2>3
  <2>5. FusionK + r \in Nat /\ FusionK + r > 0 /\ Unit \in Nat
    BY <2>4, SettingsAssumption, UnitAssumption
  <2>6. \A u, d \in Nat : d > 0 => u \div d \in Int
    OBVIOUS
  <2>7. Unit \div (FusionK + r) \in Int
    BY <2>5, <2>6
  <2> QED
    BY <2>7 DEF Part, r
<1>4. \A i \in Finding(c) : f[i] \in Int
  BY <1>3
<1> HIDE DEF f
<1>5. SumFunctionOnSet(f, Finding(c)) \in Int
  BY <1>2, <1>4, SumIsInt
<1> QED
  BY <1>5, FusedScoreIs DEF f

LEMMA SeqShape ==
  ASSUME NEW S, NEW s \in Seq(S)
  PROVE  Len(s) \in Nat /\ DOMAIN s = 1..Len(s) /\ \A i \in 1..Len(s) : s[i] \in S
OBVIOUS

LEMMA OnlyOne ==
  ASSUME NEW S, NEW s \in Seq(S), Len(s) = 1
  PROVE  DOMAIN s = {1} /\ s[1] \in S
<1>1. DOMAIN s = 1..Len(s) /\ \A i \in 1..Len(s) : s[i] \in S
  BY SeqShape
<1>2. 1..1 = {1}
  OBVIOUS
<1> QED
  BY <1>1, <1>2

(* If one dense ranking is all there is, fusion keeps its order. *)
LEMMA AloneScore ==
  ASSUME rankings \in Seq(Rankings), Len(rankings) = 1, Distinct(rankings[1]),
         NEW j \in DOMAIN rankings[1]
  PROVE  FusedScore(rankings[1][j]) = Unit \div (FusionK + j)
<1> DEFINE c == rankings[1][j]
           f == [i \in Finding(c) |-> Part(i, c)]
<1>1. DOMAIN rankings = {1}
  OBVIOUS
<1>2. Finding(c) = {1}
  BY <1>1 DEF Finding, Elements
<1>3. (CHOOSE r \in DOMAIN rankings[1] : rankings[1][r] = c) = j
  BY DEF Distinct
<1>4. f[1] = Unit \div (FusionK + j)
  BY <1>2, <1>3 DEF Part
<1>5. f[1] \in Int
  <2> HIDE DEF c, f
  <2>0. rankings[1] \in Rankings
    BY OnlyOne
  <2>1. rankings[1] \in Seq(Chunks)
    BY <2>0 DEF Rankings
  <2>2. j \in Nat
    BY <2>1
  <2>3. FusionK + j \in Nat /\ FusionK + j > 0 /\ Unit \in Nat
    BY <2>2, SettingsAssumption, UnitAssumption
  <2>4. \A u, d \in Nat : d > 0 => u \div d \in Int
    OBVIOUS
  <2> QED
    BY <1>4, <2>3, <2>4
<1>6. FusedScore(c) = SumFunctionOnSet(f, {1})
  BY <1>2, FusedScoreIs
<1> HIDE DEF c, f
<1>7. SumFunctionOnSet(f, {1}) = f[1]
  <2>1. IsFiniteSet({1}) /\ {1} \ {1} = {}
    BY FS_Singleton
  <2>2. SumFunctionOnSet(f, {1}) = f[1] + SumFunctionOnSet(f, {})
    BY <1>5, <2>1, SumWithout
  <2> QED
    BY <1>5, <2>2, SumOfNone
<1> QED
  BY <1>4, <1>6, <1>7 DEF c

(* The order of one dense ranking: nearer chunks first, none twice. *)
LEMMA NearestIs ==
  ASSUME NEW s \in Cosines, NEW r \in Nearest(s)
  PROVE  /\ r \in Rankings /\ Len(r) <= CandidateCount /\ Elements(r) \subseteq Text
         /\ DOMAIN r \subseteq 1..CandidateCount
         /\ Distinct(r)
         /\ \A i, j \in DOMAIN r : i < j => s[r[i]] >= s[r[j]]
<1> DEFINE n == Lesser(CandidateCount, Cardinality(Text))
<1>1. n \in Nat /\ n <= CandidateCount /\ CandidateCount \in Nat
  <2>1. Cardinality(Text) \in Nat
    BY FS_Subset, FS_CardinalityType
  <2>2. CandidateCount \in Nat
    BY SettingsAssumption
  <2> QED
    BY <2>1, <2>2 DEF Lesser
<1>2. /\ r \in [1..n -> Text]
      /\ \A i, j \in DOMAIN r : i < j => s[r[i]] > s[r[j]] \/ (s[r[i]] = s[r[j]] /\ r[i] < r[j])
  BY DEF Nearest
<1> HIDE DEF n
<1>3. s \in [Text -> Int]
  BY SearchAssumption
<1>4. DOMAIN r = 1..n /\ \A i \in 1..n : r[i] \in Nat /\ s[r[i]] \in Int
  BY <1>2, <1>3
<1>5. Distinct(r)
  <2> SUFFICES ASSUME NEW i \in 1..n, NEW j \in 1..n, r[i] = r[j], i < j PROVE FALSE
    BY <1>1, <1>4 DEF Distinct
  <2> QED
    BY <1>2, <1>4
<1>6. \A i, j \in DOMAIN r : i < j => s[r[i]] >= s[r[j]]
  BY <1>2, <1>4
<1>7. r \in Rankings /\ Len(r) = n
  <2>1. r \in [1..n -> Chunks]
    BY <1>2
  <2> QED
    BY <1>1, <2>1, FunctionIsSeq DEF Rankings
<1>8. Elements(r) \subseteq Text
  BY <1>2 DEF Elements
<1> QED
  BY <1>1, <1>4, <1>5, <1>6, <1>7, <1>8

LEMMA FusedByCosine ==
  ASSUME rankings \in Seq(Rankings), Len(rankings) = 1, NEW s \in Cosines,
         rankings[1] \in Nearest(s), NEW score, score = [c \in Found |-> FusedScore(c)],
         NEW c \in Found, NEW d \in Found, Before(score, c, d)
  PROVE  c \in Text /\ s[c] >= s[d]
<1> DEFINE r == rankings[1]
<1>1. Found = Elements(r)
  <2>1. DOMAIN rankings = {1}
    OBVIOUS
  <2> QED
    BY <2>1 DEF Found
<1>2. PICK i \in DOMAIN r : r[i] = c
  BY <1>1 DEF Elements
<1>3. PICK j \in DOMAIN r : r[j] = d
  BY <1>1 DEF Elements
<1>4. /\ Elements(r) \subseteq Text /\ DOMAIN r \subseteq 1..CandidateCount /\ Distinct(r)
      /\ \A k, l \in DOMAIN r : k < l => s[r[k]] >= s[r[l]]
  BY NearestIs
<1>5. /\ score[c] = Unit \div (FusionK + i)
      /\ score[d] = Unit \div (FusionK + j)
  <2>1. score[c] = FusedScore(r[i]) /\ score[d] = FusedScore(r[j])
    BY <1>2, <1>3
  <2> QED
    BY <1>2, <1>3, <1>4, <2>1, AloneScore
<1>6. i < j
  <2>1. CandidateCount \in Nat /\ i \in 1..CandidateCount /\ j \in 1..CandidateCount
    BY <1>4, SettingsAssumption
  <2>2. c \in Nat /\ d \in Nat
    BY <1>1, <1>4
  <2>3. score[c] \in Int /\ score[d] \in Int
    BY FusedScoreIsInt
  <2>4. ASSUME i = j PROVE FALSE
    BY <1>2, <1>3, <2>2, <2>3, <2>4 DEF Before
  <2>5. ASSUME j < i PROVE FALSE
    <3>1. score[d] > score[c]
      BY <1>5, <2>1, <2>5, UnitSplits
    <3> QED
      BY <2>3, <3>1 DEF Before
  <2> QED
    BY <2>1, <2>4, <2>5
<1> QED
  BY <1>1, <1>2, <1>3, <1>4, <1>6

-----------------------------------------------------------------------------
(* What search leaves, step by step *)

LEMMA BestInitially == Init => BestInv
<1> SUFFICES ASSUME Init PROVE BestInv
  OBVIOUS
<1>1. /\ pc = "new" /\ asked = 0 /\ rankings = <<>> /\ cosines = <<>> /\ fused = <<>>
      /\ candidates = {} /\ \A k \in Known : hits[k] = <<>>
  BY DEF Init
<1>2. DOMAIN fused = {} /\ Len(cosines) = 0 /\ Len(rankings) = 0 /\ 1..0 = {}
  BY <1>1
<1>3. ResultsInv /\ FusedInv /\ RankedInv
  BY <1>1, <1>2 DEF ResultsInv, FusedInv, RankedInv, RollingUp
<1>4. SlotsInv
  BY <1>1 DEF SlotsInv, RollingUp, Distinct
<1> QED
  BY <1>3, <1>4 DEF BestInv

LEMMA ResultsStep == ASSUME IInv, ResultsInv, [Next]_vars PROVE ResultsInv'
<1>0. /\ rankings \in Seq(Rankings) /\ cosines \in Seq(Cosines) /\ asked \in Nat
  BY QuestionType DEF IInv, TypeOK
<1>1. CASE SearchKeyword
  BY <1>1 DEF SearchKeyword, ResultsInv, ask_vars
<1>2. CASE SearchDense
  <2>1. stages' = stages /\ asked' = asked + 1
    BY <1>2 DEF SearchDense, ask_vars
  <2>2. CASE "dense" \in stages
    <3>0. PICK s \in Cosines : \E r \in Nearest(s) :
              cosines' = Append(cosines, s) /\ rankings' = Append(rankings, r)
      BY <1>2, <2>2 DEF SearchDense
    <3>1. PICK r \in Nearest(s) :
              cosines' = Append(cosines, s) /\ rankings' = Append(rankings, r)
      BY <3>0
    <3>2. r \in Rankings
      BY NearestIs
    <3>3. Len(cosines') = Len(cosines) + 1
      BY <1>0, <3>1
    <3>4. ASSUME stages = {"dense"}
          PROVE  /\ Len(rankings') = asked + 1
                 /\ \A i \in 1..(asked + 1) : rankings'[i] \in Nearest(cosines'[i])
      <4>1. /\ Len(rankings) = asked /\ Len(cosines) = asked
            /\ \A i \in 1..asked : rankings[i] \in Nearest(cosines[i])
        BY <2>2, <3>4 DEF ResultsInv
      <4>2. /\ Len(rankings') = asked + 1
            /\ \A i \in 1..asked : rankings'[i] = rankings[i] /\ cosines'[i] = cosines[i]
            /\ rankings'[asked + 1] = r /\ cosines'[asked + 1] = s
        BY <1>0, <3>1, <3>2, <4>1
      <4> QED
        BY <1>0, <4>1, <4>2
    <3> QED
      BY <1>0, <2>1, <2>2, <3>3, <3>4 DEF ResultsInv
  <2>3. CASE "dense" \notin stages
    BY <1>0, <2>1, <2>3 DEF ResultsInv
  <2> QED
    BY <2>2, <2>3
<1>3. CASE ~(SearchKeyword \/ SearchDense)
  <2>1. /\ UNCHANGED <<stages, asked, rankings, cosines>>
        /\ pc' = "fuse" => pc = "fuse"
    BY <1>3 DEF Next, vars, ask_vars, draft_vars, search_vars, Construct, LookUpCve, Draft,
       EndOfCves, LookUpQid, Choose, Fuse, Rank, Support, NextHit, AddHit, EndOfHits, Finish, Ended
  <2> QED
    BY <2>1 DEF ResultsInv, Nearest
<1> QED
  BY <1>1, <1>2, <1>3

LEMMA FusedStep == ASSUME IInv, ResultsInv, FusedInv, [Next]_vars PROVE FusedInv'
<1>0. /\ rankings \in Seq(Rankings) /\ cosines \in Seq(Cosines) /\ asked \in Nat
  BY QuestionType DEF IInv, TypeOK
<1>1. CASE Fuse
  <2> DEFINE score == [c \in Found |-> FusedScore(c)]
             kept == Best(CandidateCount, Found, score)
  <2>1. /\ fused' = [c \in kept |-> score[c]] /\ kept \subseteq Found
        /\ pc = "fuse" /\ pc' = "rank" /\ UNCHANGED <<stages, asked, rankings, cosines>>
    BY <1>1 DEF Fuse, ask_vars, Best
  <2>2. \A c \in Found : score[c] \in Int
    BY <1>0, FusedScoreIsInt
  <2>3. ASSUME stages = {"dense"}, asked = 1
        PROVE  /\ Found \subseteq Text
               /\ \A c, d \in Found : Before(score, c, d) => cosines[1][c] >= cosines[1][d]
    <3>1. /\ Len(rankings) = 1 /\ Len(cosines) = 1 /\ rankings[1] \in Nearest(cosines[1])
      <4>1. /\ Len(rankings) = 1 /\ Len(cosines) = 1
            /\ \A i \in 1..1 : rankings[i] \in Nearest(cosines[i])
        <5> HIDE DEF score, kept
        <5> QED
          BY <2>3 DEF ResultsInv
      <4>2. 1 \in 1..1
        OBVIOUS
      <4> QED
        BY <4>1, <4>2
    <3>2. cosines[1] \in Cosines
      BY <1>0, <3>1, OnlyOne
    <3>3. Found \subseteq Text
      <4>1. Elements(rankings[1]) \subseteq Text
        BY <3>1, <3>2, NearestIs
      <4>2. DOMAIN rankings = {1}
        BY <1>0, <3>1
      <4> QED
        BY <4>1, <4>2 DEF Found
    <3> HIDE DEF score
    <3>4. score = [c \in Found |-> FusedScore(c)]
      BY DEF score
    <3>5. \A c, d \in Found : Before(score, c, d) => cosines[1][c] >= cosines[1][d]
      BY <1>0, <3>1, <3>2, <3>4, FusedByCosine
    <3> QED
      BY <3>3, <3>5
  <2> HIDE DEF score, kept
  <2>4. DOMAIN fused' = kept /\ \A c \in kept : fused'[c] = score[c]
    BY <2>1
  <2>5. \A c, d \in kept : Before(fused', c, d) => Before(score, c, d)
    BY <2>4 DEF Before
  <2>6. asked > 0
    BY <2>1 DEF ResultsInv
  <2>7. stages = {"dense"} /\ asked = 1 =>
          /\ kept \subseteq Text
          /\ \A c, d \in kept : Before(fused', c, d) => cosines[1][c] >= cosines[1][d]
    BY <2>1, <2>3, <2>5
  <2>8. \A c \in kept : fused'[c] \in Int
    BY <2>1, <2>2, <2>4
  <2> QED
    BY <2>1, <2>4, <2>6, <2>7, <2>8 DEF FusedInv, LookingUp, Before
<1>2. CASE SearchDense
  <2>1. fused' = fused /\ DOMAIN fused = {} /\ asked' = asked + 1
    BY <1>2 DEF SearchDense, FusedInv
  <2> QED
    BY <1>0, <2>1 DEF FusedInv
<1>3. CASE ~(Fuse \/ SearchDense)
  <2>1. UNCHANGED <<stages, asked, fused>>
    BY <1>3 DEF Next, vars, ask_vars, draft_vars, search_vars, Construct, LookUpCve, Draft,
       EndOfCves, LookUpQid, Choose, SearchKeyword, Rank, Support, NextHit, AddHit, EndOfHits,
       Finish, Ended
  <2>2. cosines' = cosines
    BY <1>3 DEF Next, vars, ask_vars, draft_vars, search_vars, Construct, LookUpCve, Draft,
       EndOfCves, LookUpQid, Choose, SearchKeyword, Rank, Support, NextHit, AddHit, EndOfHits,
       Finish, Ended
  <2>3. pc' \in {"new", "keyword", "dense", "fuse"} \cup LookingUp =>
            pc \in {"new", "keyword", "dense", "fuse"} \cup LookingUp
    BY <1>3 DEF Next, vars, Construct, LookUpCve, Draft, LookingUp,
       EndOfCves, LookUpQid, Choose, SearchKeyword, Rank, Support, NextHit, AddHit, EndOfHits,
       Finish, Ended
  <2> QED
    BY <2>1, <2>2, <2>3 DEF FusedInv, Before
<1> QED
  BY <1>1, <1>2, <1>3

LEMMA RankedStep == ASSUME IInv, FusedInv, RankedInv, [Next]_vars PROVE RankedInv'
<1>1. CASE Rank
  <2> DEFINE score == Order(relevance')
             F == DOMAIN fused
  <2>1. /\ candidates' = Best(ContextCount, BestPerDocument(F, score), score)
        /\ fused' = fused /\ pc' = "gate"
    BY <1>1 DEF Rank
  <2>2. relevance' \in Relevances \cup {NotReranked}
    BY <1>1 DEF Rank, IInv, TypeOK
  <2>3. Whole(score, F)
    BY <2>2, OrderIsWhole DEF IInv
  <2>4. Order(relevance)' = score
    BY <2>1 DEF Order
  <2>5. ContextCount \in Nat \ {0}
    BY SettingsAssumption
  <2> HIDE DEF score, F
  <2>6. candidates' \subseteq F /\ \A c, d \in candidates' : Owner[c] = Owner[d] => c = d
    BY <2>1, <2>3, OnePerDocument
  <2>7. F # {} => \E b \in candidates' : \A d \in F \ {b} : Before(score, b, d)
    <3> SUFFICES ASSUME F # {} PROVE \E b \in candidates' : \A d \in F \ {b} : Before(score, b, d)
      OBVIOUS
    <3>1. PICK b \in F : OnTop(b, F, score)
      BY <2>3, BestExists
    <3>2. b \in candidates'
      BY <2>1, <2>3, <2>5, <3>1, TopIsKept
    <3> QED
      BY <3>1, <3>2 DEF OnTop
  <2> QED
    BY <2>1, <2>4, <2>6, <2>7 DEF RankedInv, LookingUp, Before, F
<1>2. CASE Fuse
  BY <1>2 DEF Fuse, RankedInv, LookingUp, RollingUp
<1>3. CASE Choose
  BY <1>3 DEF Choose, RankedInv, FusedInv, LookingUp, RollingUp, search_vars
<1>4. CASE ~(Rank \/ Fuse \/ Choose)
  <2>1. UNCHANGED <<fused, relevance, candidates>>
    BY <1>4 DEF Next, vars, search_vars, Construct, LookUpCve, Draft, EndOfCves, LookUpQid,
       SearchKeyword, SearchDense, Support, NextHit, AddHit, EndOfHits, Finish, Ended
  <2>2. /\ pc' \in {"gate", "finish", "done"} \cup RollingUp =>
               pc \in {"gate", "finish", "done"} \cup RollingUp
        /\ pc' \in {"new", "keyword", "dense", "fuse", "rank"} \cup LookingUp =>
               pc \in {"new", "keyword", "dense", "fuse", "rank"} \cup LookingUp
    BY <1>4 DEF Next, vars, Construct, LookUpCve, Draft, EndOfCves, LookUpQid, LookingUp, RollingUp,
       SearchKeyword, SearchDense, Support, NextHit, AddHit, EndOfHits, Finish, Ended
  <2>3. Order(relevance)' = Order(relevance)
    BY <2>1 DEF Order
  <2> QED
    BY <2>1, <2>2, <2>3 DEF RankedInv, Before
<1> QED
  BY <1>1, <1>2, <1>3, <1>4

(* A chunk that is rolled up to k is added to hits[k], once. *)
LEMMA AddedOnce ==
  ASSUME NEW s \in Seq(Chunks), Distinct(s), NEW x \in Chunks, x \notin Elements(s)
  PROVE  Distinct(Append(s, x))
<1>1. /\ Len(s) \in Nat /\ DOMAIN s = 1..Len(s) /\ DOMAIN Append(s, x) = 1..(Len(s) + 1)
      /\ \A i \in 1..(Len(s) + 1) : Append(s, x)[i] = IF i = Len(s) + 1 THEN x ELSE s[i]
  OBVIOUS
<1>2. \A i \in 1..Len(s) : s[i] # x
  BY <1>1 DEF Elements
<1> QED
  BY <1>1, <1>2 DEF Distinct

LEMMA TailIsDistinct ==
  ASSUME NEW S, NEW s \in Seq(S), s # <<>>, Distinct(s)
  PROVE  Distinct(Tail(s)) /\ Head(s) \notin Elements(Tail(s))
<1>1. /\ Len(s) \in Nat /\ Len(s) > 0 /\ DOMAIN s = 1..Len(s) /\ Head(s) = s[1]
      /\ DOMAIN Tail(s) = 1..(Len(s) - 1)
      /\ \A i \in 1..(Len(s) - 1) : Tail(s)[i] = s[i + 1]
  OBVIOUS
<1>2. \A i \in 1..(Len(s) - 1) : i + 1 \in 1..Len(s) /\ i + 1 # 1
  BY <1>1
<1>3. \A i, j \in 1..(Len(s) - 1) : i + 1 = j + 1 => i = j
  BY <1>1
<1> QED
  BY <1>1, <1>2, <1>3 DEF Distinct, Elements

LEMMA SlotsStep == ASSUME IInv, SlotsInv, [Next]_vars PROVE SlotsInv'
<1>0. hits \in [Known -> Seq(Chunks)] /\ todo \in Seq(Known)
  BY DEF IInv, TypeOK
<1>1. CASE Support
  <2>1. pc = "gate" /\ pc' = "hits" /\ hits' = hits
    BY <1>1 DEF Support, draft_vars
  <2>2. \A k \in Known : hits[k] = <<>> /\ Elements(hits[k]) = {}
    BY <2>1 DEF IInv, RollUpInv, Searching, Elements
  <2> QED
    BY <2>1, <2>2 DEF SlotsInv
<1>2. CASE NextHit
  <2>1. PICK c \in supporting :
          /\ cursor' = c
          /\ todo' = IF Owner[c].type = "qid" THEN <<Owner[c].id>> ELSE QidsFor[Owner[c].id]
          /\ supporting' = supporting \ {c}
    BY <1>2 DEF NextHit
  <2>2. pc = "hits" /\ pc' = "add" /\ hits' = hits
    BY <1>2 DEF NextHit, draft_vars
  <2>3. \A k \in Known : Elements(hits[k]) \cap supporting = {}
    BY <2>2 DEF SlotsInv, RollingUp
  <2>4. todo' \in Seq(Known)
    BY <1>2, NextHitStep DEF IInv, TypeOK
  <2>5. Elements(todo') \subseteq Known
    BY <2>4, ElementsOfSeq
  <2>6. Distinct(todo')
    <3>1. c \in Chunks
      BY DEF IInv, TypeOK
    <3>2. CASE Owner[c].type = "qid"
      <4>1. todo' = <<Owner[c].id>>
        BY <2>1, <3>2
      <4> QED
        BY <4>1 DEF Distinct
    <3>3. CASE Owner[c].type # "qid"
      <4>1. todo' = QidsFor[Owner[c].id]
        BY <2>1, <3>3
      <4>2. Owner[c].id \in Cves
        BY <3>1, <3>3, OwnersType DEF Docs
      <4>3. Distinct(QidsFor[Owner[c].id])
        BY <4>2, PairsAssumption DEF Distinct
      <4> QED
        BY <4>1, <4>3
    <3> QED
      BY <3>2, <3>3
  <2>7. \A k \in Known : Distinct(hits[k])
    BY DEF SlotsInv
  <2> QED
    BY <2>1, <2>2, <2>3, <2>5, <2>6, <2>7 DEF SlotsInv
<1>3. CASE AddHit
  <2> DEFINE k == Head(todo)
  <2>1. /\ hits' = [hits EXCEPT ![k] = Append(@, cursor)]
        /\ todo' = Tail(todo) /\ cursor' = cursor /\ supporting' = supporting
        /\ pc = "add" /\ pc' \in RollingUp
    BY <1>3 DEF AddHit, RollingUp
  <2>2. cursor \in Chunks /\ todo # <<>>
    BY <2>1, SupportersAreCandidates DEF IInv, LoopInv, TypeOK
  <2>3. /\ cursor \notin supporting /\ Distinct(todo)
        /\ \A l \in Elements(todo) : cursor \notin Elements(hits[l])
        /\ \A l \in Known : Elements(hits[l]) \cap supporting = {}
    BY <2>1 DEF SlotsInv, RollingUp
  <2>4. /\ k \in Known /\ k \in Elements(todo) /\ Elements(Tail(todo)) \subseteq Elements(todo)
        /\ Tail(todo) \in Seq(Known)
    BY <1>0, <2>2, ElementsOfTail
  <2>5. k \notin Elements(Tail(todo)) /\ Distinct(Tail(todo))
    BY <1>0, <2>2, <2>3, TailIsDistinct
  <2> HIDE DEF k
  <2>6. hits[k] \in Seq(Chunks) /\ Distinct(hits[k]) /\ cursor \notin Elements(hits[k])
    BY <1>0, <2>3, <2>4 DEF SlotsInv
  <2>7. /\ hits'[k] = Append(hits[k], cursor) /\ \A l \in Known \ {k} : hits'[l] = hits[l]
    BY <1>0, <2>1, <2>4
  <2>8. Elements(hits'[k]) = Elements(hits[k]) \cup {cursor} /\ Distinct(hits'[k])
    BY <2>2, <2>6, <2>7, ElementsOfAppend, AddedOnce
  <2>9. \A l \in Known : Distinct(hits'[l]) /\ Elements(hits'[l]) \cap supporting = {}
    <3>1. \A l \in Known \ {k} : Distinct(hits'[l]) /\ Elements(hits'[l]) \cap supporting = {}
      BY <2>3, <2>7 DEF SlotsInv
    <3>2. Distinct(hits'[k]) /\ Elements(hits'[k]) \cap supporting = {}
      BY <2>3, <2>4, <2>8
    <3> QED
      BY <3>1, <3>2
  <2>10. Elements(Tail(todo)) \subseteq Known
    BY <2>4, ElementsOfSeq
  <2>11. \A l \in Elements(Tail(todo)) : cursor \notin Elements(hits'[l])
    BY <2>3, <2>4, <2>5, <2>7, <2>10
  <2> QED
    BY <2>1, <2>3, <2>5, <2>9, <2>11 DEF SlotsInv
<1>4. CASE ~(Support \/ NextHit \/ AddHit)
  <2>1. hits' = hits /\ supporting' = supporting
    BY <1>4 DEF Next, vars, draft_vars, Construct, LookUpCve, Draft, EndOfCves, LookUpQid, Choose,
       SearchKeyword, SearchDense, Fuse, Rank, EndOfHits, Finish, Ended
  <2>2. /\ pc' \in RollingUp => pc \in RollingUp
        /\ pc' = "add" => pc = "add" /\ UNCHANGED <<cursor, todo>>
    BY <1>4 DEF Next, vars, Construct, LookUpCve, Draft, EndOfCves, LookUpQid, Choose, RollingUp,
       SearchKeyword, SearchDense, Fuse, Rank, EndOfHits, Finish, Ended
  <2> QED
    BY <2>1, <2>2 DEF SlotsInv
<1> QED
  BY <1>1, <1>2, <1>3, <1>4

-----------------------------------------------------------------------------
(* What the scores decide *)

LEMMA ScoreIsInt ==
  ASSUME IInv, BestInv, NEW S, S \subseteq DOMAIN fused, NEW c \in Carriers(S)
  PROVE  Score(S, c) \in Int
<1>1. c \in DOMAIN fused /\ c \in Chunks /\ fused[c] \in Int
  BY DEF Carriers, IInv, TypeOK, BestInv, FusedInv
<1>2. CASE Gate(S) = "rerank_score"
  <2>1. relevance \in [Chunks -> Int]
    BY <1>2, SearchAssumption DEF Gate, IInv, TypeOK
  <2> QED
    BY <1>1, <1>2, <2>1 DEF Score
<1>3. CASE Gate(S) = "dense_score"
  <2>1. "dense" \in stages /\ c \in Text
    BY <1>3 DEF Gate, Carriers
  <2>2. asked > 0 /\ asked \in Nat /\ Len(cosines) = asked /\ cosines \in Seq(Cosines)
    BY <1>1, <2>1, QuestionType DEF IInv, TypeOK, BestInv, FusedInv, ResultsInv
  <2>3. cosines[1] \in Cosines
    BY <2>2
  <2>4. cosines[1][c] \in Int
    BY <2>1, <2>3, SearchAssumption
  <2> QED
    BY <1>3, <2>4 DEF Score
<1>4. CASE Gate(S) = "none"
  BY <1>1, <1>4 DEF Score
<1> QED
  BY <1>2, <1>3, <1>4 DEF Gate

LEMMA MatchScoreIsInt ==
  ASSUME IInv, BestInv, NEW k \in Known
  PROVE  MatchScore(k) \in Int
<1> DEFINE S == Elements(hits[k])
           T == {Score(S, c) : c \in Carriers(S)}
<1>1. S \subseteq DOMAIN fused /\ S \subseteq Chunks
  BY SupportersAreCandidates DEF IInv, RollUpInv, TypeOK, BestInv, RankedInv
<1>2. CASE S = {}
  BY <1>2 DEF MatchScore
<1>3. CASE S # {}
  <2>1. Carriers(S) # {} /\ Carriers(S) \subseteq S
    BY <1>3 DEF Carriers, Gate
  <2>2. IsFiniteSet(Carriers(S))
    BY <1>1, <2>1, FS_Subset
  <2>3. \A c \in Carriers(S) : Score(S, c) \in Int
    <3> HIDE DEF S
    <3> QED
      BY <1>1, ScoreIsInt
  <2>4. T \in SUBSET Int /\ T # {}
    BY <2>1, <2>3
  <2>5. IsFiniteSet(T)
    <3> DEFINE f == [c \in Carriers(S) |-> Score(S, c)]
    <3>1. f \in Surjection(Carriers(S), T)
      BY DEF Surjection
    <3> HIDE DEF f, S, T
    <3> QED
      BY <2>2, <3>1, FS_Surjection
  <2> HIDE DEF T
  <2>6. \E m \in T : \A x \in T : m >= x
    BY <2>4, <2>5, GreatestNumber
  <2>7. Max(T) \in Int
    BY <2>4, <2>6 DEF Max
  <2> QED
    BY <1>3, <2>7 DEF MatchScore, T
<1> QED
  BY <1>2, <1>3

LEMMA Decision ==
  ASSUME IInv, BestInv, pc = "gate",
         relevance # NotReranked \/ (stages = {"dense"} /\ asked = 1)
  PROVE  Supporting(candidates) = {} <=>
            \A c \in DOMAIN fused : Score(DOMAIN fused, c) < Floor(DOMAIN fused)
<1> DEFINE F == DOMAIN fused
           C == candidates
<1>1. C \subseteq F
  BY DEF BestInv, RankedInv
<1>2. CASE F = {}
  BY <1>1, <1>2, SupportersAreCandidates
<1>3. CASE F # {}
  <2>1. PICK b \in C : \A d \in F \ {b} : Before(Order(relevance), b, d)
    BY <1>3 DEF BestInv, RankedInv
  <2>2. relevance = NotReranked => F \subseteq Text
    BY DEF BestInv, FusedInv
  <2>3. /\ Gate(F) # "none" /\ Gate(C) = Gate(F)
        /\ Carriers(F) = F /\ Carriers(C) = C
    BY <1>1, <1>3, <2>1, <2>2 DEF Gate, Carriers
  <2>4. /\ \A c \in C : Score(C, c) = Score(F, c)
        /\ Floor(C) = Floor(F) /\ Margin(C) = Margin(F)
    BY <2>3 DEF Score, Floor, Margin
  <2>5. \A c \in F : Score(F, c) \in Int
    BY <2>3, ScoreIsInt
  <2>6. Floor(F) \in Int /\ Margin(F) \in Nat
    BY SettingsAssumption DEF Floor, Margin
  <2>7. \A d \in F : Score(F, b) >= Score(F, d)
    <3> SUFFICES ASSUME NEW d \in F \ {b} PROVE Score(F, b) >= Score(F, d)
      BY <1>1, <2>1, <2>5
    <3>1. Before(Order(relevance), b, d)
      BY <2>1
    <3>2. CASE relevance # NotReranked
      <4>1. Score(F, b) = relevance[b] /\ Score(F, d) = relevance[d]
        BY <3>2 DEF Gate, Score
      <4> QED
        BY <1>1, <2>5, <3>1, <3>2, <4>1 DEF Order, Before
    <3>3. CASE relevance = NotReranked
      <4>1. Before(fused, b, d)
        BY <3>1, <3>3 DEF Order
      <4>2. cosines[1][b] >= cosines[1][d]
        BY <1>1, <3>3, <4>1 DEF BestInv, FusedInv
      <4>3. Gate(F) = "dense_score"
        BY <2>3, <3>3 DEF Gate
      <4> QED
        BY <4>2, <4>3 DEF Score
    <3> QED
      BY <3>2, <3>3
  <2> HIDE DEF F, C
  <2>8. \A c \in C : c \in Supporting(C) =>
              c \in F /\ ~(Score(F, c) < Floor(F))
    BY <1>1, <2>3, <2>4, <2>5, <2>6 DEF Supporting
  <2>9. ASSUME NEW c \in F, ~(Score(F, c) < Floor(F)) PROVE b \in Supporting(C)
    <3>1. Score(F, b) >= Floor(F)
      BY <1>1, <2>1, <2>5, <2>6, <2>7, <2>9
    <3>2. \A d \in C : Score(F, b) >= Score(F, d) - Margin(F)
      BY <1>1, <2>1, <2>5, <2>6, <2>7
    <3> QED
      BY <2>1, <2>3, <2>4, <3>1, <3>2 DEF Supporting
  <2>10. Supporting(C) \subseteq C
    BY SupportersAreCandidates DEF C
  <2> QED
    BY <2>8, <2>9, <2>10 DEF F, C
<1> QED
  BY <1>2, <1>3

(* The decision is taken when the candidates are known, and stands.         *)
LEMMA DecisionStands ==
  ASSUME IInv, BestInv, BestInv', AbstainsByTheBestScore, [Next]_vars
  PROVE  AbstainsByTheBestScore'
<1>1. CASE Support
  <2>1. /\ pc = "gate" /\ UNCHANGED <<stages, search_vars>>
        /\ supporting' = Supporting(candidates) /\ abstained' = (supporting' = {})
    BY <1>1 DEF Support, ask_vars
  <2>2. /\ \A c \in DOMAIN fused : (Score(DOMAIN fused, c))' = Score(DOMAIN fused, c)
        /\ (Floor(DOMAIN fused))' = Floor(DOMAIN fused)
    BY <2>1 DEF search_vars, Score, Floor, Gate
  <2>3. UNCHANGED <<fused, relevance, asked>>
    BY <2>1 DEF search_vars
  <2>4. (relevance # NotReranked \/ (stages = {"dense"} /\ asked = 1)) =>
           (Supporting(candidates) = {} <=>
              \A c \in DOMAIN fused : Score(DOMAIN fused, c) < Floor(DOMAIN fused))
    BY <2>1, Decision
  <2> QED
    BY <2>1, <2>2, <2>3, <2>4 DEF AbstainsByTheBestScore
<1>2. CASE Choose
  <2>1. asked' = asked /\ asked = 0
    BY <1>2 DEF Choose, IInv, SearchInv, LookingUp, search_vars
  <2> QED
    BY <2>1 DEF AbstainsByTheBestScore
<1>3. CASE ~(Support \/ Choose)
  <2>1. CASE pc' \in {"hits", "add", "finish", "done"}
    <3>1. /\ pc \in {"hits", "add", "finish", "done"}
          /\ UNCHANGED <<stages, search_vars, abstained>>
      BY <1>3, <2>1 DEF Next, vars, ask_vars, Construct, LookUpCve, Draft, EndOfCves, LookUpQid,
         SearchKeyword, SearchDense, Fuse, Rank, NextHit, AddHit, EndOfHits, Finish, Ended
    <3>2. /\ \A c \in DOMAIN fused : (Score(DOMAIN fused, c))' = Score(DOMAIN fused, c)
          /\ (Floor(DOMAIN fused))' = Floor(DOMAIN fused)
      BY <3>1 DEF search_vars, Score, Floor, Gate
    <3>3. UNCHANGED <<fused, relevance, asked>>
      BY <3>1 DEF search_vars
    <3> QED
      BY <3>1, <3>2, <3>3 DEF AbstainsByTheBestScore
  <2>2. CASE pc' \notin {"hits", "add", "finish", "done"}
    BY <2>2 DEF AbstainsByTheBestScore
  <2> QED
    BY <2>1, <2>2
<1> QED
  BY <1>1, <1>2, <1>3

LEMMA SortedStep ==
  ASSUME IInv, BestInv, MatchesAreSorted, [Next]_vars
  PROVE  MatchesAreSorted'
<1>1. CASE Finish
  <2>1. PICK m \in [DOMAIN drafts -> Elements(drafts)] :
          /\ \A i, j \in DOMAIN m : i < j => MatchBefore(m[i], m[j])
          /\ answer' = [matches |-> m, cves |-> cves, hits |-> hits,
                        unknown |-> unknown, abstained |-> abstained]
    BY <1>1 DEF Finish
  <2>2. answer'.matches = m
    BY <2>1
  <2>3. Elements(drafts) \subseteq Known
    BY ElementsOfSeq DEF IInv, TypeOK
  <2>4. UNCHANGED <<stages, hits, search_vars>>
    BY <1>1 DEF Finish, ask_vars, draft_vars
  <2>5. ASSUME NEW i \in DOMAIN m, NEW j \in DOMAIN m, i < j
        PROVE  MatchScore(m[i])' >= MatchScore(m[j])'
    <3>1. m[i] \in Known /\ m[j] \in Known
      BY <2>3
    <3>2. MatchScore(m[i]) > MatchScore(m[j]) \/ MatchScore(m[i]) = MatchScore(m[j])
      BY <2>1, <2>5 DEF MatchBefore
    <3>3. MatchScore(m[i]) \in Int /\ MatchScore(m[j]) \in Int
      BY <3>1, MatchScoreIsInt
    <3>4. MatchScore(m[i])' = MatchScore(m[i]) /\ MatchScore(m[j])' = MatchScore(m[j])
      BY <2>4 DEF search_vars, MatchScore, Score, Carriers, Gate
    <3> QED
      BY <3>2, <3>3, <3>4
  <2> QED
    BY <2>2, <2>5 DEF MatchesAreSorted
<1>2. CASE ~Finish /\ answer # Pending
  <2>1. UNCHANGED vars
    BY <1>2 DEF IInv, AnswerInv, Next, Construct, LookUpCve, Draft, EndOfCves, LookUpQid, Choose,
       SearchKeyword, SearchDense, Fuse, Rank, Support, NextHit, AddHit, EndOfHits, Ended
  <2>2. MatchesAreSorted' <=> MatchesAreSorted
    BY <2>1 DEF vars, ask_vars, draft_vars, search_vars, MatchesAreSorted, MatchScore, Score,
       Carriers, Gate
  <2> QED
    BY <2>2
<1>3. CASE ~Finish /\ answer = Pending
  <2>1. answer' = Pending
    BY <1>3 DEF Next, vars, Construct, LookUpCve, Draft, EndOfCves, LookUpQid, Choose,
       SearchKeyword, SearchDense, Fuse, Rank, Support, NextHit, AddHit, EndOfHits, Ended
  <2> QED
    BY <2>1 DEF MatchesAreSorted
<1> QED
  BY <1>1, <1>2, <1>3

LEMMA SlotsAreApart ==
  ASSUME IInv, BestInv
  PROVE  OneSlotPerDocument
<1> SUFFICES ASSUME answer # Pending, NEW k \in Elements(answer.matches),
                    NEW i \in DOMAIN answer.hits[k], NEW j \in DOMAIN answer.hits[k],
                    Owner[answer.hits[k][i]] = Owner[answer.hits[k][j]]
             PROVE  i = j
  BY DEF OneSlotPerDocument
<1>1. answer.hits = hits /\ k \in Known
  BY ElementsOfSeq DEF IInv, AnswerInv, TypeOK
<1>2. hits[k][i] \in candidates /\ hits[k][j] \in candidates
  <2>1. hits[k][i] \in Elements(hits[k]) /\ hits[k][j] \in Elements(hits[k])
    BY <1>1 DEF Elements
  <2> QED
    BY <1>1, <2>1, SupportersAreCandidates DEF IInv, RollUpInv
<1>3. hits[k][i] = hits[k][j]
  BY <1>1, <1>2 DEF BestInv, RankedInv
<1> QED
  BY <1>1, <1>3 DEF BestInv, SlotsInv, Distinct

LEMMA BestInvariance == Spec => []BestInv
<1>1. ASSUME IInv, BestInv, [Next]_vars PROVE BestInv'
  BY <1>1, ResultsStep, FusedStep, RankedStep, SlotsStep DEF BestInv
<1> QED
  BY <1>1, BestInitially, Invariance, PTL DEF Spec

(* Among the chunks that fusion keeps, the best score decides: whether the  *)
(* search abstains, which chunk of a write-up stands for it, and which      *)
(* match comes first.  So it is for any scores, limits and margins.         *)
THEOREM BestDecides == Spec => []BestScoresDecide
<1>1. Init => AbstainsByTheBestScore /\ MatchesAreSorted
  BY DEF Init, AbstainsByTheBestScore, MatchesAreSorted
<1>2. ASSUME IInv, BestInv, BestInv', AbstainsByTheBestScore /\ MatchesAreSorted, [Next]_vars
      PROVE  (AbstainsByTheBestScore /\ MatchesAreSorted)'
  BY <1>2, DecisionStands, SortedStep
<1>3. IInv /\ BestInv => OneSlotPerDocument
  BY SlotsAreApart
<1>4. AbstainsByTheBestScore /\ MatchesAreSorted /\ OneSlotPerDocument <=> BestScoresDecide
  BY DEF BestScoresDecide
<1> QED
  BY <1>1, <1>2, <1>3, <1>4, Invariance, BestInvariance, PTL DEF Spec
=============================================================================
