--------------------------- MODULE PipelineProofs ---------------------------
(***************************************************************************)
(* Theorems of Pipeline, for any corpus, hosts and limits, any answer that *)
(* step 2 may give, and anything the language model may write.             *)
(***************************************************************************)
EXTENDS Pipeline, FiniteLemmas

BeforeAnswer == {"new", "refused", "parse", "retrieve"}
Collecting   == {"evidence", "cve"}
Written      == {"write", "verify", "done"}
Capped       == {"caveats"} \cup Written

(* The model only adds phrasings and a product to what was typed. *)
ParsedInv == parsed.cves = query.cves /\ parsed.qids = query.qids

AnswerInv ==
    /\ pc \in BeforeAnswer \ {"new", "refused"} => ~query.blank
    /\ pc \in BeforeAnswer => answer = Pending
    /\ pc \notin BeforeAnswer => /\ ~query.blank
                                 /\ answer \in Results
                                 /\ Retrieval!Promised(parsed, answer)

HostsInv ==
    pc \notin BeforeAnswer \cup {"rank"} =>
        /\ found = [h \in Hosts |-> Detected[h] \cap Matched]
        /\ hosts = {h \in Running : found[h] # {}}
        /\ inactive = {h \in Hosts \ Running : found[h] # {}}

Distinct(s) == \A i, j \in DOMAIN s : s[i] = s[j] => i = j

(* What the match at place i has said so far. *)
Told(k) == k \in Diagnosed => Elements(DiagnosisEvidence(k)) \subseteq Elements(evidence)

(* The loops of collect: each document that is in docs has been reported,   *)
(* once and in full, and the matches passed have all theirs in docs.        *)
EvidenceInv ==
    /\ Distinct(evidence)
    /\ \A e \in Elements(evidence) : e.doc \in docs
    /\ \A d \in docs : pc \notin BeforeAnswer /\ Relevant(d)
    /\ pc \in BeforeAnswer \cup {"rank"} => docs = {} /\ evidence = <<>> /\ place = 1
    /\ \A c \in Cves : Cve(c) \in docs => Elements(CveEvidence(c)) \subseteq Elements(evidence)
    /\ pc \in Collecting =>
         \A i \in DOMAIN answer.matches : i < place =>
             /\ Told(answer.matches[i])
             /\ \A c \in Elements(Consulted(answer.matches[i])) : Cve(c) \in docs
    /\ pc = "evidence" =>
         \A i \in DOMAIN answer.matches : i >= place => Qid(answer.matches[i]) \notin docs
    /\ pc = "cve" =>
         /\ place \in DOMAIN answer.matches
         /\ todo \in Seq(Cves)
         /\ Elements(todo) \subseteq Elements(Consulted(Match))
         /\ Told(Match)
         /\ \A c \in Elements(Consulted(Match)) : Cve(c) \in docs \/ c \in Elements(todo)
         /\ \A i \in DOMAIN answer.matches : i > place => Qid(answer.matches[i]) \notin docs
    /\ pc \notin BeforeAnswer \cup {"rank"} \cup Collecting => EvidenceIsToldOnce

About(s) == \A c \in Elements(s) : Relevant(Owner[c])

(* Whatever is on its way into the context is about a match. *)
ChunksInv ==
    /\ pc \in BeforeAnswer \cup {"rank"} \cup Collecting =>
         fixes = <<>> /\ writeup = <<>> /\ chunks = <<>> /\ items = <<>>
    /\ pc \in {"gather", "fetch"} => items = <<>>
    /\ pc = "gather" => writeup = <<>>
    /\ pc = "fetch" => /\ place \in DOMAIN answer.matches
                       /\ todo \in Seq(Docs)
                       /\ \A d \in Elements(todo) : Relevant(d)
    /\ pc \notin BeforeAnswer => About(fixes) /\ About(writeup) /\ About(chunks)

ItemsInv ==
    /\ Distinct(items)
    /\ \A s \in Elements(items) :
          s.type = "chunk" /\ s.id \in Text /\ pc \notin BeforeAnswer /\ Relevant(Owner[s.id])
    /\ pc \in Capped => ContextIsSound

(* How far the response has come. *)
WriteInv ==
    /\ pc \in Written => /\ caveats.strange = answer.unknown
                         /\ "coverage" \in caveats.general <=> answer.matches = <<>>
    /\ pc \in {"write", "verify"} => answer.matches # <<>>
    /\ pc = "verify" <=> brief # Pending /\ pc # "done"
    /\ pc # "done" => verified = {} /\ notices \cap {"no provider", "no brief"} = {}
    /\ pc = "done" => IF answer.matches = <<>> \/ brief # Pending
                      THEN notices \cap {"no provider", "no brief"} = {}
                      ELSE notices \cap {"no provider", "no brief"} # {}
    /\ pc = "done" /\ answer.matches = <<>> => brief = Pending
    /\ VerifiedClaimsAreGrounded

IInv == /\ TypeOK /\ ParsedInv /\ AnswerInv /\ HostsInv /\ EvidenceInv /\ ChunksInv
        /\ ItemsInv /\ WriteInv

-----------------------------------------------------------------------------
(* Lemmas about lists *)

LEMMA ElementsOfSeq ==
  ASSUME NEW S, NEW s \in Seq(S)
  PROVE  /\ Elements(s) \subseteq S
         /\ \A i \in DOMAIN s : s[i] \in S /\ s[i] \in Elements(s)
         /\ s = <<>> <=> Elements(s) = {}
<1>1. Len(s) \in Nat /\ DOMAIN s = 1..Len(s) /\ \A i \in 1..Len(s) : s[i] \in S
  OBVIOUS
<1>2. \A i \in DOMAIN s : s[i] \in S /\ s[i] \in Elements(s)
  BY <1>1 DEF Elements
<1>3. Elements(s) \subseteq S
  BY <1>1 DEF Elements
<1>4. CASE s = <<>>
  <2>1. DOMAIN s = {}
    BY <1>1, <1>4
  <2> QED
    BY <1>2, <1>3, <1>4, <2>1 DEF Elements
<1>5. CASE s # <<>>
  <2>1. 1 \in DOMAIN s
    BY <1>1, <1>5
  <2> QED
    BY <1>2, <1>3, <1>5, <2>1
<1> QED
  BY <1>4, <1>5

LEMMA ElementsOfConcat ==
  ASSUME NEW S, NEW s \in Seq(S), NEW t \in Seq(S)
  PROVE  /\ s \o t \in Seq(S)
         /\ Elements(s \o t) = Elements(s) \cup Elements(t)
<1>1. /\ Len(s) \in Nat /\ DOMAIN s = 1..Len(s) /\ Len(t) \in Nat /\ DOMAIN t = 1..Len(t)
      /\ DOMAIN (s \o t) = 1..(Len(s) + Len(t))
      /\ \A i \in 1..Len(s) : (s \o t)[i] = s[i]
      /\ \A i \in (Len(s) + 1)..(Len(s) + Len(t)) : (s \o t)[i] = t[i - Len(s)]
  OBVIOUS
<1>2. Elements(s \o t) \subseteq Elements(s) \cup Elements(t)
  <2> SUFFICES ASSUME NEW i \in 1..(Len(s) + Len(t))
               PROVE  (s \o t)[i] \in Elements(s) \cup Elements(t)
    BY <1>1 DEF Elements
  <2>1. CASE i <= Len(s)
    BY <1>1, <2>1 DEF Elements
  <2>2. CASE i > Len(s)
    <3>1. i \in (Len(s) + 1)..(Len(s) + Len(t)) /\ i - Len(s) \in 1..Len(t)
      BY <1>1, <2>2
    <3> QED
      BY <1>1, <3>1 DEF Elements
  <2> QED
    BY <1>1, <2>1, <2>2
<1>3. Elements(s) \subseteq Elements(s \o t)
  BY <1>1 DEF Elements
<1>4. Elements(t) \subseteq Elements(s \o t)
  <2> SUFFICES ASSUME NEW i \in 1..Len(t) PROVE t[i] \in Elements(s \o t)
    BY <1>1 DEF Elements
  <2>1. /\ i + Len(s) \in (Len(s) + 1)..(Len(s) + Len(t))
        /\ i + Len(s) \in 1..(Len(s) + Len(t))
        /\ i + Len(s) - Len(s) = i
    BY <1>1
  <2> QED
    BY <1>1, <2>1 DEF Elements
<1> QED
  BY <1>2, <1>3, <1>4

LEMMA DistinctConcat ==
  ASSUME NEW S, NEW s \in Seq(S), NEW t \in Seq(S), Distinct(s), Distinct(t),
         Elements(s) \cap Elements(t) = {}
  PROVE  Distinct(s \o t)
<1>1. /\ Len(s) \in Nat /\ DOMAIN s = 1..Len(s) /\ Len(t) \in Nat /\ DOMAIN t = 1..Len(t)
      /\ DOMAIN (s \o t) = 1..(Len(s) + Len(t))
      /\ \A i \in 1..Len(s) : (s \o t)[i] = s[i]
      /\ \A i \in (Len(s) + 1)..(Len(s) + Len(t)) : (s \o t)[i] = t[i - Len(s)]
  OBVIOUS
<1>2. \A i \in 1..Len(s), j \in 1..Len(t) : s[i] # t[j]
  BY <1>1 DEF Elements
<1> SUFFICES ASSUME NEW i \in 1..(Len(s) + Len(t)), NEW j \in 1..(Len(s) + Len(t)),
                    (s \o t)[i] = (s \o t)[j]
             PROVE  i = j
  BY <1>1 DEF Distinct
<1>3. \A n \in 1..(Len(s) + Len(t)) :
         \/ n \in 1..Len(s)
         \/ n \in (Len(s) + 1)..(Len(s) + Len(t)) /\ n - Len(s) \in 1..Len(t)
  BY <1>1
<1>4. CASE i \in 1..Len(s) /\ j \in 1..Len(s)
  BY <1>1, <1>4 DEF Distinct
<1>5. CASE i \notin 1..Len(s) /\ j \notin 1..Len(s)
  <2>1. t[i - Len(s)] = t[j - Len(s)] /\ i - Len(s) \in 1..Len(t) /\ j - Len(s) \in 1..Len(t)
    BY <1>1, <1>3, <1>5
  <2>2. i - Len(s) = j - Len(s)
    BY <1>1, <2>1 DEF Distinct
  <2> QED
    BY <1>1, <2>2
<1>6. CASE i \in 1..Len(s) /\ j \notin 1..Len(s)
  BY <1>1, <1>2, <1>3, <1>6
<1>7. CASE i \notin 1..Len(s) /\ j \in 1..Len(s)
  BY <1>1, <1>2, <1>3, <1>7
<1> QED
  BY <1>4, <1>5, <1>6, <1>7

LEMMA ElementsOfTail ==
  ASSUME NEW S, NEW s \in Seq(S), s # <<>>
  PROVE  /\ Head(s) \in S /\ Tail(s) \in Seq(S)
         /\ Elements(s) = {Head(s)} \cup Elements(Tail(s))
<1>1. /\ Len(s) \in Nat /\ Len(s) > 0 /\ DOMAIN s = 1..Len(s) /\ Head(s) = s[1]
      /\ Tail(s) \in Seq(S) /\ DOMAIN Tail(s) = 1..(Len(s) - 1)
      /\ \A i \in 1..(Len(s) - 1) : Tail(s)[i] = s[i + 1]
  OBVIOUS
<1>2. \A i \in 1..Len(s) : i # 1 => i - 1 \in 1..(Len(s) - 1) /\ s[i] = Tail(s)[i - 1]
  BY <1>1
<1>3. \A i \in 1..(Len(s) - 1) : i + 1 \in 1..Len(s) /\ Tail(s)[i] = s[i + 1]
  BY <1>1
<1>4. Elements(s) \subseteq {Head(s)} \cup Elements(Tail(s))
  <2> SUFFICES ASSUME NEW i \in 1..Len(s), i # 1 PROVE s[i] \in Elements(Tail(s))
    BY <1>1 DEF Elements
  <2> QED
    BY <1>1, <1>2 DEF Elements
<1>5. Elements(Tail(s)) \subseteq Elements(s) /\ Head(s) \in Elements(s)
  BY <1>1, <1>3 DEF Elements
<1> QED
  BY <1>1, <1>4, <1>5

LEMMA ElementsOfAppend ==
  ASSUME NEW S, NEW s \in Seq(S), NEW x \in S
  PROVE  /\ Append(s, x) \in Seq(S)
         /\ Elements(Append(s, x)) = Elements(s) \cup {x}
         /\ Distinct(s) /\ x \notin Elements(s) => Distinct(Append(s, x))
<1>1. /\ Len(s) \in Nat /\ DOMAIN s = 1..Len(s) /\ Append(s, x) \in Seq(S)
      /\ DOMAIN Append(s, x) = 1..(Len(s) + 1)
      /\ \A i \in 1..(Len(s) + 1) : Append(s, x)[i] = IF i = Len(s) + 1 THEN x ELSE s[i]
  OBVIOUS
<1>2. Elements(Append(s, x)) = Elements(s) \cup {x}
  BY <1>1 DEF Elements
<1>3. ASSUME Distinct(s), x \notin Elements(s) PROVE Distinct(Append(s, x))
  BY <1>1, <1>3 DEF Distinct, Elements
<1> QED
  BY <1>1, <1>2, <1>3

(* The first n elements. *)
LEMMA ElementsOfPrefix ==
  ASSUME NEW S, NEW s \in Seq(S), NEW n \in 0..Len(s)
  PROVE  /\ SubSeq(s, 1, n) \in Seq(S)
         /\ Len(SubSeq(s, 1, n)) = n
         /\ Elements(SubSeq(s, 1, n)) \subseteq Elements(s)
         /\ Distinct(s) => Distinct(SubSeq(s, 1, n))
         /\ n = Len(s) => SubSeq(s, 1, n) = s
<1>1. /\ Len(s) \in Nat /\ DOMAIN s = 1..Len(s)
      /\ SubSeq(s, 1, n) \in Seq(S) /\ Len(SubSeq(s, 1, n)) = n
      /\ DOMAIN SubSeq(s, 1, n) = 1..n
      /\ \A i \in 1..n : SubSeq(s, 1, n)[i] = s[i]
  OBVIOUS
<1>2. Elements(SubSeq(s, 1, n)) \subseteq Elements(s)
  BY <1>1 DEF Elements
<1>3. Distinct(s) => Distinct(SubSeq(s, 1, n))
  BY <1>1 DEF Distinct
<1>4. n = Len(s) => SubSeq(s, 1, n) = s
  BY <1>1
<1> QED
  BY <1>1, <1>2, <1>3, <1>4

-----------------------------------------------------------------------------
(* Documents and their evidence *)

LEMMA Documents ==
  /\ \A k \in Known : Qid(k) \in Docs
  /\ \A c \in Cves : Cve(c) \in Docs
  /\ \A k, c : Qid(k) # Cve(c)
  /\ \A k, l : Qid(k) = Qid(l) => k = l
  /\ \A c, d : Cve(c) = Cve(d) => c = d
  /\ \A d \in Docs : \/ d.type = "qid" /\ d.id \in Known /\ d = Qid(d.id)
                     \/ d.type = "cve" /\ d.id \in Cves /\ d = Cve(d.id)
BY DEF Docs, Qid, Cve

LEMMA DraftsAre ==
  ASSUME NEW d \in Docs, NEW kind \in QidKinds \cup CveKinds, NEW n \in Nat
  PROVE  /\ Drafts(d, kind, n) \in Seq(Evidence)
         /\ Distinct(Drafts(d, kind, n))
         /\ \A e \in Elements(Drafts(d, kind, n)) : e.doc = d /\ e.kind = kind
<1> DEFINE f == [i \in 1..n |-> [doc |-> d, kind |-> kind, nth |-> i]]
<1>1. f \in [1..n -> Evidence] /\ Drafts(d, kind, n) = f
  BY DEF Drafts, Evidence
<1>2. f \in Seq(Evidence) /\ DOMAIN f = 1..n
  BY <1>1
<1>3. \A i \in 1..n : f[i].doc = d /\ f[i].kind = kind /\ f[i].nth = i
  OBVIOUS
<1> HIDE DEF f
<1>4. Distinct(f)
  BY <1>2, <1>3 DEF Distinct
<1>5. \A e \in Elements(f) : e.doc = d /\ e.kind = kind
  BY <1>2, <1>3 DEF Elements
<1> QED
  BY <1>1, <1>2, <1>4, <1>5

(* Two lists of drafts without a kind in common. *)
LEMMA DraftsConcat ==
  ASSUME NEW s \in Seq(Evidence), Distinct(s), NEW t \in Seq(Evidence), Distinct(t),
         \A e \in Elements(s), f \in Elements(t) : e.kind # f.kind
  PROVE  /\ s \o t \in Seq(Evidence)
         /\ Distinct(s \o t)
         /\ Elements(s \o t) = Elements(s) \cup Elements(t)
<1>1. s \o t \in Seq(Evidence) /\ Elements(s \o t) = Elements(s) \cup Elements(t)
  BY ElementsOfConcat
<1>2. Elements(s) \cap Elements(t) = {}
  OBVIOUS
<1> QED
  BY <1>1, <1>2, DistinctConcat

LEMMA DiagnosisEvidenceIs ==
  ASSUME NEW k \in Known
  PROVE  /\ DiagnosisEvidence(k) \in Seq(Evidence)
         /\ Distinct(DiagnosisEvidence(k))
         /\ \A e \in Elements(DiagnosisEvidence(k)) : e.doc = Qid(k)
<1>1. PICK m \in Nat, n \in Nat :
         DiagnosisEvidence(k) = Drafts(Qid(k), "affected_versions", m)
                                \o Drafts(Qid(k), "package_update", n)
  <2>1. \A x \in QidKinds : DiagnosisSays[k][x] \in Nat
    BY EvidenceAssumption
  <2>2. /\ DiagnosisSays[k]["affected_versions"] \in Nat
        /\ DiagnosisSays[k]["package_update"] \in Nat
    BY <2>1 DEF QidKinds
  <2> QED
    BY <2>2 DEF DiagnosisEvidence
<1> DEFINE s == Drafts(Qid(k), "affected_versions", m)
           t == Drafts(Qid(k), "package_update", n)
<1>2. /\ Qid(k) \in Docs
      /\ "affected_versions" \in QidKinds \cup CveKinds
      /\ "package_update" \in QidKinds \cup CveKinds
  BY Documents DEF QidKinds
<1>3. /\ s \in Seq(Evidence) /\ Distinct(s)
      /\ \A e \in Elements(s) : e.doc = Qid(k) /\ e.kind = "affected_versions"
  BY <1>2, DraftsAre
<1>4. /\ t \in Seq(Evidence) /\ Distinct(t)
      /\ \A e \in Elements(t) : e.doc = Qid(k) /\ e.kind = "package_update"
  BY <1>2, DraftsAre
<1>5. DiagnosisEvidence(k) = s \o t
  BY <1>1
<1> HIDE DEF s, t
<1>6. \A e \in Elements(s), f \in Elements(t) : e.kind # f.kind
  BY <1>3, <1>4
<1>7. /\ s \o t \in Seq(Evidence) /\ Distinct(s \o t)
      /\ Elements(s \o t) = Elements(s) \cup Elements(t)
  BY <1>3, <1>4, <1>6, DraftsConcat
<1> QED
  BY <1>3, <1>4, <1>5, <1>7

LEMMA CveEvidenceIs ==
  ASSUME NEW c \in Cves
  PROVE  /\ CveEvidence(c) \in Seq(Evidence)
         /\ Distinct(CveEvidence(c))
         /\ \A e \in Elements(CveEvidence(c)) : e.doc = Cve(c)
<1>1. PICK m \in Nat, n \in Nat, p \in Nat, q \in Nat :
         CveEvidence(c) = Drafts(Cve(c), "required_action", m)
                          \o Drafts(Cve(c), "vendor_fix", n)
                          \o Drafts(Cve(c), "patch_reference", p)
                          \o Drafts(Cve(c), "advisory_reference", q)
  <2>1. MaxRefs \in Nat
    BY LimitsAssumption
  <2>2. \A x \in CveKinds : CveSays[c][x] \in Nat
    BY EvidenceAssumption
  <2>3. /\ CveSays[c]["required_action"] \in Nat /\ CveSays[c]["vendor_fix"] \in Nat
        /\ CveSays[c]["patch_reference"] \in Nat /\ CveSays[c]["advisory_reference"] \in Nat
    BY <2>2 DEF CveKinds
  <2>4. \A x, y \in Nat : Lesser(x, y) \in Nat
    BY DEF Lesser
  <2>5. /\ Lesser(CveSays[c]["required_action"], 1) \in Nat
        /\ Lesser(CveSays[c]["vendor_fix"], 1) \in Nat
        /\ Lesser(CveSays[c]["patch_reference"], MaxRefs) \in Nat
        /\ Lesser(CveSays[c]["advisory_reference"], MaxRefs) \in Nat
    BY <2>1, <2>3, <2>4
  <2> QED
    BY <2>5 DEF CveEvidence
<1> DEFINE s == Drafts(Cve(c), "required_action", m)
           t == Drafts(Cve(c), "vendor_fix", n)
           u == Drafts(Cve(c), "patch_reference", p)
           v == Drafts(Cve(c), "advisory_reference", q)
<1>2. /\ Cve(c) \in Docs
      /\ "required_action" \in QidKinds \cup CveKinds
      /\ "vendor_fix" \in QidKinds \cup CveKinds
      /\ "patch_reference" \in QidKinds \cup CveKinds
      /\ "advisory_reference" \in QidKinds \cup CveKinds
  BY Documents DEF CveKinds
<1>3. /\ s \in Seq(Evidence) /\ Distinct(s)
      /\ \A e \in Elements(s) : e.doc = Cve(c) /\ e.kind = "required_action"
  BY <1>2, DraftsAre
<1>4. /\ t \in Seq(Evidence) /\ Distinct(t)
      /\ \A e \in Elements(t) : e.doc = Cve(c) /\ e.kind = "vendor_fix"
  BY <1>2, DraftsAre
<1>5. /\ u \in Seq(Evidence) /\ Distinct(u)
      /\ \A e \in Elements(u) : e.doc = Cve(c) /\ e.kind = "patch_reference"
  BY <1>2, DraftsAre
<1>6. /\ v \in Seq(Evidence) /\ Distinct(v)
      /\ \A e \in Elements(v) : e.doc = Cve(c) /\ e.kind = "advisory_reference"
  BY <1>2, DraftsAre
<1>7. CveEvidence(c) = ((s \o t) \o u) \o v
  BY <1>1
<1> HIDE DEF s, t, u, v
<1>8. /\ s \o t \in Seq(Evidence) /\ Distinct(s \o t)
      /\ Elements(s \o t) = Elements(s) \cup Elements(t)
  <2>1. \A e \in Elements(s), f \in Elements(t) : e.kind # f.kind
    BY <1>3, <1>4
  <2> QED
    BY <1>3, <1>4, <2>1, DraftsConcat
<1> DEFINE st == s \o t
<1>9. /\ st \in Seq(Evidence) /\ Distinct(st)
      /\ \A e \in Elements(st) :
            e.doc = Cve(c) /\ (e.kind = "required_action" \/ e.kind = "vendor_fix")
  BY <1>3, <1>4, <1>8
<1>10. CveEvidence(c) = (st \o u) \o v
  BY <1>7
<1> HIDE DEF st
<1>11. /\ st \o u \in Seq(Evidence) /\ Distinct(st \o u)
       /\ Elements(st \o u) = Elements(st) \cup Elements(u)
  <2>1. \A e \in Elements(st), f \in Elements(u) : e.kind # f.kind
    BY <1>5, <1>9
  <2> QED
    BY <1>5, <1>9, <2>1, DraftsConcat
<1> DEFINE stu == st \o u
<1>12. /\ stu \in Seq(Evidence) /\ Distinct(stu)
       /\ \A e \in Elements(stu) : e.doc = Cve(c) /\ e.kind # "advisory_reference"
  BY <1>5, <1>9, <1>11
<1>13. CveEvidence(c) = stu \o v
  BY <1>10
<1> HIDE DEF stu
<1>14. /\ stu \o v \in Seq(Evidence) /\ Distinct(stu \o v)
       /\ Elements(stu \o v) = Elements(stu) \cup Elements(v)
  <2>1. \A e \in Elements(stu), f \in Elements(v) : e.kind # f.kind
    BY <1>6, <1>12
  <2> QED
    BY <1>6, <1>12, <2>1, DraftsConcat
<1> QED
  BY <1>6, <1>12, <1>13, <1>14

-----------------------------------------------------------------------------
(* What step 2 answered *)

LEMMA ResultsAre ==
  ASSUME NEW a \in Results
  PROVE  /\ a.matches \in Seq(Known) /\ a.cves \in [Known -> Seq(Cves)]
         /\ a.hits \in [Known -> Seq(Chunks)] /\ a.unknown \in SUBSET (Cves \cup Qids)
         /\ a.abstained \in BOOLEAN /\ a # Pending
BY ChoicesAssumption, PendingAssumption

LEMMA RetrievalElements ==
  ASSUME NEW s
  PROVE  Retrieval!Elements(s) = Elements(s)
BY DEF Retrieval!Elements, Elements

LEMMA AnswerIs ==
  ASSUME IInv, pc \notin BeforeAnswer
  PROVE  /\ answer.matches \in Seq(Known) /\ Matched \subseteq Known
         /\ Distinct(answer.matches)
         /\ answer.cves \in [Known -> Seq(Cves)] /\ answer.hits \in [Known -> Seq(Chunks)]
         /\ \A i \in DOMAIN answer.matches : answer.matches[i] \in Matched
         /\ \A k \in Matched : \A c \in Elements(answer.cves[k]) : Relevant(Cve(c))
         /\ \A k \in Matched : \A c \in Elements(Bundle[k]) : Relevant(Cve(c))
         /\ \A k \in Matched : \A x \in Elements(answer.hits[k]) : Relevant(Owner[x])
         /\ \A k \in Matched : Relevant(Qid(k))
<1>1. answer \in Results /\ Retrieval!Coherent(answer)
  BY DEF IInv, AnswerInv, Retrieval!Promised
<1>2. /\ answer.matches \in Seq(Known) /\ answer.cves \in [Known -> Seq(Cves)]
      /\ answer.hits \in [Known -> Seq(Chunks)]
  BY <1>1, ResultsAre
<1>3. Matched \subseteq Known /\ \A i \in DOMAIN answer.matches : answer.matches[i] \in Matched
  BY <1>2, ElementsOfSeq DEF Matched
<1>4. Distinct(answer.matches)
  BY <1>1 DEF Retrieval!Coherent, Distinct
<1>5. \A k \in Matched :
         /\ \A c \in Elements(answer.cves[k]) : k \in Elements(QidsFor[c])
         /\ \A x \in Elements(answer.hits[k]) : Retrieval!BelongsTo(Owner[x], k)
  BY <1>1, RetrievalElements DEF Retrieval!Coherent, Matched
<1>6. \A k \in Known : Elements(Bundle[k]) = {c \in Cves : k \in Elements(QidsFor[c])}
  BY CorpusAssumption
<1>7. \A k \in Matched : /\ Relevant(Qid(k))
                         /\ \A c \in Elements(Bundle[k]) : Relevant(Cve(c))
  BY DEF Relevant
<1>8. \A k \in Matched : Elements(answer.cves[k]) \subseteq Elements(Bundle[k])
  <2> SUFFICES ASSUME NEW k \in Matched, NEW c \in Elements(answer.cves[k])
               PROVE  c \in Elements(Bundle[k])
    OBVIOUS
  <2>1. k \in Known /\ answer.cves[k] \in Seq(Cves)
    BY <1>2, <1>3
  <2>2. c \in Cves
    BY <2>1, ElementsOfSeq
  <2> QED
    BY <1>5, <1>6, <2>1, <2>2
<1>9. ASSUME NEW k \in Matched, NEW x \in Elements(answer.hits[k]) PROVE Relevant(Owner[x])
  <2>1. k \in Known /\ answer.hits[k] \in Seq(Chunks)
    BY <1>2, <1>3
  <2>2. x \in Chunks
    BY <2>1, ElementsOfSeq
  <2>3. Owner[x] \in Docs
    BY <2>2, CorpusAssumption
  <2>4. CASE Owner[x].type = "qid"
    <3>1. Owner[x] = Qid(k)
      BY <1>5, <2>3, <2>4, Documents DEF Retrieval!BelongsTo
    <3> QED
      BY <1>7, <3>1
  <2>5. CASE Owner[x].type = "cve"
    <3>1. Owner[x].id \in Cves /\ Owner[x] = Cve(Owner[x].id)
      BY <2>3, <2>5, Documents
    <3>2. k \in Elements(QidsFor[Owner[x].id])
      BY <1>5, <2>5, RetrievalElements DEF Retrieval!BelongsTo
    <3>3. Owner[x].id \in Elements(Bundle[k])
      BY <1>6, <2>1, <3>1, <3>2
    <3> QED
      BY <1>7, <3>1, <3>3
  <2> QED
    BY <2>3, <2>4, <2>5, Documents
<1> QED
  BY <1>2, <1>3, <1>4, <1>7, <1>8, <1>9

LEMMA ConsultedIs ==
  ASSUME IInv, pc \notin BeforeAnswer, NEW k \in Matched
  PROVE  /\ Consulted(k) \in Seq(Cves)
         /\ Elements(Consulted(k)) \subseteq Cves
         /\ \A c \in Elements(Consulted(k)) : Relevant(Cve(c))
<1>1. k \in Known /\ Bundle[k] \in Seq(Cves) /\ answer.cves[k] \in Seq(Cves)
  BY AnswerIs, QidsAssumption
<1>2. Consulted(k) \in {Bundle[k], answer.cves[k]}
  BY DEF Consulted
<1>3. \A c \in Elements(Consulted(k)) : Relevant(Cve(c))
  BY <1>2, AnswerIs
<1> QED
  BY <1>1, <1>2, <1>3, ElementsOfSeq

LEMMA Frame ==
  ASSUME answer' = answer
  PROVE  /\ Matched' = Matched
         /\ \A d : Relevant(d)' <=> Relevant(d)
         /\ \A k : Consulted(k)' = Consulted(k)
BY DEF Matched, Relevant, Consulted

-----------------------------------------------------------------------------
(* Initial states *)

LEMMA QueriesAre ==
  ASSUME NEW q \in Queries
  PROVE  /\ q.cves \in Seq(Cves) /\ q.qids \in Seq(Qids) /\ q.blank \in BOOLEAN
         /\ Typed(q) \in [cves : Seq(Cves), qids : Seq(Qids), queries : 0..MaxSearchQueries + 1,
                   product : Readings]
<1>1. /\ q.cves \in Seq(Cves) /\ q.qids \in Seq(Qids) /\ q.blank \in BOOLEAN
  BY QueriesAssumption
<1>2. 0 \in 0..MaxSearchQueries + 1 /\ 1 \in 0..MaxSearchQueries + 1
  BY LimitsAssumption
<1> QED
  BY <1>1, <1>2, NamesAssumption DEF Typed

LEMMA InitIInv == Init => IInv
<1> SUFFICES ASSUME Init PROVE IInv
  OBVIOUS
<1>1. TypeOK
  <2>1. NoCaveats \in Caveats
    BY DEF NoCaveats, Caveats
  <2>2. <<>> \in Seq(Cves) /\ <<>> \in Seq(Evidence) /\ <<>> \in Seq(Text) /\ <<>> \in Seq(Chunks)
        /\ <<>> \in Seq(Sources)
    OBVIOUS
  <2>3. parsed \in [cves : Seq(Cves), qids : Seq(Qids), queries : 0..MaxSearchQueries + 1,
                   product : Readings]
    BY QueriesAre DEF Init
  <2> QED
    BY <2>1, <2>2, <2>3 DEF Init, TypeOK, Steps
<1>2. ParsedInv /\ AnswerInv /\ HostsInv
  BY DEF Init, ParsedInv, Typed, AnswerInv, HostsInv, BeforeAnswer
<1>3. Distinct(<<>>) /\ Elements(<<>>) = {}
  BY DEF Distinct, Elements
<1>4. EvidenceInv
  BY <1>3 DEF Init, EvidenceInv, BeforeAnswer, Collecting
<1>5. ChunksInv
  BY DEF Init, ChunksInv, BeforeAnswer, Collecting
<1>6. ItemsInv
  BY <1>3 DEF Init, ItemsInv, Capped, Written
<1>7. WriteInv
  BY DEF Init, WriteInv, Written, VerifiedClaimsAreGrounded
<1> QED
  BY <1>1, <1>2, <1>4, <1>5, <1>6, <1>7 DEF IInv

-----------------------------------------------------------------------------
(* Types *)

LEMMA Places ==
  ASSUME IInv, pc \notin BeforeAnswer
  PROVE  /\ place \in Nat \ {0} /\ Len(answer.matches) \in Nat
         /\ DOMAIN answer.matches = 1..Len(answer.matches)
<1>1. place \in Nat \ {0}
  BY DEF IInv, TypeOK
<1>2. answer.matches \in Seq(Known)
  BY AnswerIs
<1> QED
  BY <1>1, <1>2

LEMMA PlaceIs ==
  ASSUME IInv, pc \notin BeforeAnswer, place <= Len(answer.matches)
  PROVE  place \in DOMAIN answer.matches /\ Match \in Matched /\ Match \in Known
<1>1. place \in Nat \ {0} /\ answer.matches \in Seq(Known)
  BY AnswerIs DEF IInv, TypeOK
<1>2. place \in DOMAIN answer.matches
  BY <1>1
<1> QED
  BY <1>2, AnswerIs DEF Match

LEMMA KeptIs ==
  ASSUME IInv
  PROVE  /\ Kept \in Nat /\ Kept <= MaxContextItems /\ Kept <= Len(evidence)
         /\ [i \in 1..Kept |-> EvidenceItem(i)] \in Seq(Sources)
         /\ Lesser(Len(items), MaxContextItems - Kept) \in 0..Len(items)
<1>1. MaxContextItems \in Nat /\ Len(evidence) \in Nat /\ Len(items) \in Nat
  <2>1. MaxContextItems \in Nat
    BY LimitsAssumption
  <2>2. evidence \in Seq(Evidence) /\ items \in Seq(Sources)
    BY DEF IInv, TypeOK
  <2>3. Len(evidence) \in Nat /\ Len(items) \in Nat
    BY <2>2
  <2> QED
    BY <2>1, <2>3
<1>2. MaxContextItems \div 2 \in Nat /\ MaxContextItems \div 2 <= MaxContextItems
  BY <1>1
<1>3. Kept \in Nat /\ Kept <= MaxContextItems /\ Kept <= Len(evidence)
  BY <1>1, <1>2 DEF Kept, Lesser
<1>4. \A i \in 1..Kept : EvidenceItem(i) \in Sources
  BY <1>3 DEF EvidenceItem, Sources
<1>5. [i \in 1..Kept |-> EvidenceItem(i)] \in [1..Kept -> Sources]
  BY <1>4
<1> HIDE DEF Kept
<1>6. [i \in 1..Kept |-> EvidenceItem(i)] \in Seq(Sources)
  BY <1>3, <1>5
<1>7. Lesser(Len(items), MaxContextItems - Kept) \in 0..Len(items)
  BY <1>1, <1>3 DEF Lesser
<1> QED
  BY <1>3, <1>6, <1>7

(* The documents whose text stands for a match without hits. *)
LEMMA WriteUpIs ==
  ASSUME NEW k \in Known, NEW s \in Seq(Cves)
  PROVE  LET d == <<Qid(k)>> \o [i \in DOMAIN s |-> Cve(s[i])]
         IN  /\ d \in Seq(Docs)
             /\ Elements(d) = {Qid(k)} \cup {Cve(c) : c \in Elements(s)}
<1> DEFINE f == [i \in DOMAIN s |-> Cve(s[i])]
<1>1. Len(s) \in Nat /\ DOMAIN s = 1..Len(s) /\ \A i \in 1..Len(s) : s[i] \in Cves
  OBVIOUS
<1>2. f \in [1..Len(s) -> Docs]
  BY <1>1, Documents
<1>3. f \in Seq(Docs) /\ Elements(f) = {Cve(c) : c \in Elements(s)}
  BY <1>1, <1>2 DEF Elements
<1>4. <<Qid(k)>> \in Seq(Docs) /\ Elements(<<Qid(k)>>) = {Qid(k)}
  BY Documents DEF Elements
<1> HIDE DEF f
<1>5. <<Qid(k)>> \o f \in Seq(Docs) /\ Elements(<<Qid(k)>> \o f) = Elements(<<Qid(k)>>) \cup Elements(f)
  BY <1>3, <1>4, ElementsOfConcat
<1> QED
  BY <1>3, <1>4, <1>5 DEF f

LEMMA KeptWriteUpIs ==
  ASSUME TypeOK
  PROVE  LET s == SubSeq(writeup, 1, Lesser(ContextCount, Len(writeup)))
         IN  /\ s \in Seq(Chunks) /\ Elements(s) \subseteq Elements(writeup)
             /\ chunks \o s \in Seq(Chunks)
             /\ Elements(chunks \o s) = Elements(chunks) \cup Elements(s)
<1>1. writeup \in Seq(Chunks) /\ chunks \in Seq(Chunks) /\ Len(writeup) \in Nat
  BY CorpusAssumption DEF TypeOK
<1>2. Lesser(ContextCount, Len(writeup)) \in 0..Len(writeup)
  BY <1>1, LimitsAssumption DEF Lesser
<1> DEFINE s == SubSeq(writeup, 1, Lesser(ContextCount, Len(writeup)))
<1>3. s \in Seq(Chunks) /\ Elements(s) \subseteq Elements(writeup)
  BY <1>1, <1>2, ElementsOfPrefix
<1> HIDE DEF s
<1>4. /\ chunks \o s \in Seq(Chunks)
      /\ Elements(chunks \o s) = Elements(chunks) \cup Elements(s)
  BY <1>1, <1>3, ElementsOfConcat
<1> QED
  BY <1>3, <1>4 DEF s

LEMMA TypesStep ==
  ASSUME IInv, [Next]_vars
  PROVE  TypeOK'
<1> USE DEF parse_vars, match_vars, fix_vars, gather_vars, brief_vars
<1>0. TypeOK
  BY DEF IInv
<1>1. CASE UNCHANGED vars
  BY <1>0, <1>1 DEF vars, TypeOK
<1>2. CASE Accept \/ SkipParse \/ ParseFailed
  <2>1. CASE Accept
    BY <1>0, <2>1 DEF Accept, TypeOK, Steps
  <2>2. CASE SkipParse
    BY <1>0, <2>2 DEF SkipParse, TypeOK, Steps
  <2>3. CASE ParseFailed
    <3>1. notices' \in SUBSET Notices
      BY <1>0, <2>3 DEF ParseFailed, TypeOK, Notices
    <3> QED
      BY <1>0, <2>3, <3>1 DEF ParseFailed, TypeOK, Steps
  <2> QED
    BY <1>2, <2>1, <2>2, <2>3
<1>3. CASE ParseRead
  <2>1. PICK n \in 0..MaxSearchQueries, names \in Readings :
           parsed' = [parsed EXCEPT !.queries = n + 1, !.product = names]
    BY <1>3 DEF ParseRead
  <2>2. n + 1 \in 0..MaxSearchQueries + 1
    BY <2>1, LimitsAssumption
  <2>3. parsed' \in [cves : Seq(Cves), qids : Seq(Qids), queries : 0..MaxSearchQueries + 1,
                   product : Readings]
    BY <1>0, <2>1, <2>2 DEF TypeOK
  <2> QED
    BY <1>0, <1>3, <2>3 DEF ParseRead, TypeOK, Steps
<1>4. CASE Retrieve
  BY <1>0, <1>4 DEF Retrieve, TypeOK, Steps
<1>5. CASE Rank
  <2>1. pc \notin BeforeAnswer
    BY <1>5 DEF Rank, BeforeAnswer
  <2>2. found' \in [Hosts -> SUBSET Known] /\ hosts' \in SUBSET Running /\ inactive' \in SUBSET Hosts
    BY <1>5, <2>1, AnswerIs DEF Rank
  <2> QED
    BY <1>0, <1>5, <2>2 DEF Rank, TypeOK, Steps
<1>6. CASE CollectQid
  <2>1. pc \notin BeforeAnswer /\ place <= Len(answer.matches)
    BY <1>6 DEF CollectQid, BeforeAnswer
  <2>2. Match \in Matched /\ Match \in Known
    BY <2>1, PlaceIs
  <2>3. todo' \in Seq(Cves)
    BY <1>6, <2>1, <2>2, ConsultedIs DEF CollectQid
  <2>4. docs' \in SUBSET Docs /\ evidence' \in Seq(Evidence)
    <3>1. DiagnosisEvidence(Match) \in Seq(Evidence) /\ Qid(Match) \in Docs
      BY <2>2, DiagnosisEvidenceIs, Documents
    <3>2. evidence \o DiagnosisEvidence(Match) \in Seq(Evidence)
      BY <1>0, <3>1 DEF TypeOK
    <3> QED
      BY <1>0, <1>6, <3>1, <3>2 DEF CollectQid, TypeOK
  <2> QED
    BY <1>0, <1>6, <2>3, <2>4 DEF CollectQid, TypeOK, Steps
<1>7. CASE CollectCve
  <2>1. todo \in Seq(Cves) /\ todo # <<>>
    BY <1>7 DEF CollectCve, IInv, EvidenceInv
  <2>2. Head(todo) \in Cves /\ Tail(todo) \in Seq(Cves)
    BY <2>1
  <2>3. CveEvidence(Head(todo)) \in Seq(Evidence) /\ Cve(Head(todo)) \in Docs
    BY <2>2, CveEvidenceIs, Documents
  <2>4. evidence \o CveEvidence(Head(todo)) \in Seq(Evidence)
    BY <1>0, <2>3 DEF TypeOK
  <2> QED
    BY <1>0, <1>7, <2>2, <2>3, <2>4 DEF CollectCve, TypeOK, Steps
<1>8. CASE SearchFixes
  <2>1. fixes' \in Seq(Text)
    BY <1>0, <1>8, ChoicesAssumption DEF SearchFixes, TypeOK
  <2> QED
    BY <1>0, <1>8, <2>1 DEF SearchFixes, TypeOK, Steps
<1>9. CASE Gather
  <2>1. pc \notin BeforeAnswer /\ place <= Len(answer.matches)
    BY <1>9 DEF Gather, BeforeAnswer
  <2>2. Match \in Known /\ answer.hits[Match] \in Seq(Chunks) /\ answer.cves[Match] \in Seq(Cves)
    BY <2>1, PlaceIs, AnswerIs
  <2>3. CASE answer.hits[Match] # <<>>
    <3>1. chunks \in Seq(Chunks) /\ place \in Nat \ {0}
      BY <1>0 DEF TypeOK
    <3>2. chunks' = chunks \o answer.hits[Match] /\ place' = place + 1
      BY <1>9, <2>3 DEF Gather
    <3>3. chunks' \in Seq(Chunks) /\ place' \in Nat \ {0}
      BY <2>2, <3>1, <3>2, ElementsOfConcat
    <3> QED
      BY <1>0, <1>9, <2>3, <3>3 DEF Gather, TypeOK, Steps
  <2>4. CASE answer.hits[Match] = <<>>
    <3>1. todo' \in Seq(Docs)
      BY <1>9, <2>2, <2>4, WriteUpIs DEF Gather
    <3> QED
      BY <1>0, <1>9, <2>4, <3>1 DEF Gather, TypeOK, Steps
  <2> QED
    BY <2>3, <2>4
<1>10. CASE Fetch
  <2>1. todo \in Seq(Docs) /\ todo # <<>>
    BY <1>10 DEF Fetch, IInv, ChunksInv
  <2>2. Head(todo) \in Docs /\ Tail(todo) \in Seq(Docs)
    BY <2>1
  <2>3. writeup \o ProseOf[Head(todo)] \in Seq(Text)
    <3>1. ProseOf[Head(todo)] \in Seq(Text)
      BY <2>2, CorpusAssumption
    <3> QED
      BY <1>0, <3>1 DEF TypeOK
  <2> QED
    BY <1>0, <1>10, <2>2, <2>3 DEF Fetch, TypeOK
<1>11. CASE EndOfFetch
  <2>1. chunks' \in Seq(Chunks)
    BY <1>0, <1>11, KeptWriteUpIs DEF EndOfFetch, TypeOK
  <2>2. place' \in Nat \ {0} /\ writeup' \in Seq(Text)
    BY <1>0, <1>11 DEF EndOfFetch, TypeOK
  <2> QED
    BY <1>0, <1>11, <2>1, <2>2 DEF EndOfFetch, TypeOK, Steps
<1>12. CASE GatherFixes
  <2>1. fixes \in Seq(Chunks)
    BY <1>0, CorpusAssumption DEF TypeOK
  <2>2. chunks' \in Seq(Chunks)
    BY <1>0, <1>12, <2>1 DEF GatherFixes, TypeOK
  <2> QED
    BY <1>0, <1>12, <2>2 DEF GatherFixes, TypeOK, Steps
<1>13. CASE Place
  <2>1. Head(chunks) \in Chunks /\ Tail(chunks) \in Seq(Chunks)
    BY <1>0, <1>13 DEF Place, TypeOK
  <2>2. ChunkItem(Head(chunks)) \in Sources
    BY <2>1 DEF ChunkItem, Sources
  <2>3. items' \in Seq(Sources)
    <3>1. items \in Seq(Sources)
      BY <1>0 DEF TypeOK
    <3>2. Append(items, ChunkItem(Head(chunks))) \in Seq(Sources)
      BY <2>2, <3>1
    <3> QED
      BY <1>13, <3>1, <3>2 DEF Place
  <2> QED
    BY <1>0, <1>13, <2>1, <2>3 DEF Place, TypeOK
<1>14. CASE Cap
  <2>1. SubSeq(items, 1, Lesser(Len(items), MaxContextItems - Kept)) \in Seq(Sources)
    BY <1>0, KeptIs, ElementsOfPrefix DEF TypeOK
  <2>2. context' \in Seq(Sources)
    BY <1>14, <2>1, KeptIs, ElementsOfConcat DEF Cap
  <2> QED
    BY <1>0, <1>14, <2>2 DEF Cap, TypeOK, Steps
<1>15. CASE Caveat
  <2>1. pc \notin BeforeAnswer
    BY <1>15 DEF Caveat, BeforeAnswer
  <2>2. answer.unknown \in SUBSET (Cves \cup Qids) /\ Matched \subseteq Known
    BY <2>1, ResultsAre, AnswerIs DEF IInv, AnswerInv
  <2>3. caveats' \in Caveats
    BY <1>15, <2>2 DEF Caveat, Caveats, Said
  <2> QED
    BY <1>0, <1>15, <2>3 DEF Caveat, TypeOK, Steps
<1>16. CASE SkipWrite \/ WriteFailed \/ EndOfCves
  <2>1. CASE SkipWrite
    BY <1>0, <2>1 DEF SkipWrite, TypeOK, Steps, Notices
  <2>2. CASE WriteFailed
    BY <1>0, <2>2 DEF WriteFailed, TypeOK, Steps, Notices
  <2>3. CASE EndOfCves
    BY <1>0, <2>3 DEF EndOfCves, TypeOK, Steps
  <2> QED
    BY <1>16, <2>1, <2>2, <2>3
<1>17. CASE WriteRead
  <2>1. brief' \in Briefs /\ brief' # Pending
    BY <1>17, PendingAssumption DEF WriteRead
  <2> QED
    BY <1>0, <1>17, <2>1 DEF WriteRead, TypeOK, Steps
<1>18. CASE Verify
  <2>1. brief \in Briefs /\ brief # Pending
    BY <1>0, <1>18 DEF Verify, IInv, WriteInv, TypeOK
  <2>2. brief.claims \in Seq(Claims) /\ brief.prose \in SUBSET Names
    BY <2>1, ChoicesAssumption
  <2>3. verified' \in SUBSET Nat
    BY <1>18, <2>2 DEF Verify
  <2>4. unknown' \in SUBSET Names
    <3>1. \A n : Unknown(n) \subseteq n
      BY DEF Unknown
    <3>2. \A i \in DOMAIN brief.claims : brief.claims[i].names \in SUBSET Names
      <4>1. \A i \in DOMAIN brief.claims : brief.claims[i] \in Claims
        BY <2>2, ElementsOfSeq
      <4> QED
        BY <4>1 DEF Claims
    <3> QED
      BY <1>18, <2>2, <3>1, <3>2 DEF Verify
  <2> QED
    BY <1>0, <1>18, <2>1, <2>3, <2>4 DEF Verify, TypeOK, Steps
<1>19. CASE Ended
  BY <1>1, <1>19 DEF Ended
<1> QED
  BY <1>1, <1>2, <1>3, <1>4, <1>5, <1>6, <1>7, <1>8, <1>9, <1>10, <1>11, <1>12, <1>13, <1>14,
     <1>15, <1>16, <1>17, <1>18, <1>19 DEF Next

-----------------------------------------------------------------------------
(* What each phase leaves alone *)

LEMMA EarlySteps ==
  ASSUME TypeOK, [Next]_vars, pc \in BeforeAnswer
  PROVE  /\ UNCHANGED <<provider, query, found, hosts, inactive, place, todo, fix_vars,
                        gather_vars, caveats, brief_vars>>
         /\ \/ pc' \in BeforeAnswer /\ answer' = answer
            \/ /\ pc = "retrieve" /\ pc' = "rank" /\ UNCHANGED <<parsed, notices>>
               /\ answer' \in Results /\ Retrieval!Promised(parsed, answer')
         /\ \/ pc' = pc
            \/ pc = "new" /\ pc' = "refused"
            \/ pc = "new" /\ pc' = "parse" /\ ~query.blank
            \/ pc = "parse" /\ pc' = "retrieve"
            \/ pc = "retrieve" /\ pc' = "rank"
         /\ parsed'.cves = parsed.cves /\ parsed'.qids = parsed.qids
         /\ notices' = notices \/ notices' = notices \cup {"parse failed"}
<1> USE DEF parse_vars, match_vars, fix_vars, gather_vars, brief_vars, BeforeAnswer
<1>1. CASE UNCHANGED vars
  BY <1>1 DEF vars
<1>2. CASE Accept
  BY <1>2 DEF Accept
<1>3. CASE SkipParse \/ ParseFailed
  BY <1>3 DEF SkipParse, ParseFailed
<1>4. CASE ParseRead
  BY <1>4 DEF ParseRead, TypeOK
<1>5. CASE Retrieve
  BY <1>5 DEF Retrieve
<1>6. ASSUME Next PROVE \/ Accept \/ SkipParse \/ ParseFailed \/ ParseRead \/ Retrieve
                        \/ UNCHANGED vars
  BY <1>6 DEF Next, Rank, CollectQid, CollectCve, EndOfCves, SearchFixes, Gather, Fetch, EndOfFetch,
     GatherFixes, Place, Cap, Caveat, SkipWrite, WriteFailed, WriteRead, Verify, Ended
<1> QED
  BY <1>1, <1>2, <1>3, <1>4, <1>5, <1>6

LEMMA LateSteps ==
  ASSUME [Next]_vars, pc \notin BeforeAnswer
  PROVE  UNCHANGED <<provider, query, parsed, answer>> /\ pc' \notin BeforeAnswer
BY DEF BeforeAnswer, parse_vars, match_vars, vars, Next, Accept, SkipParse, ParseFailed, ParseRead,
   Retrieve, Rank, CollectQid, CollectCve, EndOfCves, SearchFixes, Gather, Fetch, EndOfFetch,
   GatherFixes, Place, Cap, Caveat, SkipWrite, WriteFailed, WriteRead, Verify, Ended

LEMMA RankedSteps ==
  ASSUME [Next]_vars, pc \notin BeforeAnswer \cup {"rank"}
  PROVE  UNCHANGED match_vars /\ pc' \notin BeforeAnswer \cup {"rank"}
BY DEF BeforeAnswer, parse_vars, match_vars, vars, Next, Accept, SkipParse, ParseFailed, ParseRead,
   Retrieve, Rank, CollectQid, CollectCve, EndOfCves, SearchFixes, Gather, Fetch, EndOfFetch,
   GatherFixes, Place, Cap, Caveat, SkipWrite, WriteFailed, WriteRead, Verify, Ended

LEMMA CollectedSteps ==
  ASSUME [Next]_vars, pc \notin BeforeAnswer \cup {"rank"} \cup Collecting
  PROVE  /\ UNCHANGED <<match_vars, fix_vars>>
         /\ pc' \notin BeforeAnswer \cup {"rank"} \cup Collecting
BY DEF BeforeAnswer, Collecting, parse_vars, match_vars, fix_vars, vars, Next, Accept, SkipParse,
   ParseFailed, ParseRead,
   Retrieve, Rank, CollectQid, CollectCve, EndOfCves, SearchFixes, Gather, Fetch, EndOfFetch,
   GatherFixes, Place, Cap, Caveat, SkipWrite, WriteFailed, WriteRead, Verify, Ended

LEMMA CappedSteps ==
  ASSUME [Next]_vars, pc \in Capped
  PROVE  UNCHANGED <<match_vars, fix_vars, gather_vars>> /\ pc' \in Capped
BY DEF Capped, Written, parse_vars, match_vars, fix_vars, gather_vars, vars, Next, Accept,
   SkipParse, ParseFailed, ParseRead,
   Retrieve, Rank, CollectQid, CollectCve, EndOfCves, SearchFixes, Gather, Fetch, EndOfFetch,
   GatherFixes, Place, Cap, Caveat, SkipWrite, WriteFailed, WriteRead, Verify, Ended

(* The query is never changed, and only phrasings and a product, read by a *)
(* language model, are added to its parse.                                 *)
LEMMA ParsedStep ==
  ASSUME IInv, [Next]_vars
  PROVE  ParsedInv'
<1>1. CASE pc \in BeforeAnswer
  BY <1>1, EarlySteps DEF IInv, ParsedInv
<1>2. CASE pc \notin BeforeAnswer
  BY <1>2, LateSteps DEF IInv, ParsedInv
<1> QED
  BY <1>1, <1>2

LEMMA AnswerStep ==
  ASSUME IInv, [Next]_vars
  PROVE  AnswerInv'
<1>1. CASE pc \in BeforeAnswer
  <2>1. answer = Pending /\ (pc \in {"parse", "retrieve"} => ~query.blank) /\ query' = query
    BY <1>1, EarlySteps DEF IInv, AnswerInv, BeforeAnswer
  <2>2. CASE pc' \in BeforeAnswer /\ answer' = answer
    <3>1. pc' \notin {"new", "refused"} => ~query.blank
      BY <1>1, <2>1, <2>2, EarlySteps DEF IInv, BeforeAnswer
    <3> QED
      BY <2>1, <2>2, <3>1 DEF AnswerInv
  <2>3. CASE pc = "retrieve" /\ pc' = "rank" /\ parsed' = parsed
             /\ answer' \in Results /\ Retrieval!Promised(parsed, answer')
    BY <2>1, <2>3 DEF AnswerInv, BeforeAnswer
  <2> QED
    BY <1>1, <2>2, <2>3, EarlySteps DEF IInv
<1>2. CASE pc \notin BeforeAnswer
  BY <1>2, LateSteps DEF IInv, AnswerInv
<1> QED
  BY <1>1, <1>2

LEMMA HostsStep ==
  ASSUME IInv, [Next]_vars
  PROVE  HostsInv'
<1>1. CASE pc \in BeforeAnswer
  <2>1. pc' \in BeforeAnswer \cup {"rank"}
    BY <1>1, EarlySteps DEF IInv
  <2> QED
    BY <2>1 DEF HostsInv
<1>2. CASE pc = "rank"
  <2>1. CASE UNCHANGED vars
    BY <1>2, <2>1 DEF vars, HostsInv
  <2>2. CASE Rank
    BY <2>2 DEF Rank, HostsInv, Matched
  <2> QED
    BY <1>2, <2>1, <2>2 DEF Next, Accept, SkipParse, ParseFailed, ParseRead, Retrieve, CollectQid,
       CollectCve, EndOfCves, SearchFixes, Gather, Fetch, EndOfFetch, GatherFixes, Place, Cap,
       Caveat, SkipWrite, WriteFailed, WriteRead, Verify, Ended
<1>3. CASE pc \notin BeforeAnswer \cup {"rank"}
  <2>1. UNCHANGED match_vars /\ HostsInv
    BY <1>3, RankedSteps DEF IInv
  <2> QED
    BY <1>3, <2>1 DEF match_vars, HostsInv, Matched
<1> QED
  BY <1>1, <1>2, <1>3

-----------------------------------------------------------------------------
(* Step 5: evidence *)

(* What a document not met before says is added. *)
LEMMA MoreEvidence ==
  ASSUME IInv, NEW d \in Docs, d \notin docs, docs' = docs \cup {d},
         NEW more \in Seq(Evidence), Distinct(more), \A e \in Elements(more) : e.doc = d,
         evidence' = evidence \o more
  PROVE  /\ Distinct(evidence)'
         /\ Elements(evidence') = Elements(evidence) \cup Elements(more)
         /\ \A e \in Elements(evidence') : e.doc \in docs'
<1>1. evidence \in Seq(Evidence) /\ Distinct(evidence) /\ \A e \in Elements(evidence) : e.doc \in docs
  BY DEF IInv, TypeOK, EvidenceInv
<1>2. Elements(evidence) \cap Elements(more) = {}
  BY <1>1
<1>3. Distinct(evidence \o more) /\ Elements(evidence \o more) = Elements(evidence) \cup Elements(more)
  BY <1>1, <1>2, DistinctConcat, ElementsOfConcat
<1>4. Distinct(evidence)'
  BY <1>3 DEF Distinct
<1> QED
  BY <1>1, <1>3, <1>4

(* EvidenceInv, of the documents and of the matches passed so far, after a *)
(* step that only adds.                                                    *)
LEMMA MoreIsTold ==
  ASSUME IInv, answer' = answer, docs \subseteq docs', Elements(evidence) \subseteq Elements(evidence'),
         pc \in Collecting, NEW i \in DOMAIN answer.matches, i < place
  PROVE  /\ Told(answer.matches[i])'
         /\ \A c \in Elements(Consulted(answer.matches[i])) : Cve(c) \in docs'
BY DEF IInv, EvidenceInv, Told

LEMMA CollectQidStep ==
  ASSUME IInv, CollectQid
  PROVE  EvidenceInv'
<1> USE DEF Collecting, BeforeAnswer
<1>1. /\ pc = "evidence" /\ pc' = "cve" /\ place' = place /\ answer' = answer
      /\ place <= Len(answer.matches) /\ todo' = Consulted(Match)
  BY DEF CollectQid, match_vars
<1>2. /\ place \in DOMAIN answer.matches /\ Match \in Matched /\ Match \in Known
      /\ Distinct(answer.matches) /\ Relevant(Qid(Match))
  BY <1>1, PlaceIs, AnswerIs
<1>3. Consulted(Match) \in Seq(Cves)
  BY <1>1, <1>2, ConsultedIs
<1>4. Qid(Match) \notin docs /\ Match' = Match
  BY <1>1, <1>2 DEF IInv, EvidenceInv, Match
<1>5. /\ Distinct(evidence)'
      /\ \A e \in Elements(evidence') : e.doc \in docs'
      /\ docs \subseteq docs' /\ docs' \subseteq docs \cup {Qid(Match)}
      /\ Elements(evidence) \subseteq Elements(evidence')
      /\ Match \in Diagnosed => Elements(DiagnosisEvidence(Match)) \subseteq Elements(evidence')
  <2>1. CASE Match \in Diagnosed
    <3>1. docs' = docs \cup {Qid(Match)} /\ evidence' = evidence \o DiagnosisEvidence(Match)
      BY <2>1 DEF CollectQid
    <3>2. /\ Qid(Match) \in Docs
          /\ DiagnosisEvidence(Match) \in Seq(Evidence) /\ Distinct(DiagnosisEvidence(Match))
          /\ \A e \in Elements(DiagnosisEvidence(Match)) : e.doc = Qid(Match)
      BY <1>2, Documents, DiagnosisEvidenceIs
    <3> QED
      BY <1>4, <3>1, <3>2, MoreEvidence
  <2>2. CASE Match \notin Diagnosed
    BY <2>2 DEF CollectQid, IInv, EvidenceInv, Distinct
  <2> QED
    BY <2>1, <2>2
<1>6. \A d \in docs' : Relevant(d)'
  BY <1>1, <1>2, <1>5, Frame DEF IInv, EvidenceInv
<1>7. \A c \in Cves : Cve(c) \in docs' => Elements(CveEvidence(c)) \subseteq Elements(evidence')
  BY <1>5, Documents DEF IInv, EvidenceInv
<1>8. \A i \in DOMAIN answer.matches : i < place =>
         /\ Told(answer.matches[i])'
         /\ \A c \in Elements(Consulted(answer.matches[i])) : Cve(c) \in docs'
  BY <1>1, <1>5, MoreIsTold
<1>9. \A i \in DOMAIN answer.matches : i > place => Qid(answer.matches[i]) \notin docs'
  <2> SUFFICES ASSUME NEW i \in DOMAIN answer.matches, i > place
               PROVE  Qid(answer.matches[i]) \notin docs'
    OBVIOUS
  <2>1. i # place /\ i >= place
    BY <1>1, <1>2, Places
  <2>2. answer.matches[i] # Match
    BY <1>2, <2>1 DEF Match, Distinct
  <2>3. Qid(answer.matches[i]) \notin docs
    BY <1>1, <2>1 DEF IInv, EvidenceInv
  <2> QED
    BY <1>5, <2>2, <2>3, Documents
<1>10. Told(Match)'
  BY <1>4, <1>5 DEF Told
<1> QED
  BY <1>1, <1>2, <1>3, <1>4, <1>5, <1>6, <1>7, <1>8, <1>9, <1>10, Frame DEF EvidenceInv

LEMMA CollectCveStep ==
  ASSUME IInv, CollectCve
  PROVE  EvidenceInv'
<1> USE DEF Collecting, BeforeAnswer
<1>1. /\ pc = "cve" /\ pc' = "cve" /\ place' = place /\ answer' = answer
      /\ todo # <<>> /\ todo' = Tail(todo)
  BY DEF CollectCve, match_vars
<1>2. /\ place \in DOMAIN answer.matches /\ todo \in Seq(Cves)
      /\ Elements(todo) \subseteq Elements(Consulted(Match)) /\ Told(Match)
      /\ \A c \in Elements(Consulted(Match)) : Cve(c) \in docs \/ c \in Elements(todo)
      /\ \A i \in DOMAIN answer.matches : i > place => Qid(answer.matches[i]) \notin docs
  BY <1>1 DEF IInv, EvidenceInv
<1> DEFINE c == Head(todo)
<1>3. /\ c \in Cves /\ Tail(todo) \in Seq(Cves)
      /\ Elements(todo) = {c} \cup Elements(Tail(todo))
  BY <1>1, <1>2, ElementsOfTail
<1>4. Match' = Match /\ Match \in Matched /\ c \in Elements(Consulted(Match))
  <2>1. Match \in Matched
    BY <1>1, <1>2, AnswerIs DEF Match
  <2> QED
    BY <1>1, <1>2, <1>3, <2>1 DEF Match
<1>5. Relevant(Cve(c))
  BY <1>1, <1>4, ConsultedIs
<1> HIDE DEF c
<1>6. /\ Distinct(evidence)'
      /\ \A e \in Elements(evidence') : e.doc \in docs'
      /\ docs' = docs \cup {Cve(c)}
      /\ Elements(evidence) \subseteq Elements(evidence')
      /\ Elements(CveEvidence(c)) \subseteq Elements(evidence')
  <2>1. CASE Cve(c) \in docs
    BY <1>3, <2>1 DEF CollectCve, IInv, EvidenceInv, Distinct, c
  <2>2. CASE Cve(c) \notin docs
    <3>1. docs' = docs \cup {Cve(c)} /\ evidence' = evidence \o CveEvidence(c)
      BY <2>2 DEF CollectCve, c
    <3>2. /\ Cve(c) \in Docs
          /\ CveEvidence(c) \in Seq(Evidence) /\ Distinct(CveEvidence(c))
          /\ \A e \in Elements(CveEvidence(c)) : e.doc = Cve(c)
      BY <1>3, Documents, CveEvidenceIs
    <3> QED
      BY <2>2, <3>1, <3>2, MoreEvidence
  <2> QED
    BY <2>1, <2>2
<1>7. \A d \in docs' : Relevant(d)'
  BY <1>1, <1>5, <1>6, Frame DEF IInv, EvidenceInv
<1>8. \A x \in Cves : Cve(x) \in docs' => Elements(CveEvidence(x)) \subseteq Elements(evidence')
  BY <1>6, Documents DEF IInv, EvidenceInv
<1>9. \A i \in DOMAIN answer.matches : i < place =>
         /\ Told(answer.matches[i])'
         /\ \A x \in Elements(Consulted(answer.matches[i])) : Cve(x) \in docs'
  BY <1>1, <1>6, MoreIsTold
<1>10. \A i \in DOMAIN answer.matches : i > place => Qid(answer.matches[i]) \notin docs'
  BY <1>2, <1>6, Documents
<1>11. /\ Told(Match)' /\ Elements(todo') \subseteq Elements(Consulted(Match))
       /\ \A x \in Elements(Consulted(Match)) : Cve(x) \in docs' \/ x \in Elements(todo')
  <2>1. Told(Match)'
    BY <1>2, <1>4, <1>6 DEF Told
  <2> QED
    BY <1>1, <1>2, <1>3, <1>6, <2>1
<1> QED
  BY <1>1, <1>2, <1>3, <1>4, <1>6, <1>7, <1>8, <1>9, <1>10, <1>11, Frame DEF EvidenceInv

LEMMA EndOfCvesStep ==
  ASSUME IInv, EndOfCves
  PROVE  EvidenceInv'
<1> USE DEF Collecting, BeforeAnswer
<1>1. /\ pc = "cve" /\ pc' = "evidence" /\ place' = place + 1 /\ answer' = answer
      /\ todo = <<>> /\ UNCHANGED <<docs, evidence>>
  BY DEF EndOfCves, match_vars, fix_vars
<1>2. /\ place \in Nat /\ place \in DOMAIN answer.matches /\ DOMAIN answer.matches \subseteq Nat
  <2>1. place \in DOMAIN answer.matches
    BY <1>1 DEF IInv, EvidenceInv
  <2> QED
    BY <1>1, <2>1, Places
<1>3. Told(Match) /\ \A c \in Elements(Consulted(Match)) : Cve(c) \in docs
  BY <1>1 DEF IInv, EvidenceInv, Elements
<1>4. ASSUME NEW i \in DOMAIN answer.matches, i < place + 1
      PROVE  /\ Told(answer.matches[i])'
             /\ \A c \in Elements(Consulted(answer.matches[i])) : Cve(c) \in docs'
  <2>1. CASE i < place
    BY <1>1, <2>1, MoreIsTold
  <2>2. CASE i = place
    BY <1>1, <1>3, <2>2 DEF Match, Told
  <2> QED
    BY <1>2, <1>4, <2>1, <2>2
<1>5. \A i \in DOMAIN answer.matches : i >= place + 1 => Qid(answer.matches[i]) \notin docs
  BY <1>1, <1>2 DEF IInv, EvidenceInv
<1> QED
  BY <1>1, <1>4, <1>5, Frame DEF EvidenceInv, IInv, Distinct

LEMMA SearchFixesStep ==
  ASSUME IInv, SearchFixes
  PROVE  EvidenceInv'
<1> USE DEF Collecting, BeforeAnswer
<1>1. /\ pc = "evidence" /\ pc' = "gather" /\ answer' = answer /\ place > Len(answer.matches)
      /\ UNCHANGED <<docs, evidence>>
  BY DEF SearchFixes, match_vars
<1>2. ASSUME NEW k \in Matched
      PROVE  /\ k \in Diagnosed => Elements(DiagnosisEvidence(k)) \subseteq Elements(evidence)
             /\ \A c \in Elements(Consulted(k)) : Elements(CveEvidence(c)) \subseteq Elements(evidence)
  <2>1. PICK i \in DOMAIN answer.matches : k = answer.matches[i]
    BY DEF Matched, Elements
  <2>2. i < place
    BY SMTT(30), <1>1, AnswerIs DEF IInv, TypeOK
  <2>3. Told(k) /\ \A c \in Elements(Consulted(k)) : Cve(c) \in docs
    BY <1>1, <2>1, <2>2 DEF IInv, EvidenceInv
  <2>4. Elements(Consulted(k)) \subseteq Cves
    BY <1>1, ConsultedIs
  <2> QED
    BY <2>3, <2>4 DEF Told, IInv, EvidenceInv
<1>3. EvidenceIsToldOnce'
  BY <1>1, <1>2, Frame DEF EvidenceIsToldOnce, IInv, EvidenceInv, Distinct
<1> QED
  BY <1>1, <1>3, Frame DEF EvidenceInv, IInv, Distinct

LEMMA EvidenceStep ==
  ASSUME IInv, [Next]_vars
  PROVE  EvidenceInv'
<1> USE DEF Collecting, BeforeAnswer
<1>1. CASE pc \in BeforeAnswer
  <2>1. pc' \in BeforeAnswer \cup {"rank"} /\ docs' = docs /\ evidence' = evidence /\ place' = place
    BY <1>1, EarlySteps DEF IInv, fix_vars
  <2>2. docs = {} /\ evidence = <<>> /\ place = 1
    BY <1>1 DEF IInv, EvidenceInv
  <2>3. Distinct(<<>>) /\ Elements(<<>>) = {}
    BY DEF Distinct, Elements
  <2> QED
    BY <2>1, <2>2, <2>3 DEF EvidenceInv
<1>2. CASE Rank
  <2>1. /\ pc' = "evidence" /\ docs' = {} /\ evidence' = <<>> /\ place' = 1 /\ answer' = answer
        /\ pc = "rank"
    BY <1>2 DEF Rank, fix_vars, IInv, EvidenceInv
  <2>2. Distinct(<<>>) /\ Elements(<<>>) = {}
    BY DEF Distinct, Elements
  <2>3. DOMAIN answer.matches \subseteq Nat \ {0}
    BY <2>1, AnswerIs
  <2> QED
    BY <2>1, <2>2, <2>3 DEF EvidenceInv
<1>3. CASE CollectQid
  BY <1>3, CollectQidStep
<1>4. CASE CollectCve
  BY <1>4, CollectCveStep
<1>5. CASE EndOfCves
  BY <1>5, EndOfCvesStep
<1>6. CASE SearchFixes
  BY <1>6, SearchFixesStep
<1>7. CASE pc \notin BeforeAnswer \cup {"rank"} \cup Collecting
  <2>1. /\ UNCHANGED <<answer, docs, evidence>>
        /\ pc' \notin BeforeAnswer \cup {"rank"} \cup Collecting
    BY <1>7, CollectedSteps DEF match_vars, fix_vars
  <2>2. EvidenceIsToldOnce
    BY <1>7 DEF IInv, EvidenceInv
  <2>3. Searched
    BY <1>7 DEF IInv, TypeOK, Steps, Searched
  <2>4. EvidenceIsToldOnce'
    BY <2>1, <2>2, <2>3, Frame DEF EvidenceIsToldOnce
  <2> QED
    BY <2>1, <2>4, Frame, <1>7 DEF EvidenceInv, IInv, Distinct
<1>8. CASE UNCHANGED vars
  <2>1. /\ UNCHANGED <<pc, answer, docs, evidence, place, todo>>
    BY <1>8 DEF vars, match_vars, fix_vars
  <2>2. EvidenceInv
    BY DEF IInv
  <2>3. EvidenceIsToldOnce' <=> EvidenceIsToldOnce
    BY <2>1, Frame DEF EvidenceIsToldOnce, Searched
  <2>4. Match' = Match /\ (\A k : Told(k)' <=> Told(k)) /\ (Distinct(evidence)' <=> Distinct(evidence))
    BY <2>1 DEF Match, Told, Distinct
  <2> QED
    BY <2>1, <2>2, <2>3, <2>4, Frame DEF EvidenceInv
<1>9. CASE pc \in {"rank"} \cup Collecting /\ Next
  BY <1>2, <1>3, <1>4, <1>5, <1>6, <1>9 DEF Next, Accept, SkipParse, ParseFailed, ParseRead,
     Retrieve, Gather, Fetch, EndOfFetch, GatherFixes, Place, Cap, Caveat, SkipWrite, WriteFailed,
     WriteRead, Verify, Ended
<1> QED
  BY <1>1, <1>7, <1>8, <1>9

-----------------------------------------------------------------------------
(* Step 6: the context *)

LEMMA Nothing == Elements(<<>>) = {}
BY DEF Elements

LEMMA AboutStays ==
  ASSUME answer' = answer
  PROVE  /\ fixes' = fixes /\ About(fixes) => About(fixes)'
         /\ writeup' = writeup /\ About(writeup) => About(writeup)'
         /\ chunks' = chunks /\ About(chunks) => About(chunks)'
         /\ writeup' = <<>> => About(writeup)'
BY Frame, Nothing DEF About

LEMMA UngatheredSteps ==
  ASSUME [Next]_vars, pc \in BeforeAnswer \cup {"rank"} \cup Collecting
  PROVE  /\ UNCHANGED <<writeup, chunks, items>>
         /\ \/ pc' \in BeforeAnswer \cup {"rank"} \cup Collecting /\ fixes' = fixes
            \/ SearchFixes
BY DEF BeforeAnswer, Collecting, gather_vars, fix_vars, vars, Next, Accept, SkipParse, ParseFailed,
   ParseRead,
   Retrieve, Rank, CollectQid, CollectCve, EndOfCves, SearchFixes, Gather, Fetch, EndOfFetch,
   GatherFixes, Place, Cap, Caveat, SkipWrite, WriteFailed, WriteRead, Verify, Ended

LEMMA GatherStep ==
  ASSUME IInv, Gather
  PROVE  ChunksInv'
<1> USE DEF BeforeAnswer, Collecting
<1>1. /\ pc = "gather" /\ answer' = answer /\ place <= Len(answer.matches) /\ writeup = <<>>
      /\ items = <<>> /\ About(fixes) /\ About(chunks)
      /\ UNCHANGED <<fixes, writeup, items>>
  BY DEF Gather, match_vars, fix_vars, IInv, ChunksInv
<1>2. /\ place \in DOMAIN answer.matches /\ Match \in Matched /\ Match \in Known
      /\ answer.hits[Match] \in Seq(Chunks) /\ answer.cves[Match] \in Seq(Cves)
      /\ chunks \in Seq(Chunks)
  BY <1>1, PlaceIs, AnswerIs DEF IInv, TypeOK
<1>3. CASE answer.hits[Match] # <<>>
  <2>1. pc' = "gather" /\ chunks' = chunks \o answer.hits[Match]
    BY <1>1, <1>3 DEF Gather
  <2>2. About(answer.hits[Match])
    BY <1>1, <1>2, AnswerIs DEF About
  <2>3. Elements(chunks') = Elements(chunks) \cup Elements(answer.hits[Match])
    BY <1>2, <2>1, ElementsOfConcat
  <2>4. About(chunks)'
    BY <1>1, <2>2, <2>3, Frame DEF About
  <2>5. About(fixes)' /\ About(writeup)'
    BY <1>1, AboutStays
  <2> QED
    BY <1>1, <2>1, <2>4, <2>5 DEF ChunksInv
<1>4. CASE answer.hits[Match] = <<>>
  <2>1. /\ pc' = "fetch" /\ UNCHANGED <<chunks, place>>
        /\ todo' = <<Qid(Match)>>
                   \o [i \in DOMAIN answer.cves[Match] |-> Cve(answer.cves[Match][i])]
    BY <1>4 DEF Gather
  <2>2. /\ todo' \in Seq(Docs)
        /\ Elements(todo') = {Qid(Match)} \cup {Cve(c) : c \in Elements(answer.cves[Match])}
    BY <1>2, <2>1, WriteUpIs
  <2>3. \A d \in Elements(todo') : Relevant(d)
    BY <1>1, <1>2, <2>2, AnswerIs
  <2>4. About(fixes)' /\ About(writeup)' /\ About(chunks)'
    BY <1>1, <2>1, AboutStays
  <2>5. \A d \in Elements(todo') : Relevant(d)'
    BY <1>1, <2>3, Frame
  <2> QED
    BY <1>1, <1>2, <2>1, <2>2, <2>4, <2>5 DEF ChunksInv
<1> QED
  BY <1>3, <1>4

LEMMA FetchStep ==
  ASSUME IInv, Fetch
  PROVE  ChunksInv'
<1> USE DEF BeforeAnswer, Collecting
<1>1. /\ pc = "fetch" /\ pc' = "fetch" /\ answer' = answer /\ todo # <<>> /\ todo' = Tail(todo)
      /\ writeup' = writeup \o ProseOf[Head(todo)]
      /\ UNCHANGED <<fixes, chunks, items, place>>
  BY DEF Fetch, match_vars, fix_vars
<1>2. /\ place \in DOMAIN answer.matches /\ todo \in Seq(Docs) /\ items = <<>>
      /\ \A d \in Elements(todo) : Relevant(d)
      /\ About(fixes) /\ About(writeup) /\ About(chunks)
  BY <1>1 DEF IInv, ChunksInv
<1>3. /\ Head(todo) \in Docs /\ Tail(todo) \in Seq(Docs)
      /\ Elements(todo) = {Head(todo)} \cup Elements(Tail(todo))
  BY <1>1, <1>2, ElementsOfTail
<1>4. /\ ProseOf[Head(todo)] \in Seq(Text)
      /\ \A c \in Elements(ProseOf[Head(todo)]) : Owner[c] = Head(todo)
  BY <1>3, CorpusAssumption
<1>5. Elements(writeup') = Elements(writeup) \cup Elements(ProseOf[Head(todo)])
  BY <1>1, <1>4, ElementsOfConcat DEF IInv, TypeOK
<1>6. \A c \in Elements(writeup') : Relevant(Owner[c])
  BY <1>2, <1>3, <1>4, <1>5 DEF About
<1> QED
  BY <1>1, <1>2, <1>3, <1>6, Frame DEF ChunksInv, About

LEMMA ChunksStep ==
  ASSUME IInv, [Next]_vars
  PROVE  ChunksInv'
<1> USE DEF BeforeAnswer, Collecting
<1>1. CASE pc \in BeforeAnswer \cup {"rank"} \cup Collecting
  <2>1. fixes = <<>> /\ writeup' = <<>> /\ chunks' = <<>> /\ items' = <<>>
    BY <1>1, UngatheredSteps DEF IInv, ChunksInv
  <2>2. CASE pc' \in BeforeAnswer \cup {"rank"} \cup Collecting /\ fixes' = fixes
    <3>1. About(fixes)' /\ About(writeup)' /\ About(chunks)'
      BY <2>1, <2>2, Nothing DEF About
    <3> QED
      BY <2>1, <2>2, <3>1 DEF ChunksInv
  <2>3. CASE SearchFixes
    <3>1. pc = "evidence" /\ pc' = "gather" /\ answer' = answer
      BY <2>3 DEF SearchFixes, match_vars
    <3>2. \A c \in Elements(fixes') : Owner[c] \in docs
      BY <2>1, <2>3 DEF SearchFixes, Elements
    <3>3. \A c \in Elements(fixes') : Relevant(Owner[c])
      BY <3>1, <3>2 DEF IInv, EvidenceInv
    <3>4. About(fixes)' /\ About(writeup)' /\ About(chunks)'
      BY <2>1, <3>1, <3>3, Frame DEF About, Elements
    <3> QED
      BY <2>1, <3>1, <3>4 DEF ChunksInv
  <2> QED
    BY <1>1, <2>2, <2>3, UngatheredSteps
<1>2. CASE Gather
  BY <1>2, GatherStep
<1>3. CASE Fetch
  BY <1>3, FetchStep
<1>4. CASE EndOfFetch
  <2>1. /\ pc = "fetch" /\ pc' = "gather" /\ answer' = answer /\ writeup' = <<>>
        /\ chunks' = chunks \o SubSeq(writeup, 1, Lesser(ContextCount, Len(writeup)))
        /\ UNCHANGED <<fixes, items>>
    BY <1>4 DEF EndOfFetch, match_vars, fix_vars
  <2>2. items = <<>> /\ About(fixes) /\ About(writeup) /\ About(chunks)
    BY <2>1 DEF IInv, ChunksInv
  <2>3. Elements(chunks') \subseteq Elements(chunks) \cup Elements(writeup)
    BY <2>1, KeptWriteUpIs DEF IInv
  <2>4. \A c \in Elements(chunks') : Relevant(Owner[c])
    BY <2>2, <2>3 DEF About
  <2>5. About(fixes)' /\ About(writeup)' /\ About(chunks)'
    <3>1. About(chunks)'
      BY <2>1, <2>4, Frame DEF About
    <3> QED
      BY <2>1, <2>2, <3>1, AboutStays
  <2> QED
    BY <2>1, <2>2, <2>5 DEF ChunksInv
<1>5. CASE GatherFixes
  <2>1. /\ pc = "gather" /\ pc' = "place" /\ answer' = answer /\ chunks' = chunks \o fixes
        /\ UNCHANGED <<fixes, writeup>> /\ About(fixes) /\ About(writeup) /\ About(chunks)
    BY <1>5 DEF GatherFixes, match_vars, fix_vars, IInv, ChunksInv
  <2>2. fixes \in Seq(Chunks) /\ chunks \in Seq(Chunks)
    BY CorpusAssumption DEF IInv, TypeOK
  <2>3. Elements(chunks') = Elements(chunks) \cup Elements(fixes)
    BY <2>1, <2>2, ElementsOfConcat
  <2> QED
    BY <2>1, <2>3, Frame DEF ChunksInv, About
<1>6. CASE Place
  <2>1. /\ pc = "place" /\ pc' = "place" /\ answer' = answer /\ chunks # <<>>
        /\ chunks' = Tail(chunks) /\ UNCHANGED <<fixes, writeup>>
        /\ About(fixes) /\ About(writeup) /\ About(chunks) /\ chunks \in Seq(Chunks)
    BY <1>6 DEF Place, match_vars, fix_vars, IInv, TypeOK, ChunksInv
  <2>2. Elements(chunks) = {Head(chunks)} \cup Elements(chunks')
    BY <2>1, ElementsOfTail
  <2> QED
    BY <2>1, <2>2, Frame DEF ChunksInv, About
<1>7. CASE pc \notin BeforeAnswer \cup {"rank"} \cup Collecting
           /\ ~Gather /\ ~Fetch /\ ~EndOfFetch /\ ~GatherFixes /\ ~Place
  <2>1. UNCHANGED <<answer, place, todo, fixes, writeup, chunks, items>>
        /\ (pc' = pc \/ pc' \in Capped)
    BY <1>7 DEF Capped, Written, match_vars, fix_vars, gather_vars, vars, Next, Accept, SkipParse,
       ParseFailed, ParseRead, Retrieve, Rank, CollectQid, CollectCve, EndOfCves, SearchFixes, Cap,
       Caveat, SkipWrite, WriteFailed, WriteRead, Verify, Ended
  <2> QED
    BY <1>7, <2>1, Frame DEF ChunksInv, About, IInv, Capped, Written
<1> QED
  BY <1>1, <1>2, <1>3, <1>4, <1>5, <1>6, <1>7

(* The capped list, from chunks that are relevant prose and evidence in   *)
(* order.                                                                  *)
LEMMA CapStep ==
  ASSUME IInv, Cap
  PROVE  ContextIsSound'
<1> DEFINE n == Lesser(Len(items), MaxContextItems - Kept)
           s == SubSeq(items, 1, n)
           t == [i \in 1..Kept |-> EvidenceItem(i)]
<1>1. /\ pc = "place" /\ pc' = "caveats" /\ context' = s \o t
      /\ UNCHANGED <<answer, evidence, items>>
  BY DEF Cap, match_vars, fix_vars
<1>2. /\ items \in Seq(Sources) /\ Distinct(items)
      /\ \A x \in Elements(items) : x.type = "chunk" /\ x.id \in Text /\ Relevant(Owner[x.id])
  BY DEF IInv, TypeOK, ItemsInv
<1>3. /\ Kept \in Nat /\ Kept <= MaxContextItems /\ Kept <= Len(evidence)
      /\ t \in Seq(Sources) /\ n \in 0..Len(items)
  BY KeptIs
<1>4. MaxContextItems \in Nat /\ Len(items) \in Nat
  BY <1>2, LimitsAssumption
<1>5. n + Kept <= MaxContextItems /\ (n + Kept < MaxContextItems => n = Len(items))
  BY <1>3, <1>4 DEF Lesser
<1> HIDE DEF n
<1>6. /\ s \in Seq(Sources) /\ Len(s) = n /\ Elements(s) \subseteq Elements(items) /\ Distinct(s)
      /\ n = Len(items) => s = items
  BY <1>2, <1>3, ElementsOfPrefix
<1>7. DOMAIN t = 1..Kept /\ Len(t) = Kept /\ \A i \in 1..Kept : t[i] = EvidenceItem(i)
  BY <1>3
<1> HIDE DEF s, t
<1>8. Elements(t) = {EvidenceItem(i) : i \in 1..Kept} /\ Distinct(t)
  <2>1. \A i, j : EvidenceItem(i) = EvidenceItem(j) => i = j
    BY DEF EvidenceItem
  <2> QED
    BY <1>7, <2>1 DEF Elements, Distinct
<1>9. Elements(s) \cap Elements(t) = {}
  BY <1>2, <1>6, <1>8 DEF EvidenceItem
<1>10. /\ Distinct(s \o t) /\ Elements(s \o t) = Elements(s) \cup Elements(t)
       /\ Len(s \o t) = n + Kept
  <2>1. Len(s \o t) = Len(s) + Len(t)
    BY <1>3, <1>6
  <2>2. Elements(s \o t) = Elements(s) \cup Elements(t)
    BY <1>3, <1>6, ElementsOfConcat
  <2>3. Distinct(s \o t)
    BY <1>3, <1>6, <1>8, <1>9, DistinctConcat
  <2> QED
    BY <1>6, <1>7, <2>1, <2>2, <2>3
<1>11. Kept' = Kept
  BY <1>1 DEF Kept
<1>12. ASSUME NEW x \in Elements(s \o t)
       PROVE  Relevant(DocOf(x))' /\ (x.type = "chunk" => x.id \in Text)
  <2>1. DocOf(x)' = DocOf(x)
    BY <1>1 DEF DocOf
  <2>2. CASE x \in Elements(s)
    BY <1>1, <1>2, <1>6, <2>1, <2>2, Frame DEF DocOf
  <2>3. CASE x \in Elements(t)
    <3>1. PICK i \in 1..Kept : x = EvidenceItem(i)
      BY <1>8, <2>3
    <3>2. i \in DOMAIN evidence /\ evidence \in Seq(Evidence)
      BY <1>3 DEF IInv, TypeOK
    <3>3. evidence[i].doc \in docs
      BY <3>2, ElementsOfSeq DEF IInv, EvidenceInv
    <3>4. DocOf(x) = evidence[i].doc /\ x.type # "chunk"
      BY <3>1 DEF DocOf, EvidenceItem
    <3>5. Relevant(evidence[i].doc)
      BY <3>3 DEF IInv, EvidenceInv
    <3> QED
      BY <1>1, <2>1, <3>4, <3>5, Frame
  <2> QED
    BY <1>10, <2>2, <2>3
<1>13. \A i \in 1..Kept : EvidenceItem(i) \in Elements(s \o t)
  BY <1>8, <1>10
<1>14. /\ Len(s \o t) <= MaxContextItems
       /\ Len(s \o t) < MaxContextItems => Elements(items) \subseteq Elements(s \o t)
  BY <1>5, <1>6, <1>10
<1>15. \A i, j \in DOMAIN (s \o t) : (s \o t)[i] = (s \o t)[j] => i = j
  BY <1>10 DEF Distinct
<1> QED
  BY <1>1, <1>11, <1>12, <1>13, <1>14, <1>15 DEF ContextIsSound

LEMMA ItemsStep ==
  ASSUME IInv, [Next]_vars
  PROVE  ItemsInv'
<1>1. CASE pc \in BeforeAnswer \cup {"rank"} \cup Collecting \cup {"gather", "fetch"}
  <2>1. items = <<>>
    BY <1>1 DEF IInv, ChunksInv
  <2>2. items' = items /\ pc' \notin Capped
    BY <1>1 DEF BeforeAnswer, Collecting, Capped, Written, gather_vars, vars, Next, Accept, SkipParse,
       ParseFailed, ParseRead,
       Retrieve, Rank, CollectQid, CollectCve, EndOfCves, SearchFixes, Gather, Fetch, EndOfFetch,
       GatherFixes, Place, Cap, Caveat, SkipWrite, WriteFailed, WriteRead, Verify, Ended
  <2> QED
    BY <2>1, <2>2 DEF ItemsInv, Distinct, Elements
<1>2. CASE pc \in Capped
  <2>1. UNCHANGED <<answer, evidence, items, context>> /\ pc' \in Capped
    BY <1>2, CappedSteps DEF match_vars, fix_vars, gather_vars
  <2>2. ContextIsSound /\ ItemsInv
    BY <1>2 DEF IInv, ItemsInv
  <2>3. Kept' = Kept /\ \A x : DocOf(x)' = DocOf(x)
    BY <2>1 DEF Kept, DocOf
  <2>4. ContextIsSound'
    BY <1>2, <2>1, <2>2, <2>3, Frame DEF ContextIsSound, Capped, Written
  <2>5. pc \notin BeforeAnswer /\ pc' \notin BeforeAnswer
    BY <1>2, <2>1 DEF Capped, Written, BeforeAnswer
  <2> QED
    BY <2>1, <2>2, <2>4, <2>5, Frame DEF ItemsInv, Distinct
<1>3. CASE pc = "place"
  <2>1. answer' = answer /\ pc' \notin BeforeAnswer /\ pc \notin BeforeAnswer
    BY <1>3, LateSteps DEF BeforeAnswer
  <2>2. /\ items \in Seq(Sources) /\ Distinct(items)
        /\ \A x \in Elements(items) : x.type = "chunk" /\ x.id \in Text /\ Relevant(Owner[x.id])
    BY DEF IInv, TypeOK, ItemsInv
  <2>3. CASE Place
    <3>1. pc' = "place"
      BY <1>3, <2>3 DEF Place
    <3> DEFINE c == Head(chunks)
    <3>2. CASE c \in Text /\ ChunkItem(c) \notin Elements(items)
      <4>1. items' = Append(items, ChunkItem(c))
        BY <2>3, <3>2 DEF Place
      <4>2. c \in Elements(chunks) /\ c \in Chunks
        BY <2>3, ElementsOfTail DEF Place, IInv, TypeOK
      <4>3. Relevant(Owner[c])
        BY <2>1, <4>2 DEF IInv, ChunksInv, About
      <4>4. ChunkItem(c) \in Sources
        BY <4>2 DEF ChunkItem, Sources
      <4> HIDE DEF c
      <4>5. Distinct(items') /\ Elements(items') = Elements(items) \cup {ChunkItem(c)}
        BY <2>2, <3>2, <4>1, <4>4, ElementsOfAppend
      <4>6. \A x \in Elements(items') : x.type = "chunk" /\ x.id \in Text /\ Relevant(Owner[x.id])
        BY <2>2, <3>2, <4>3, <4>5 DEF ChunkItem
      <4> QED
        BY <2>1, <3>1, <4>5, <4>6, Frame DEF ItemsInv, Distinct, Capped, Written
    <3>3. CASE ~(c \in Text /\ ChunkItem(c) \notin Elements(items))
      <4>1. items' = items
        BY <2>3, <3>3 DEF Place
      <4> QED
        BY <2>1, <2>2, <3>1, <4>1, Frame DEF ItemsInv, Distinct, Capped, Written
    <3> QED
      BY <3>2, <3>3
  <2>4. CASE Cap
    <3>1. ContextIsSound' /\ items' = items
      BY <2>4, CapStep DEF Cap
    <3> QED
      BY <2>1, <2>2, <3>1, Frame DEF ItemsInv, Distinct
  <2>5. CASE UNCHANGED vars
    <3>1. items' = items /\ pc' = "place"
      BY <1>3, <2>5 DEF vars, gather_vars
    <3> QED
      BY <2>1, <2>2, <3>1, Frame DEF ItemsInv, Distinct, Capped, Written
  <2> QED
    BY <1>3, <2>3, <2>4, <2>5 DEF Next, Accept, SkipParse, ParseFailed, ParseRead,
       Retrieve, Rank, CollectQid, CollectCve, EndOfCves, SearchFixes, Gather, Fetch, EndOfFetch,
       GatherFixes, Caveat, SkipWrite, WriteFailed, WriteRead, Verify, Ended
<1> QED
  BY <1>1, <1>2, <1>3 DEF IInv, TypeOK, Steps, BeforeAnswer, Collecting, Capped, Written

-----------------------------------------------------------------------------
(* Steps 6 and 7: the brief and its verification *)

(* What is noted of a match are CVEs of its bundle. *)
LEMMA NotedCves ==
  ASSUME IInv, pc \notin BeforeAnswer, NEW k \in Matched, NEW n \in CvesNoted(k)
  PROVE  Relevant(n)
<1>1. k \in Known /\ Bundle[k] \in Seq(Cves) /\ answer.cves[k] \in Seq(Cves)
  BY AnswerIs, QidsAssumption
<1>2. PICK s \in {answer.cves[k], Bundle[k]} : \E i \in 1..Lesser(MaxListed, Len(s)) : n = Cve(s[i])
  BY DEF CvesNoted
<1>3. PICK i \in 1..Lesser(MaxListed, Len(s)) : n = Cve(s[i])
  BY <1>2
<1>4. s \in Seq(Cves) /\ Len(s) \in Nat /\ DOMAIN s = 1..Len(s)
  BY <1>1, <1>2
<1>5. i \in 1..Len(s)
  BY <1>3, <1>4, LimitsAssumption DEF Lesser
<1>6. s[i] \in Elements(s)
  BY <1>4, <1>5, ElementsOfSeq
<1> QED
  BY <1>2, <1>3, <1>6, AnswerIs

(* A caveat that names what the corpus lacks names what was typed. *)
LEMMA StrangeNames ==
  ASSUME IInv, pc \in Written, NEW x \in caveats.strange
  PROVE  /\ x \in Cves => x \in Elements(query.cves)
         /\ x \in Qids => x \in Elements(query.qids)
<1>1. caveats.strange = answer.unknown /\ Retrieval!Promised(parsed, answer)
  BY DEF IInv, WriteInv, AnswerInv, BeforeAnswer, Written
<1>2. x \in Retrieval!Unresolved(parsed)
  BY <1>1 DEF Retrieval!Promised
<1>3. x \in Elements(query.cves) \/ x \in Elements(query.qids)
  BY <1>2, RetrievalElements DEF Retrieval!Unresolved, IInv, ParsedInv
<1>4. Elements(query.cves) \subseteq Cves /\ Elements(query.qids) \subseteq Qids
  BY QueriesAre, ElementsOfSeq DEF IInv, TypeOK
<1> QED
  BY <1>3, <1>4, CorpusAssumption

(* The name of a host is shown only as an example of a group of ranked      *)
(* hosts, and the label of a group only where it has one.                   *)
LEMMA ShownUnits ==
  ASSUME NEW n
  PROVE  /\ n \in {Host(m) : m \in HostNamesShown} => \E h \in hosts : n = Host(Name[h])
         /\ n \in UNION {UnitLabel[u] : u \in UnitsShown} => \E h \in hosts : n \in UnitLabel[UnitOf[h]]
<1>1. ASSUME NEW m \in HostNamesShown
      PROVE  \E h \in hosts : m = Name[h]
  <2>1. PICK u : m \in Examples(u, hosts, found)
    BY DEF HostNamesShown
  <2> QED
    BY <2>1 DEF Examples, First, UnitMembers
<1>2. ASSUME NEW u \in UnitsShown
      PROVE  \E h \in hosts : u = UnitOf[h]
  BY DEF UnitsShown, Units
<1> QED
  BY <1>1, <1>2

(* Whatever the model was shown, somebody other than itself brought up. *)
LEMMA ShownIsVouched ==
  ASSUME IInv, pc = "verify", NEW n \in Shown
  PROVE  Vouched(n)
<1>1. pc \notin BeforeAnswer /\ pc \in Written
  BY DEF BeforeAnswer, Written
<1>2. CASE n \in query.mentions \cup parsed.product
  BY <1>2 DEF Vouched
<1>3. CASE n \in IdentifiersRead
  <2>1. parsed.cves = query.cves /\ parsed.qids = query.qids
    BY DEF IInv, ParsedInv
  <2>2. (\E i \in DOMAIN query.cves : n = Cve(query.cves[i]))
        \/ (\E i \in DOMAIN query.qids : n = Qid(query.qids[i]))
    BY <1>3, <2>1 DEF IdentifiersRead
  <2> QED
    BY <2>2 DEF Vouched, Elements
<1>4. CASE n \in UNION {{Qid(k)} \cup CvesNoted(k) \cup Label[k] : k \in Matched}
  <2>1. PICK k \in Matched : n = Qid(k) \/ n \in CvesNoted(k) \/ n \in Label[k]
    BY <1>4
  <2>2. n \in Label[k] \/ Relevant(n)
    BY <1>1, <2>1, NotedCves, AnswerIs
  <2> QED
    BY <2>2 DEF Vouched
<1>5. CASE n \in (UNION {UnitLabel[u] : u \in UnitsShown}) \cup {Host(m) : m \in HostNamesShown}
  BY <1>5, ShownUnits DEF Vouched
<1>6. CASE n \in UNION {{DocOf(s)} \cup Says(s) : s \in Elements(context)}
  <2>1. PICK s \in Elements(context) : n = DocOf(s) \/ n \in Says(s)
    BY <1>6
  <2>2. Relevant(DocOf(s))
    BY DEF IInv, ItemsInv, Capped, Written, ContextIsSound
  <2> QED
    BY <2>1, <2>2 DEF Vouched
<1>7. CASE n \in {Cve(c) : c \in caveats.strange \cap Cves} \cup {Qid(k) : k \in caveats.strange \cap Qids}
  BY <1>1, <1>7, StrangeNames DEF Vouched
<1> QED
  BY <1>2, <1>3, <1>4, <1>5, <1>6, <1>7 DEF Shown

(* Where nothing that vouches changes, a claim stays as grounded as it was. *)
LEMMA VouchedFrame ==
  ASSUME UNCHANGED <<query, parsed, answer, hosts, evidence, context>>
  PROVE  /\ \A x : DocOf(x)' = DocOf(x)
         /\ \A n : Vouched(n)' <=> Vouched(n)
<1>1. \A x : DocOf(x)' = DocOf(x) /\ Says(x)' = Says(x)
  BY DEF DocOf, Says
<1> QED
  BY <1>1, Frame DEF Vouched

LEMMA VerifyStep ==
  ASSUME IInv, Verify
  PROVE  VerifiedClaimsAreGrounded'
<1>1. /\ pc = "verify" /\ UNCHANGED <<query, parsed, answer, hosts, evidence, context, brief>>
      /\ verified' = {i \in DOMAIN brief.claims : ClaimHolds(brief.claims[i])}
  BY DEF Verify, parse_vars, match_vars, fix_vars, gather_vars
<1>2. ContextIsSound
  BY <1>1 DEF IInv, ItemsInv, Capped, Written
<1>3. (\A x : DocOf(x)' = DocOf(x)) /\ (\A n : Vouched(n)' <=> Vouched(n))
  BY <1>1, VouchedFrame
<1>4. ASSUME NEW i \in verified'
      PROVE  /\ brief.claims[i].cites # <<>>
             /\ \A j \in DOMAIN brief.claims[i].cites :
                   LET c == brief.claims[i].cites[j]
                   IN  c.source \in Elements(context) /\ Relevant(DocOf(c.source))'
             /\ \A n \in brief.claims[i].names :
                   Vouched(n)' \/ (n.type = "host" /\ n.id \in PlainNames)
  <2>1. ClaimHolds(brief.claims[i])
    BY <1>1
  <2>2. ASSUME NEW j \in DOMAIN brief.claims[i].cites
        PROVE  /\ brief.claims[i].cites[j].source \in Elements(context)
               /\ Relevant(DocOf(brief.claims[i].cites[j].source))'
    <3>1. brief.claims[i].cites[j].source \in Elements(context)
      BY <2>1 DEF ClaimHolds, CitationHolds
    <3>2. Relevant(DocOf(brief.claims[i].cites[j].source))
      BY <1>1, <1>2, <3>1 DEF ContextIsSound
    <3> QED
      BY <1>1, <1>3, <3>1, <3>2, Frame
  <2>3. ASSUME NEW n \in brief.claims[i].names, ~(n.type = "host" /\ n.id \in PlainNames)
        PROVE  Vouched(n)'
    <3>1. n \in Shown
      BY <2>1, <2>3 DEF ClaimHolds, Unknown
    <3> QED
      BY <1>1, <1>3, <3>1, ShownIsVouched
  <2> QED
    BY <2>1, <2>2, <2>3 DEF ClaimHolds
<1> QED
  BY <1>1, <1>4 DEF VerifiedClaimsAreGrounded

(* What has been established of caveats, notices and the brief. *)
LEMMA WriteStep ==
  ASSUME IInv, [Next]_vars
  PROVE  WriteInv'
<1> USE DEF Written
<1>1. CASE pc \in BeforeAnswer
  <2>1. /\ UNCHANGED <<caveats, brief, verified>> /\ pc' \in BeforeAnswer \cup {"rank"}
        /\ notices' \cap {"no provider", "no brief"} = notices \cap {"no provider", "no brief"}
    BY <1>1, EarlySteps DEF IInv, brief_vars
  <2>2. verified = {} /\ brief = Pending /\ notices \cap {"no provider", "no brief"} = {}
    BY <1>1 DEF IInv, WriteInv, TypeOK, BeforeAnswer
  <2>3. VerifiedClaimsAreGrounded'
    BY <2>1, <2>2 DEF VerifiedClaimsAreGrounded
  <2> QED
    BY <2>1, <2>2, <2>3 DEF WriteInv, BeforeAnswer
<1>2. CASE pc \notin BeforeAnswer \cup {"caveats"} \cup Written
  <2>1. UNCHANGED <<caveats, notices, brief, verified>> /\ pc' \notin BeforeAnswer \cup Written
    BY <1>2 DEF IInv, TypeOK, Steps, BeforeAnswer, brief_vars, vars, Next, Accept, SkipParse,
       ParseFailed, ParseRead,
       Retrieve, Rank, CollectQid, CollectCve, EndOfCves, SearchFixes, Gather, Fetch, EndOfFetch,
       GatherFixes, Place, Cap, Caveat, SkipWrite, WriteFailed, WriteRead, Verify, Ended
  <2>2. verified = {} /\ brief = Pending /\ notices \cap {"no provider", "no brief"} = {}
    BY <1>2 DEF IInv, WriteInv, BeforeAnswer
  <2>3. VerifiedClaimsAreGrounded'
    BY <2>1, <2>2 DEF VerifiedClaimsAreGrounded
  <2> QED
    BY <2>1, <2>2, <2>3 DEF WriteInv
<1>3. CASE pc = "caveats" /\ Caveat
  <2>1. /\ UNCHANGED <<answer, notices, brief, verified>>
        /\ caveats'.strange = answer.unknown
        /\ caveats'.general = Said("abstained", answer.abstained)
                              \cup Said("coverage", answer.matches = <<>>)
                              \cup Said("inactive", answer.matches # <<>> /\ inactive # {})
        /\ pc' = IF answer.matches = <<>> THEN "done" ELSE "write"
    BY <1>3 DEF Caveat, match_vars, brief_vars
  <2>2. verified = {} /\ brief = Pending /\ notices \cap {"no provider", "no brief"} = {}
    BY <1>3 DEF IInv, WriteInv
  <2>3. "coverage" \in caveats'.general <=> answer.matches = <<>>
    BY <2>1 DEF Said
  <2>4. VerifiedClaimsAreGrounded'
    BY <2>1, <2>2 DEF VerifiedClaimsAreGrounded
  <2> QED
    BY <2>1, <2>2, <2>3, <2>4 DEF WriteInv
<1>4. CASE pc = "write" /\ (SkipWrite \/ WriteFailed)
  <2>1. /\ UNCHANGED <<answer, caveats, brief, verified>> /\ pc' = "done"
        /\ notices' = notices \cup {"no provider"} \/ notices' = notices \cup {"no brief"}
    BY <1>4 DEF SkipWrite, WriteFailed, match_vars, brief_vars
  <2>2. /\ verified = {} /\ brief = Pending /\ answer.matches # <<>>
        /\ caveats.strange = answer.unknown
        /\ "coverage" \in caveats.general <=> answer.matches = <<>>
    BY <1>4 DEF IInv, WriteInv
  <2>3. notices' \cap {"no provider", "no brief"} # {}
    BY <2>1
  <2>4. VerifiedClaimsAreGrounded'
    BY <2>1, <2>2 DEF VerifiedClaimsAreGrounded
  <2> QED
    BY <2>1, <2>2, <2>3, <2>4 DEF WriteInv
<1>5. CASE pc = "write" /\ WriteRead
  <2>1. UNCHANGED <<answer, caveats, notices, verified>> /\ pc' = "verify" /\ brief' # Pending
    BY <1>5, PendingAssumption DEF WriteRead, match_vars
  <2>2. /\ verified = {} /\ answer.matches # <<>> /\ notices \cap {"no provider", "no brief"} = {}
        /\ caveats.strange = answer.unknown
        /\ "coverage" \in caveats.general <=> answer.matches = <<>>
    BY <1>5 DEF IInv, WriteInv
  <2>3. VerifiedClaimsAreGrounded'
    BY <2>1, <2>2 DEF VerifiedClaimsAreGrounded
  <2> QED
    BY <2>1, <2>2, <2>3 DEF WriteInv
<1>6. CASE pc = "verify" /\ Verify
  <2>1. UNCHANGED <<answer, caveats, notices, brief>> /\ pc' = "done"
    BY <1>6 DEF Verify, match_vars
  <2>2. /\ brief # Pending /\ answer.matches # <<>> /\ notices \cap {"no provider", "no brief"} = {}
        /\ caveats.strange = answer.unknown
        /\ "coverage" \in caveats.general <=> answer.matches = <<>>
    BY <1>6 DEF IInv, WriteInv
  <2>3. VerifiedClaimsAreGrounded'
    BY <1>6, VerifyStep
  <2> QED
    BY <2>1, <2>2, <2>3 DEF WriteInv
<1>7. CASE UNCHANGED vars
  <2>1. UNCHANGED <<pc, query, parsed, answer, hosts, evidence, context, caveats, notices, brief,
                    verified>>
    BY <1>7 DEF vars, parse_vars, match_vars, fix_vars, gather_vars, brief_vars
  <2>2. (\A x : DocOf(x)' = DocOf(x)) /\ (\A n : Vouched(n)' <=> Vouched(n))
    BY <2>1, VouchedFrame
  <2>3. WriteInv
    BY DEF IInv
  <2>4. VerifiedClaimsAreGrounded'
    BY <2>1, <2>2, <2>3, Frame DEF WriteInv, VerifiedClaimsAreGrounded
  <2> QED
    BY <2>1, <2>3, <2>4 DEF WriteInv
<1>8. CASE pc \in {"caveats"} \cup Written /\ Next
  BY <1>3, <1>4, <1>5, <1>6, <1>7, <1>8 DEF Next, Accept, SkipParse, ParseFailed, ParseRead,
     Retrieve, Rank, CollectQid, CollectCve, EndOfCves, SearchFixes, Gather, Fetch, EndOfFetch,
     GatherFixes, Place, Cap, Caveat, SkipWrite, WriteFailed, WriteRead, Verify, Ended
<1> QED
  BY <1>1, <1>2, <1>7, <1>8

-----------------------------------------------------------------------------
(* Ranking: hosts, and units of hosts, are in a strict order *)

LEMMA ListIsFinite ==
  ASSUME NEW S, NEW s \in Seq(S)
  PROVE  IsFiniteSet(Elements(s))
<1>1. Len(s) \in Nat /\ DOMAIN s = 1..Len(s)
  OBVIOUS
<1>2. s \in Surjection(1..Len(s), Elements(s))
  BY <1>1 DEF Surjection, Elements
<1>3. IsFiniteSet(1..Len(s))
  BY <1>1, FS_Interval
<1> QED
  BY <1>2, <1>3, FS_Surjection

(* Scores are clamped, so that the greatest of any set of them exists. *)
LEMMA GivenIs ==
  ASSUME NEW S, NEW f, \A x \in S : f[x] \in Int \cup {Missing}
  PROVE  Given(f, S) \subseteq 0..Full
BY ScoresAssumption DEF Given, Clamp

LEMMA GreatestScore ==
  ASSUME NEW S, S \subseteq 0..Full, S # {}
  PROVE  Max(S) \in Int
<1>1. S \in SUBSET Int
  OBVIOUS
<1>2. IsFiniteSet(S)
  <2>1. IsFiniteSet(0..Full)
    BY ScoresAssumption, FS_Interval
  <2> QED
    BY <2>1, FS_Subset
<1>3. \E m \in S : \A x \in S : m >= x
  BY <1>1, <1>2, GreatestNumber
<1> QED
  BY <1>1, <1>3 DEF Max

LEMMA ThreatIsInt ==
  ASSUME NEW k \in Known
  PROVE  Threat(k) \in Int
<1> DEFINE all == Elements(Bundle[k])
<1>1. all \subseteq Cves
  BY QidsAssumption, ElementsOfSeq
<1>2. Given(Cvss, all) \subseteq 0..Full /\ Given(Epss, all) \subseteq 0..Full
  <2>1. \A x \in all : Cvss[x] \in Int \cup {Missing} /\ Epss[x] \in Int \cup {Missing}
    BY <1>1, ScoresAssumption
  <2> QED
    BY <2>1, GivenIs
<1>3. SeverityOf(k) \in Int
  <2>1. Given(Cvss, all) # {} => Max(Given(Cvss, all)) \in Int
    BY <1>2, GreatestScore
  <2>2. Severity[k] # Missing => Clamp(Severity[k]) \in Int
    BY ScoresAssumption DEF Clamp
  <2> QED
    BY <2>1, <2>2 DEF SeverityOf
<1>4. Max(Given(Epss, all) \cup {0}) \in Int
  <2>1. Given(Epss, all) \cup {0} \subseteq 0..Full
    BY <1>2, ScoresAssumption
  <2> QED
    BY <2>1, GreatestScore
<1>5. (IF all \cap Kev # {} THEN Full ELSE 0) \in Int
  BY ScoresAssumption
<1> DEFINE s == SeverityOf(k)
           e == Max(Given(Epss, all) \cup {0})
           f == IF all \cap Kev # {} THEN Full ELSE 0
<1>6. Threat(k) = WeightSeverity * s + WeightEpss * e + WeightKev * f
  BY DEF Threat
<1>7. WeightSeverity \in Int /\ WeightEpss \in Int /\ WeightKev \in Int
  BY WeightsAssumption
<1> HIDE DEF s, e, f
<1>8. s \in Int /\ e \in Int /\ f \in Int
  BY <1>3, <1>4, <1>5 DEF s, e, f
<1> QED
  BY <1>6, <1>7, <1>8

LEMMA DrivingIs ==
  ASSUME NEW D, D \subseteq Known, IsFiniteSet(D), D # {}
  PROVE  Driving(D) \in D
<1> DEFINE R == {p \in D \X D : \/ Threat(p[1]) < Threat(p[2])
                                \/ Threat(p[1]) = Threat(p[2]) /\ p[2] < p[1]}
<1>1. \A k \in D : Threat(k) \in Int /\ k \in Int
  BY ThreatIsInt, QidsAssumption
<1>2. /\ \A x \in D : <<x, x>> \notin R
      /\ \A x, y, z \in D : <<x, y>> \in R /\ <<y, z>> \in R => <<x, z>> \in R
  BY <1>1
<1>3. \A k, l \in D : <<k, l>> \notin R /\ k # l
                        => Threat(k) > Threat(l) \/ (Threat(k) = Threat(l) /\ k < l)
  BY <1>1
<1> HIDE DEF R
<1>4. PICK k \in D : \A l \in D : <<k, l>> \notin R
  BY <1>2, MaximalElement
<1>5. \A l \in D \ {k} : Threat(k) > Threat(l) \/ (Threat(k) = Threat(l) /\ k < l)
  BY <1>3, <1>4
<1> QED
  BY <1>5 DEF Driving

(* What a step after Rank knows of the ranked hosts. *)
Ranked(S, f) ==
    /\ S \subseteq Hosts /\ S # {}
    /\ \A h \in S : f[h] # {} /\ f[h] \subseteq Known /\ IsFiniteSet(f[h])

LEMMA RankedPart ==
  ASSUME NEW S, NEW f, Ranked(S, f), NEW T, T \subseteq S, T # {}
  PROVE  Ranked(T, f)
BY DEF Ranked

LEMMA PriorityIsInt ==
  ASSUME NEW S, NEW f, Ranked(S, f), NEW h \in S
  PROVE  Priority(h, f[h]) \in Int
<1>1. Driving(f[h]) \in Known
  BY DrivingIs DEF Ranked
<1>2. Threat(Driving(f[h])) \in Int
  BY <1>1, ThreatIsInt
<1>3. Exposure(h) \in Int
  <2>1. h \in Hosts
    BY DEF Ranked
  <2>2. Criticality[h] \in Int /\ FacingMultiplier \in Int
    BY <2>1, HostsAssumption, WeightsAssumption
  <2>3. FacingMultiplier * Criticality[h] \in Int /\ 1 * Criticality[h] \in Int
    BY <2>2
  <2> QED
    BY <2>3 DEF Exposure
<1>4. \A x, y \in Int : x * y \in Int
  OBVIOUS
<1> QED
  BY <1>2, <1>3, <1>4 DEF Priority

LEMMA UrgencyIsAnOrder ==
  ASSUME NEW S, NEW f, Ranked(S, f)
  PROVE  /\ \A g \in S : ~MoreUrgent(g, g, f)
         /\ \A g, h \in S : g # h => MoreUrgent(g, h, f) \/ MoreUrgent(h, g, f)
         /\ \A g, h \in S : ~(MoreUrgent(g, h, f) /\ MoreUrgent(h, g, f))
         /\ \A g, h, i \in S : MoreUrgent(g, h, f) /\ MoreUrgent(h, i, f) => MoreUrgent(g, i, f)
<1>1. \A h \in S : Priority(h, f[h]) \in Int /\ Name[h] \in Int /\ h \in Int
  <2>1. \A h \in S : Priority(h, f[h]) \in Int
    BY PriorityIsInt
  <2>2. S \subseteq Hosts
    BY DEF Ranked
  <2>3. \A h \in Hosts : Name[h] \in Int /\ h \in Int
    BY HostsAssumption
  <2> QED
    BY <2>1, <2>2, <2>3
<1>2. ASSUME NEW g \in S, NEW h \in S, NEW i \in S
      PROVE  /\ ~MoreUrgent(g, g, f)
             /\ g # h => MoreUrgent(g, h, f) \/ MoreUrgent(h, g, f)
             /\ ~(MoreUrgent(g, h, f) /\ MoreUrgent(h, g, f))
             /\ MoreUrgent(g, h, f) /\ MoreUrgent(h, i, f) => MoreUrgent(g, i, f)
  <2> DEFINE P(x) == Priority(x, f[x])
  <2>1. /\ P(g) \in Int /\ P(h) \in Int /\ P(i) \in Int
        /\ Name[g] \in Int /\ Name[h] \in Int /\ Name[i] \in Int
        /\ g \in Int /\ h \in Int /\ i \in Int
    BY <1>1
  <2>2. \A x, y : MoreUrgent(x, y, f) <=>
          \/ P(x) > P(y)
          \/ P(x) = P(y) /\ (Name[x] < Name[y] \/ (Name[x] = Name[y] /\ x < y))
    BY DEF MoreUrgent
  <2> HIDE DEF P
  <2> QED
    BY <2>1, <2>2
<1> QED
  BY <1>2

LEMMA MostUrgentIs ==
  ASSUME NEW S, NEW f, Ranked(S, f)
  PROVE  /\ MostUrgent(S, f) \in S
         /\ \A g \in S \ {MostUrgent(S, f)} : MoreUrgent(MostUrgent(S, f), g, f)
         /\ \A g \in S : Priority(g, f[g]) <= Priority(MostUrgent(S, f), f[MostUrgent(S, f)])
<1> DEFINE R == {p \in S \X S : MoreUrgent(p[2], p[1], f)}
<1>1. IsFiniteSet(S) /\ S # {}
  BY HostsAssumption, FS_Subset DEF Ranked
<1>2. /\ \A x \in S : <<x, x>> \notin R
      /\ \A x, y, z \in S : <<x, y>> \in R /\ <<y, z>> \in R => <<x, z>> \in R
  BY UrgencyIsAnOrder
<1>3. \A h, g \in S : <<h, g>> \notin R => ~MoreUrgent(g, h, f)
  OBVIOUS
<1> HIDE DEF R
<1>4. PICK h \in S : \A g \in S : <<h, g>> \notin R
  BY <1>1, <1>2, MaximalElement
<1>5. \A g \in S \ {h} : MoreUrgent(h, g, f)
  BY <1>3, <1>4, UrgencyIsAnOrder
<1> DEFINE m == MostUrgent(S, f)
<1>6. m \in S /\ \A g \in S \ {m} : MoreUrgent(m, g, f)
  BY <1>5 DEF MostUrgent
<1> HIDE DEF m
<1>7. ASSUME NEW g \in S PROVE Priority(g, f[g]) <= Priority(m, f[m])
  <2>1. Priority(g, f[g]) \in Int /\ Priority(m, f[m]) \in Int
    BY <1>6, PriorityIsInt
  <2>2. g = m \/ MoreUrgent(m, g, f)
    BY <1>6
  <2> QED
    BY <2>1, <2>2 DEF MoreUrgent
<1> QED
  BY <1>6, <1>7 DEF m

LEMMA MembersAre ==
  ASSUME NEW S, NEW f, Ranked(S, f), NEW u \in Units(S)
  PROVE  /\ Ranked(UnitMembers(u, S), f)
         /\ GroupPriority(u, S, f) \in Int
         /\ Cardinality(UnitMembers(u, S)) \in Nat
         /\ \A h \in UnitMembers(u, S) : Priority(h, f[h]) <= GroupPriority(u, S, f)
<1> DEFINE M == UnitMembers(u, S)
<1>1. M \subseteq S /\ M # {}
  BY DEF Units, UnitMembers
<1>2. Ranked(M, f)
  <2> HIDE DEF M
  <2> QED
    BY <1>1, RankedPart
<1>3. IsFiniteSet(M)
  BY <1>2, HostsAssumption, FS_Subset DEF Ranked
<1> DEFINE m == MostUrgent(M, f)
<1>4. GroupPriority(u, S, f) = Priority(m, f[m])
  BY DEF GroupPriority
<1>5. m \in M /\ \A h \in M : Priority(h, f[h]) <= Priority(m, f[m])
  <2> HIDE DEF M
  <2> QED
    BY <1>2, MostUrgentIs
<1> HIDE DEF m
<1>6. Priority(m, f[m]) \in Int
  <2> HIDE DEF M
  <2> QED
    BY <1>2, <1>5, PriorityIsInt
<1>7. Cardinality(M) \in Nat
  <2> HIDE DEF M
  <2> QED
    BY <1>3, FS_CardinalityType
<1> QED
  BY <1>2, <1>4, <1>5, <1>6, <1>7

(* There is a unit that comes before all others. *)
LEMMA FirstUnit ==
  ASSUME NEW S, NEW f, Ranked(S, f)
  PROVE  \E u \in Units(S) : \A v \in Units(S) : ~GroupBefore(v, u, S, f)
<1> DEFINE U == Units(S)
           R == {p \in U \X U : GroupBefore(p[2], p[1], S, f)}
           P(u) == GroupPriority(u, S, f)
           N(u) == Cardinality(UnitMembers(u, S))
<1>1. IsFiniteSet(U) /\ U # {}
  <2> DEFINE to == [h \in S |-> UnitOf[h]]
  <2>1. to \in Surjection(S, U)
    BY DEF Surjection, Units
  <2>2. IsFiniteSet(S) /\ S # {}
    BY HostsAssumption, FS_Subset DEF Ranked
  <2>3. U # {}
    BY <2>2 DEF Units
  <2> HIDE DEF to, U
  <2> QED
    BY <2>1, <2>2, <2>3, FS_Surjection
<1>2. \A u \in U : P(u) \in Int /\ N(u) \in Nat /\ u \in Nat
  <2>1. \A u \in U : u \in Nat
    BY HostsAssumption DEF Units, Ranked
  <2> QED
    BY <2>1, MembersAre
<1>3. \A u, v : GroupBefore(u, v, S, f) <=>
                  P(u) > P(v) \/ (P(u) = P(v) /\ (N(u) > N(v) \/ (N(u) = N(v) /\ u < v)))
  BY DEF GroupBefore
<1> HIDE DEF P, N, U
<1>4. /\ \A x \in U : <<x, x>> \notin R
      /\ \A x, y, z \in U : <<x, y>> \in R /\ <<y, z>> \in R => <<x, z>> \in R
  BY <1>2, <1>3
<1>5. \A u, v \in U : <<u, v>> \notin R => ~GroupBefore(v, u, S, f)
  OBVIOUS
<1> HIDE DEF R
<1>6. PICK u \in U : \A v \in U : <<u, v>> \notin R
  BY <1>1, <1>4, MaximalElement
<1> QED
  BY <1>5, <1>6 DEF U

(* The first example of a unit is its most urgent host. *)
LEMMA FirstExample ==
  ASSUME NEW S, NEW f, Ranked(S, f), NEW u \in Units(S)
  PROVE  Name[MostUrgent(UnitMembers(u, S), f)] \in Examples(u, S, f)
<1> DEFINE M == UnitMembers(u, S)
           m == MostUrgent(M, f)
           D == {h \in M : \A g \in M \ {h} : Name[g] = Name[h] => MoreUrgent(h, g, f)}
<1>1. Ranked(M, f)
  BY MembersAre
<1>2. m \in M /\ \A g \in M \ {m} : MoreUrgent(m, g, f)
  <2> HIDE DEF M
  <2> QED
    BY <1>1, MostUrgentIs
<1>3. m \in D
  <2> HIDE DEF M, m
  <2> QED
    BY <1>2
<1>4. {g \in D : MoreUrgent(g, m, f)} = {}
  <2>1. \A g, h \in M : ~(MoreUrgent(g, h, f) /\ MoreUrgent(h, g, f))
    <3> HIDE DEF M
    <3> QED
      BY <1>1, UrgencyIsAnOrder
  <2>2. ~MoreUrgent(m, m, f)
    <3> HIDE DEF M, m
    <3> QED
      BY <1>2, <2>1
  <2> HIDE DEF M, m
  <2> QED
    BY <1>2, <2>1, <2>2
<1>5. Cardinality({g \in D : MoreUrgent(g, m, f)}) = 0
  BY <1>4, FS_EmptySet
<1>6. m \in First(GroupExampleCount, D, f)
  <2> HIDE DEF D, m
  <2> QED
    BY <1>3, <1>5, WeightsAssumption DEF First
<1>7. Examples(u, S, f) = {Name[h] : h \in First(GroupExampleCount, D, f)}
  BY DEF Examples
<1> HIDE DEF D, M, m
<1>8. Name[m] \in Examples(u, S, f)
  BY <1>6, <1>7
<1> QED
  BY <1>8 DEF M, m

LEMMA RankedHosts ==
  ASSUME IInv, pc \in Written, hosts # {}
  PROVE  Ranked(hosts, found)
<1>1. /\ found = [h \in Hosts |-> Detected[h] \cap Matched]
      /\ hosts = {h \in Running : found[h] # {}}
  BY DEF IInv, HostsInv, BeforeAnswer, Written
<1>2. answer \in Results
  BY DEF IInv, AnswerInv, BeforeAnswer, Written
<1>3. IsFiniteSet(Matched) /\ Matched \subseteq Known
  <2>1. answer.matches \in Seq(Known)
    BY <1>2, ChoicesAssumption
  <2> QED
    BY <2>1, ListIsFinite, ElementsOfSeq DEF Matched
<1>4. hosts \subseteq Hosts
  BY <1>1, HostsAssumption
<1>5. ASSUME NEW h \in hosts
      PROVE  found[h] # {} /\ found[h] \subseteq Known /\ IsFiniteSet(found[h])
  <2>1. found[h] # {} /\ found[h] \subseteq Matched
    BY <1>1, <1>4
  <2> QED
    BY <1>3, <2>1, FS_Subset
<1> QED
  BY <1>4, <1>5 DEF Ranked

LEMMA FirstUnitIsShown ==
  ASSUME IInv, pc \in Written, hosts # {}
  PROVE  \E h \in hosts : /\ Name[h] \in HostNamesShown
                          /\ \A g \in hosts : Priority(g, found[g]) <= Priority(h, found[h])
<1>1. Ranked(hosts, found)
  BY RankedHosts
<1>2. PICK u \in Units(hosts) : \A v \in Units(hosts) : ~GroupBefore(v, u, hosts, found)
  BY <1>1, FirstUnit
<1> DEFINE M == UnitMembers(u, hosts)
           h == MostUrgent(M, found)
<1>3. h \in hosts /\ GroupPriority(u, hosts, found) = Priority(h, found[h])
  <2>1. Ranked(M, found)
    BY <1>1, MembersAre
  <2>2. h \in M
    <3> HIDE DEF M
    <3> QED
      BY <2>1, MostUrgentIs
  <2> QED
    BY <2>2 DEF UnitMembers, GroupPriority
<1>4. Name[h] \in HostNamesShown
  <2>1. {v \in Units(hosts) : GroupBefore(v, u, hosts, found)} = {}
    BY <1>2
  <2>2. Cardinality({v \in Units(hosts) : GroupBefore(v, u, hosts, found)}) < MaxGroups
    BY <2>1, FS_EmptySet, LimitsAssumption
  <2>3. Name[h] \in Examples(u, hosts, found)
    BY <1>1, FirstExample
  <2> HIDE DEF h
  <2> QED
    BY <1>2, <2>2, <2>3 DEF HostNamesShown, UnitsShown
<1>5. ASSUME NEW g \in hosts PROVE Priority(g, found[g]) <= Priority(h, found[h])
  <2> DEFINE v == UnitOf[g]
             P(w) == GroupPriority(w, hosts, found)
  <2>1. v \in Units(hosts) /\ g \in UnitMembers(v, hosts)
    BY DEF Units, UnitMembers
  <2>2. P(u) \in Int /\ P(v) \in Int
    BY <1>1, <2>1, MembersAre
  <2>3. Priority(g, found[g]) \in Int /\ Priority(g, found[g]) <= P(v)
    BY <1>1, <2>1, MembersAre, PriorityIsInt
  <2>4. ~(P(v) > P(u))
    BY <1>2, <2>1 DEF GroupBefore
  <2>5. P(u) = Priority(h, found[h])
    BY <1>3
  <2> HIDE DEF P, h
  <2> QED
    BY <2>2, <2>3, <2>4, <2>5
<1> HIDE DEF h
<1> QED
  BY <1>3, <1>4, <1>5

-----------------------------------------------------------------------------
(* Theorems *)

(* Each part of IInv survives every step of analyze. *)
THEOREM Invariance == Spec => []IInv
<1>1. IInv /\ [Next]_vars => IInv'
  <2> SUFFICES ASSUME IInv, [Next]_vars PROVE IInv'
    OBVIOUS
  <2> QED
    BY TypesStep, ParsedStep, AnswerStep, HostsStep, EvidenceStep, ChunksStep, ItemsStep, WriteStep
    DEF IInv
<1> QED
  BY <1>1, InitIInv, PTL DEF Spec

(* Every variable of a call of analyze keeps its type. *)
THEOREM TypeCorrect == Spec => []TypeOK
<1>1. IInv => TypeOK
  BY DEF IInv
<1> QED
  BY <1>1, Invariance, PTL

(* Fix evidence has no repeats, and no match lacks what its diagnosis and  *)
(* its consulted CVEs say, in whatever order matches share their CVEs.     *)
THEOREM EvidenceIsComplete == Spec => []EvidenceIsToldOnce
<1>1. IInv => EvidenceIsToldOnce
  <2> SUFFICES ASSUME IInv, Searched PROVE EvidenceIsToldOnce
    BY DEF EvidenceIsToldOnce
  <2> QED
    BY DEF IInv, EvidenceInv, Searched, BeforeAnswer, Collecting
<1> QED
  BY <1>1, Invariance, PTL

(* The context of the brief is within its limit, without repeats, and only *)
(* about the matches, whatever the limits are.                             *)
THEOREM ContextStaysSound == Spec => []ContextIsSound
<1>1. IInv => ContextIsSound
  <2> SUFFICES ASSUME IInv, pc \in {"caveats", "write", "verify", "done"} PROVE ContextIsSound
    BY DEF ContextIsSound
  <2> QED
    BY DEF IInv, ItemsInv, Capped, Written
<1> QED
  BY <1>1, Invariance, PTL

(* Whatever the language model writes, a claim that is marked as verified  *)
(* rests on sources about matched QIDs which it was shown, and each name   *)
(* in it was brought up by the query or its reading, by a match or a       *)
(* source in the context, or by an affected, running host (a host that is  *)
(* called by a plain word aside, for which verify does not look).          *)
THEOREM VerifiedIsGrounded == Spec => []VerifiedClaimsAreGrounded
<1>1. IInv => VerifiedClaimsAreGrounded
  BY DEF IInv, WriteInv
<1> QED
  BY <1>1, Invariance, PTL

(* However many units and hosts there are, and however few of them fit in   *)
(* the prompt, the model is shown the name of a host that none is above.    *)
THEOREM UrgencyIsShown == Spec => []MostUrgentHostIsShown
<1>1. IInv => MostUrgentHostIsShown
  BY FirstUnitIsShown DEF MostUrgentHostIsShown, Written
<1> QED
  BY <1>1, Invariance, PTL

LEMMA ContractElements ==
  ASSUME NEW s
  PROVE  Contract!Elements(s) = Elements(s)
BY DEF Contract!Elements, Elements

(* What IInv says of the end of analyze is what the contract promises. *)
LEMMA ResponseIsPromised ==
  IInv /\ pc = "done" => ~query.blank /\ Response # Pending /\ Contract!Promised(query, Response)
<1> SUFFICES ASSUME IInv, pc = "done"
             PROVE  ~query.blank /\ Response # Pending /\ Contract!Promised(query, Response)
  OBVIOUS
<1>1. /\ ~query.blank /\ answer \in Results /\ Retrieval!Promised(parsed, answer)
      /\ parsed.cves = query.cves /\ parsed.qids = query.qids
  BY DEF IInv, AnswerInv, ParsedInv, BeforeAnswer
<1>2. /\ found = [h \in Hosts |-> Detected[h] \cap Matched]
      /\ hosts = {h \in Running : found[h] # {}}
      /\ inactive = {h \in Hosts \ Running : found[h] # {}}
  BY DEF IInv, HostsInv, BeforeAnswer
<1>3. /\ caveats.strange = answer.unknown
      /\ "coverage" \in caveats.general <=> answer.matches = <<>>
      /\ IF answer.matches = <<>> \/ brief # Pending
         THEN notices \cap {"no provider", "no brief"} = {}
         ELSE notices \cap {"no provider", "no brief"} # {}
      /\ answer.matches = <<>> => brief = Pending
  BY DEF IInv, WriteInv, Written
<1> DEFINE r == Response
<1>4. /\ r.matches = answer.matches /\ r.hosts = hosts /\ r.inactive = inactive
      /\ r.missing = caveats.strange
      /\ r.coverage <=> "coverage" \in caveats.general
      /\ r.brief <=> brief # Pending
      /\ r.excused <=> notices \cap {"no provider", "no brief"} # {}
  BY DEF Response
<1>5. r \in Responses
  <2>1. answer.matches \in Seq(Known) /\ answer.unknown \in SUBSET (Cves \cup Qids)
    BY <1>1, ResultsAre
  <2>2. hosts \in SUBSET Hosts /\ inactive \in SUBSET Hosts
    BY HostsAssumption DEF IInv, TypeOK
  <2> DEFINE c == "coverage" \in caveats.general
  <2> DEFINE b == brief # Pending
  <2> DEFINE e == notices \cap {"no provider", "no brief"} # {}
  <2>3. caveats.strange \in SUBSET (Cves \cup Qids)
    BY <1>3, <2>1
  <2>4. c \in BOOLEAN /\ b \in BOOLEAN /\ e \in BOOLEAN
    OBVIOUS
  <2>5. r = [matches |-> answer.matches, hosts |-> hosts, inactive |-> inactive,
             missing |-> caveats.strange, coverage |-> c, brief |-> b, excused |-> e]
    BY Zenon DEF Response
  <2> HIDE DEF r, c, b, e
  <2> QED
    BY <2>1, <2>2, <2>3, <2>4, <2>5 DEF Responses
<1> HIDE DEF r
<1>6. Contract!Elements(r.matches) = Matched
  BY <1>4, ContractElements DEF Matched
<1>7. r.hosts = Contract!Affected(Matched) \cap Running /\ r.inactive = Contract!Affected(Matched) \ Running
  BY <1>2, <1>4, HostsAssumption DEF Contract!Affected
<1>8. Retrieval!Resolved(parsed) = Contract!Named(query)
  BY <1>1, RetrievalElements, ContractElements DEF Retrieval!Resolved, Contract!Named
<1>9. Retrieval!Unresolved(parsed) = Contract!Strange(query)
  BY <1>1, RetrievalElements, ContractElements DEF Retrieval!Unresolved, Contract!Strange
<1>10. Contract!Named(query) # {} => Matched = Contract!Named(query)
  BY <1>1, <1>8, RetrievalElements
  DEF Retrieval!Promised, Retrieval!ByIdentifier, Retrieval!BySearch, Matched
<1>11. r.missing = Contract!Strange(query)
  BY <1>1, <1>3, <1>4, <1>9 DEF Retrieval!Promised
<1>12. Contract!Promised(query, r)
  BY <1>3, <1>4, <1>6, <1>7, <1>10, <1>11 DEF Contract!Promised
<1> QED
  BY <1>1, <1>5, <1>12, PendingAssumption DEF r

(* analyze implements PipelineContract: the hosts follow from the matches  *)
(* alone, typed identifiers that the artifact knows decide alone, and what *)
(* the response lacks it says, whatever the language model does.           *)
THEOREM PipelineKeepsContract == Spec => KeepsContract
<1>1. Init => Contract!Init
  BY DEF Init, Contract!Init
<1>2. IInv /\ (IInv /\ pc = "done" => ~query.blank /\ Response # Pending /\ Contract!Promised(query, Response))'
        /\ IInv' /\ [Next]_vars
      => [Contract!Answer]_<<query, IF pc = "done" THEN Response ELSE Pending>>
  <2> SUFFICES ASSUME IInv, IInv', [Next]_vars,
                      (IInv /\ pc = "done"
                       => ~query.blank /\ Response # Pending /\ Contract!Promised(query, Response))'
               PROVE  [Contract!Answer]_<<query, IF pc = "done" THEN Response ELSE Pending>>
    OBVIOUS
  <2>1. query' = query
    BY EarlySteps, LateSteps DEF IInv
  <2>2. CASE pc # "done" /\ pc' # "done"
    BY <2>1, <2>2
  <2>3. CASE pc # "done" /\ pc' = "done"
    <3>1. (Response # Pending)' /\ Contract!Promised(query, Response)' /\ ~query'.blank
      BY <2>3
    <3> QED
      BY <2>1, <2>3, <3>1 DEF Contract!Answer
  <2>4. CASE pc = "done"
    <3>1. UNCHANGED vars
      BY <2>4 DEF Next, Accept, SkipParse, ParseFailed, ParseRead,
         Retrieve, Rank, CollectQid, CollectCve, EndOfCves, SearchFixes, Gather, Fetch, EndOfFetch,
         GatherFixes, Place, Cap, Caveat, SkipWrite, WriteFailed, WriteRead, Verify, Ended
    <3>2. Response' = Response /\ pc' = pc
      BY <3>1 DEF vars, match_vars, brief_vars, Response
    <3> QED
      BY <2>1, <3>2
  <2> QED
    BY <2>2, <2>3, <2>4
<1> QED
  BY <1>1, <1>2, Invariance, ResponseIsPromised, PTL DEF Spec, KeepsContract, Contract!Spec
=============================================================================
