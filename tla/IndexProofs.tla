----------------------------- MODULE IndexProofs -----------------------------
(***************************************************************************)
(* Theorems of Exports, for any exports, and of Index, for any builds.     *)
(* Each pass over the rows of the exports has a loop invariant: what it    *)
(* has established of the rows before the one it is at, and of all rows in *)
(* the stages after it.  Index implements Exports, keeps its types, and    *)
(* cutting loses nothing.  The last rests on where packing is: which word  *)
(* the chunks reach, and that what is new in the next chunk begins right   *)
(* after it.  Then each chunk is of trace or of prose alone, since a row   *)
(* long enough to be a trace always has dense words; and it is as long as  *)
(* its kind may be, where a tail that joined the last chunk is an excess   *)
(* that only a trace follows.                                              *)
(***************************************************************************)
EXTENDS Index, FiniteLemmas, SequenceTheorems

-----------------------------------------------------------------------------
(* Lengths of joined units *)

(* The units of a chunk and the spaces between them. *)
LEMMA JoinedIsSum ==
  ASSUME NEW text, NEW s \in Seq(Part), s # <<>>, NEW f,
         \A i \in DOMAIN s : f[i] \in Int /\ Length(text, s[i]) = f[i]
  PROVE  /\ JoinedLength(text, s) = SumFunctionOnSet(f, 1..Len(s)) + Len(s) - 1
         /\ SumFunctionOnSet(f, 1..Len(s)) \in Int /\ Len(s) \in Nat \ {0}
<1> DEFINE g == [i \in DOMAIN s |-> Length(text, s[i])]
           n == Len(s)
<1>1. n \in Nat \ {0} /\ DOMAIN s = 1..n /\ DOMAIN g = 1..n
  OBVIOUS
<1>2. IsFiniteSet(1..n)
  BY <1>1, FS_Interval
<1>3. \A i \in 1..n : g[i] = f[i] /\ f[i] \in Int
  BY <1>1
<1>4. JoinedLength(text, s) = SumFunctionOnSet(g, 1..n) + n - 1
  BY <1>1 DEF JoinedLength, SumFunction
<1> HIDE DEF g, n
<1>5. SumFunctionOnSet(g, 1..n) = SumFunctionOnSet(f, 1..n)
  BY <1>2, <1>3, SameSum
<1>6. SumFunctionOnSet(f, 1..n) \in Int
  BY <1>2, <1>3, SumIsInt
<1> QED
  BY <1>1, <1>4, <1>5, <1>6 DEF n

(* One unit has no space after it. *)
LEMMA JoinedOfOne ==
  ASSUME NEW text, NEW s \in Seq(Part), Len(s) = 1, Length(text, s[1]) \in Int
  PROVE  JoinedLength(text, s) = Length(text, s[1])
<1> DEFINE f == [i \in 1..1 |-> Length(text, s[1])]
<1>1. s # <<>> /\ DOMAIN s = 1..1 /\ 1..1 = {1} /\ {1} \ {1} = {}
  <2>1. DOMAIN s = 1..1
    OBVIOUS
  <2>2. s # <<>>
    <3>1. Len(<<>>) # 1
      OBVIOUS
    <3> QED
      BY <3>1, Zenon
  <2>3. 1..1 = {1} /\ {1} \ {1} = {}
    OBVIOUS
  <2> QED
    BY <2>1, <2>2, <2>3
<1>2. \A i \in DOMAIN s : f[i] \in Int /\ Length(text, s[i]) = f[i]
  BY <1>1
<1>3. f[1] = Length(text, s[1])
  OBVIOUS
<1> HIDE DEF f
<1>4. JoinedLength(text, s) = SumFunctionOnSet(f, 1..Len(s)) + Len(s) - 1
  BY <1>1, <1>2, JoinedIsSum
<1>5. SumFunctionOnSet(f, {1}) = f[1] + SumFunctionOnSet(f, {1} \ {1})
  <2>1. IsFiniteSet({1}) /\ 1 \in {1} /\ \A x \in {1} : f[x] \in Int
    BY <1>3, FS_Singleton
  <2> QED
    BY <2>1, SumWithout
<1>6. SumFunctionOnSet(f, {1}) = Length(text, s[1])
  <2>1. SumFunctionOnSet(f, {1} \ {1}) = 0
    BY <1>1, SumOfNone
  <2> QED
    BY <1>3, <1>5, <2>1
<1> QED
  BY <1>1, <1>4, <1>6

(* A space is between the two. *)
LEMMA JoinedOfTwo ==
  ASSUME NEW text, NEW s \in Seq(Part), s # <<>>, NEW t \in Seq(Part), t # <<>>,
         \A i \in DOMAIN s : Length(text, s[i]) \in Int,
         \A i \in DOMAIN t : Length(text, t[i]) \in Int
  PROVE  /\ JoinedLength(text, s \o t) = JoinedLength(text, s) + 1 + JoinedLength(text, t)
         /\ JoinedLength(text, s) \in Int /\ JoinedLength(text, t) \in Int
<1> DEFINE m == Len(s)
           n == Len(t)
           st == s \o t
           f == [i \in 1..(m + n) |-> Length(text, st[i])]
           g == [i \in 1..n |-> Length(text, t[i])]
<1>1. m \in Nat /\ n \in Nat /\ DOMAIN s = 1..m /\ DOMAIN t = 1..n
  OBVIOUS
<1>2. /\ st \in Seq(Part) /\ Len(st) = m + n /\ DOMAIN st = 1..(m + n) /\ st # <<>>
      /\ \A i \in 1..m : st[i] = s[i]
      /\ \A i \in 1..n : st[m + i] = t[i]
  BY <1>1
<1> HIDE DEF st, m, n
<1>3. \A i \in 1..n : g[i] = Length(text, t[i]) /\ g[i] \in Int /\ f[m + i] = g[i]
  <2> SUFFICES ASSUME NEW i \in 1..n
               PROVE  g[i] = Length(text, t[i]) /\ g[i] \in Int /\ f[m + i] = g[i]
    OBVIOUS
  <2>1. m + i \in 1..(m + n) /\ st[m + i] = t[i]
    BY <1>1, <1>2
  <2>2. Length(text, t[i]) \in Int
    BY <1>1
  <2> QED
    BY <2>1, <2>2
<1>4. \A i \in 1..m : f[i] = Length(text, s[i]) /\ f[i] \in Int
  <2> SUFFICES ASSUME NEW i \in 1..m PROVE f[i] = Length(text, s[i]) /\ f[i] \in Int
    OBVIOUS
  <2>1. i \in 1..(m + n) /\ st[i] = s[i] /\ i \in DOMAIN s
    BY <1>1, <1>2
  <2> QED
    BY <2>1
<1>5. \A i \in 1..(m + n) : f[i] = Length(text, st[i]) /\ f[i] \in Int
  <2> SUFFICES ASSUME NEW i \in 1..(m + n) PROVE f[i] \in Int
    OBVIOUS
  <2>1. CASE i \in 1..m
    BY <1>4, <2>1
  <2>2. CASE i \notin 1..m
    <3>1. i - m \in 1..n /\ m + (i - m) = i
      BY <1>1, <2>2
    <3> QED
      BY <1>3, <3>1
  <2> QED
    BY <2>1, <2>2
<1> HIDE DEF f, g
<1>6. /\ JoinedLength(text, s) = SumFunctionOnSet(f, 1..m) + m - 1
      /\ SumFunctionOnSet(f, 1..m) \in Int
  BY <1>1, <1>4, JoinedIsSum DEF m
<1>7. /\ JoinedLength(text, t) = SumFunctionOnSet(g, 1..n) + n - 1
      /\ SumFunctionOnSet(g, 1..n) \in Int
  BY <1>1, <1>3, JoinedIsSum DEF n
<1>8. JoinedLength(text, st) = SumFunctionOnSet(f, 1..(m + n)) + (m + n) - 1
  BY <1>2, <1>5, JoinedIsSum
<1>9. SumFunctionOnSet(f, (m + 1)..(m + n)) = SumFunctionOnSet(g, 1..n)
  BY <1>1, <1>3, ShiftedSum
<1>10. SumFunctionOnSet(f, 1..(m + n))
         = SumFunctionOnSet(f, 1..m) + SumFunctionOnSet(f, (m + 1)..(m + n))
  <2> DEFINE A == 1..m
             B == (m + 1)..(m + n)
  <2>1. A \cap B = {} /\ A \cup B = 1..(m + n)
    BY <1>1
  <2>2. IsFiniteSet(A) /\ IsFiniteSet(B)
    <3>1. m \in Int /\ m + 1 \in Int /\ m + n \in Int
      BY <1>1
    <3> QED
      BY <3>1, FS_Interval
  <2> HIDE DEF A, B
  <2>3. \A x \in A \cup B : f[x] \in Int
    BY <1>5, <2>1
  <2>4. SumFunctionOnSet(f, A \cup B) = SumFunctionOnSet(f, A) + SumFunctionOnSet(f, B)
    BY <2>1, <2>2, <2>3, SumOfUnion
  <2> QED
    BY <2>1, <2>4 DEF A, B
<1>11. JoinedLength(text, st) = JoinedLength(text, s) + 1 + JoinedLength(text, t)
  BY <1>1, <1>6, <1>7, <1>8, <1>9, <1>10
<1> QED
  BY <1>1, <1>6, <1>7, <1>11 DEF st

-----------------------------------------------------------------------------
(* Exports *)

Parsed    == {"join", "cves", "fields", "pairs", "write", "written"}
Joined    == {"cves", "fields", "pairs", "write", "written"}
Collected == {"fields", "pairs", "write", "written"}
Agreed    == {"pairs", "write", "written"}

(* The rows in memory are those of the file, but for the host copies.       *)
RowsInv ==
    /\ input \in [assets : Seq(Record), vulns : Seq(Row)]
    /\ DOMAIN vulns = DOMAIN Rows /\ Len(vulns) = Len(Rows)
    /\ row \in 1..(Len(Rows) + 1)
    /\ stage = "inventory" => row = 1
    /\ \A n \in DOMAIN Rows :
         /\ vulns[n].qid = Rows[n].qid /\ vulns[n].cve = Rows[n].cve
         /\ vulns[n].writeup = Rows[n].writeup /\ vulns[n].fields = Rows[n].fields
         /\ vulns[n].lacks = Rows[n].lacks
    /\ stage \in {"inventory", "join"} => vulns = Rows

InventoryInv ==
    stage \in Parsed =>
        /\ \A i \in DOMAIN assets : assets[i].sound
        /\ hosts = [i \in DOMAIN assets |-> assets[i].id]
        /\ detections = [p \in Places |-> [id |-> At(p).id, host |-> assets[p[1]].id,
                                           qid |-> At(p).qid]]

(* Every row up to k explains a detection. *)
JoinedTo(k) == \A n \in 1..k : Rows[n].lacks # "join" /\ Matches(assets, Rows[n])

JoinInv == /\ stage = "join" => JoinedTo(row - 1)
           /\ stage \in Joined => JoinedTo(Len(Rows))

(* The CVEs of the rows up to k, by their first rows. *)
CvesTo(k) ==
    /\ \A c \in DOMAIN cves : c \in Cves /\ \E n \in 1..k : Rows[n].cve = c
    /\ \A n \in 1..k : Rows[n].cve \in Cves => Rows[n].cve \in DOMAIN cves
    /\ \A n \in 1..k : Rows[n].cve \in Cves /\ FirstOfCve(n) =>
         cves[Rows[n].cve] = Rows[n].writeup /\ Rows[n].lacks # "cve"

CvesInv == /\ stage \in {"inventory", "join"} => cves = Empty
           /\ stage = "cves" => CvesTo(row - 1)
           /\ stage \in Collected => CvesTo(Len(Rows))

(* Row m has other fields than those kept for q. *)
Differs(rows, kept, m, q) == rows[m].qid = q /\ rows[m].fields # kept[q]

(* The QIDs of the rows up to k, by their first rows, and those whose rows  *)
(* disagree.                                                                *)
FieldsTo(k) ==
    /\ \A n \in 1..k : Rows[n].lacks # "fields" /\ Rows[n].qid \in DOMAIN fields
    /\ \A q \in DOMAIN fields : \E n \in 1..k : Rows[n].qid = q /\ FirstOfQid(n)
    /\ \A n \in 1..k : FirstOfQid(n) => fields[Rows[n].qid] = Rows[n].fields

WarnedTo(k) ==
    /\ \A q \in DOMAIN warnings :
         /\ warnings[q] \in 1..k
         /\ Differs(Rows, fields, warnings[q], q)
         /\ \A m \in 1..(warnings[q] - 1) : ~Differs(Rows, fields, m, q)
    /\ \A n \in 1..k : Differs(Rows, fields, n, Rows[n].qid) => Rows[n].qid \in DOMAIN warnings

FieldsInv == /\ stage \in {"inventory", "join", "cves"} => fields = Empty
             /\ stage = "fields" => FieldsTo(row - 1)
             /\ stage \in Agreed => FieldsTo(Len(Rows))

WarnedInv == /\ stage \in {"inventory", "join", "cves"} => warnings = Empty
             /\ stage = "fields" => WarnedTo(row - 1)
             /\ stage \in Agreed => WarnedTo(Len(Rows))

PairsInv ==
    /\ stage \in Agreed => pairs = {<<Rows[n].qid, Rows[n].cve>> :
                                      n \in {m \in DOMAIN Rows : Rows[m].cve # Missing}}
    /\ stage \in {"write", "written"} =>
         /\ Paired /\ Readable
         /\ QidsHeld = {detections[p].qid : p \in DOMAIN detections}

WrittenInv == /\ stage = "written" => UniqueHosts /\ UniqueDetections
              /\ stage = "failed" => ~Sound

IInv == /\ RowsInv /\ InventoryInv /\ JoinInv /\ CvesInv /\ FieldsInv /\ WarnedInv
        /\ PairsInv /\ WrittenInv

USE InputsAssumption, ValuesAssumption

-----------------------------------------------------------------------------
(* The files hold sequences of rows. *)
LEMMA InputTypes ==
  ASSUME RowsInv
  PROVE  /\ Rows \in Seq(Row) /\ assets \in Seq(Record)
         /\ DOMAIN Rows = 1..Len(Rows) /\ Len(Rows) \in Nat
         /\ DOMAIN vulns = 1..Len(Rows)
         /\ \A n \in DOMAIN Rows : Rows[n] \in Row
BY DEF RowsInv, Rows, assets

(* Before the first pass. *)
LEMMA InitIInv == Init => IInv
<1> SUFFICES ASSUME Init PROVE IInv
  OBVIOUS
<1>1. RowsInv
  BY DEF Init, RowsInv, Rows, assets
<1>2. InventoryInv /\ JoinInv /\ CvesInv /\ FieldsInv /\ WarnedInv /\ PairsInv /\ WrittenInv
  BY DEF Init, InventoryInv, JoinInv, CvesInv, FieldsInv, WarnedInv, PairsInv, WrittenInv,
         Parsed, Joined, Collected, Agreed
<1> QED
  BY <1>1, <1>2 DEF IInv

(* The files are only read, and dropping the host copies changes nothing    *)
(* that a later pass reads.                                                 *)
LEMMA RowsStep == IInv /\ [Next]_vars => RowsInv' /\ input' = input
<1> SUFFICES ASSUME RowsInv, [Next]_vars PROVE RowsInv' /\ input' = input
  BY DEF IInv
<1>1. input' = input
  BY DEF Next, vars, ParseInventory, MalformedRecord, ValidateRow, RejectRow, DropHostCopies,
         CollectCve, MalformedCve, CvesCollected, CollectFields, MalformedFields,
         FieldsCollected, ParseQids, BareFailure, Write, BreakConstraint, Done
<1>2. CASE DropHostCopies
  <2>1. /\ Len(vulns) \in Nat /\ DOMAIN vulns = 1..Len(vulns)
        /\ vulns \in Seq(Row)
    BY <1>2, InputTypes DEF DropHostCopies, RowsInv, Rows
  <2>2. DOMAIN vulns' = DOMAIN vulns /\ Len(vulns') = Len(vulns)
    BY <1>2, <2>1 DEF DropHostCopies
  <2>3. ASSUME NEW n \in DOMAIN Rows
        PROVE  /\ vulns'[n].qid = vulns[n].qid /\ vulns'[n].cve = vulns[n].cve
               /\ vulns'[n].writeup = vulns[n].writeup /\ vulns'[n].fields = vulns[n].fields
               /\ vulns'[n].lacks = vulns[n].lacks
    BY <1>2, <2>1, <2>3 DEF DropHostCopies, RowsInv, Rows, Row
  <2> QED
    BY <1>1, <1>2, <2>2, <2>3 DEF RowsInv, Rows, DropHostCopies
<1>3. CASE ~DropHostCopies
  <2>0. Len(vulns) = Len(Rows) /\ Len(Rows) \in Nat
    BY InputTypes DEF RowsInv
  <2>1. /\ vulns' = vulns
        /\ row' \in {row, 1} \/ (row' = row + 1 /\ row <= Len(Rows))
        /\ (stage' = "inventory" => stage = "inventory" /\ row' = row)
        /\ (stage' \in {"inventory", "join"} => stage \in {"inventory", "join"})
    BY <1>3, <2>0 DEF Next, vars, ParseInventory, MalformedRecord, ValidateRow, RejectRow,
         CollectCve, MalformedCve, CvesCollected, CollectFields, MalformedFields,
         FieldsCollected, ParseQids, BareFailure, Write, BreakConstraint, Done, Fail
  <2> QED
    BY <1>1, <2>0, <2>1 DEF RowsInv, Rows
<1> QED
  BY <1>1, <1>2, <1>3

(* Once parsed, the inventory stays that of the asset file. *)
LEMMA InventoryStep == IInv /\ [Next]_vars => InventoryInv'
<1> SUFFICES ASSUME IInv, [Next]_vars PROVE InventoryInv'
  OBVIOUS
<1>1. input' = input
  BY RowsStep
<1>2. CASE ParseInventory
  BY <1>1, <1>2 DEF ParseInventory, InventoryInv, assets, Places, At
<1>3. CASE ~ParseInventory
  <2>1. /\ stage' \in Parsed => stage \in Parsed
        /\ hosts' = hosts /\ detections' = detections
    BY <1>3 DEF Parsed, Next, vars, MalformedRecord, ValidateRow, RejectRow, DropHostCopies,
         CollectCve, MalformedCve, CvesCollected, CollectFields, MalformedFields,
         FieldsCollected, ParseQids, BareFailure, Write, BreakConstraint, Done, Fail
  <2> QED
    BY <1>1, <2>1 DEF IInv, InventoryInv, assets, Places, At
<1> QED
  BY <1>2, <1>3

(* Every row that the join has passed explains a detection. *)
LEMMA JoinStep == IInv /\ [Next]_vars => JoinInv'
<1> SUFFICES ASSUME IInv, [Next]_vars PROVE JoinInv'
  OBVIOUS
<1>1. input' = input /\ Rows' = Rows /\ Len(Rows)' = Len(Rows)
  BY RowsStep DEF Rows
<1>2. /\ DOMAIN Rows = 1..Len(Rows) /\ Len(Rows) \in Nat
      /\ row \in 1..(Len(Rows) + 1) /\ Len(vulns) = Len(Rows)
  BY InputTypes DEF IInv, RowsInv
<1>3. ASSUME NEW n \in 1..Len(Rows), Rows[n].lacks # "join", Matches(assets, Rows[n])
      PROVE  (Rows[n].lacks # "join" /\ Matches(assets, Rows[n]))'
  BY <1>1, <1>3 DEF assets
<1>4. CASE ParseInventory
  <2>1. stage' = "join" /\ row' = 1
    BY <1>4 DEF ParseInventory, IInv, RowsInv
  <2> QED
    BY <2>1 DEF JoinInv, JoinedTo, Joined
<1>5. CASE ValidateRow
  <2>1. row' = row + 1 /\ stage' = "join" /\ stage = "join" /\ row <= Len(Rows)
    BY <1>2, <1>5 DEF ValidateRow
  <2>2. Rows[row].lacks # "join" /\ Matches(assets, Rows[row])
    BY <1>2, <1>5, <2>1 DEF ValidateRow, IInv, RowsInv
  <2>3. \A n \in 1..row : Rows[n].lacks # "join" /\ Matches(assets, Rows[n])
    BY <1>2, <2>1, <2>2 DEF IInv, JoinInv, JoinedTo
  <2>4. \A n \in 1..(row' - 1) : (Rows[n].lacks # "join" /\ Matches(assets, Rows[n]))'
    BY <1>2, <1>3, <2>1, <2>3
  <2> QED
    BY <2>1, <2>4 DEF JoinInv, JoinedTo, Joined
<1>6. CASE DropHostCopies
  <2>1. stage' = "cves" /\ stage = "join" /\ row > Len(Rows)
    BY <1>2, <1>6 DEF DropHostCopies
  <2>2. \A n \in 1..Len(Rows) : Rows[n].lacks # "join" /\ Matches(assets, Rows[n])
    BY <1>2, <2>1 DEF IInv, JoinInv, JoinedTo
  <2>3. \A n \in 1..Len(Rows) : (Rows[n].lacks # "join" /\ Matches(assets, Rows[n]))'
    BY <1>3, <2>2
  <2> QED
    BY <1>1, <2>1, <2>3 DEF JoinInv, JoinedTo
<1>7. CASE ~(ParseInventory \/ ValidateRow \/ DropHostCopies)
  <2>1. /\ stage' = "join" => stage = "join" /\ row' = row
        /\ stage' \in Joined => stage \in Joined
    BY <1>7 DEF Joined, Next, vars, MalformedRecord, RejectRow, CollectCve, MalformedCve,
         CvesCollected, CollectFields, MalformedFields, FieldsCollected, ParseQids,
         BareFailure, Write, BreakConstraint, Done, Fail
  <2>2. \A n : Matches(assets, Rows[n])' <=> Matches(assets, Rows[n])
    BY <1>1 DEF assets
  <2> QED
    BY <1>1, <2>1, <2>2 DEF IInv, JoinInv, JoinedTo
<1> QED
  BY <1>4, <1>5, <1>6, <1>7

(* What the provers need of the row at hand. *)
LEMMA RowAtHand ==
  ASSUME RowsInv, row <= Len(vulns)
  PROVE  /\ row \in 1..Len(Rows) /\ row \in Nat
         /\ vulns[row].qid = Rows[row].qid /\ vulns[row].cve = Rows[row].cve
         /\ vulns[row].writeup = Rows[row].writeup
         /\ vulns[row].fields = Rows[row].fields
         /\ vulns[row].lacks = Rows[row].lacks
BY InputTypes DEF RowsInv

(* The CVEs collected are those of the rows passed, from their first rows. *)
LEMMA CvesStep == IInv /\ [Next]_vars => CvesInv'
<1> SUFFICES ASSUME IInv, [Next]_vars PROVE CvesInv'
  OBVIOUS
<1>1. input' = input /\ Rows' = Rows /\ Len(Rows)' = Len(Rows)
  BY RowsStep DEF Rows
<1>2. /\ DOMAIN Rows = 1..Len(Rows) /\ Len(Rows) \in Nat
      /\ row \in 1..(Len(Rows) + 1) /\ Len(vulns) = Len(Rows)
  BY InputTypes DEF IInv, RowsInv
<1>3. CASE DropHostCopies
  <2>1. stage' = "cves" /\ row' = 1 /\ cves' = Empty
    BY <1>3 DEF DropHostCopies, IInv, CvesInv
  <2>2. DOMAIN Empty = {}
    BY DEF Empty
  <2> QED
    BY <2>1, <2>2 DEF CvesInv, CvesTo, Collected
<1>4. CASE CollectCve
  <2>1. /\ stage = "cves" /\ stage' = "cves" /\ row' = row + 1 /\ row <= Len(Rows)
        /\ CvesTo(row - 1)
    BY <1>2, <1>4 DEF CollectCve, IInv, CvesInv
  <2>2. /\ row \in 1..Len(Rows)
        /\ vulns[row].cve = Rows[row].cve /\ vulns[row].writeup = Rows[row].writeup
        /\ vulns[row].lacks = Rows[row].lacks
    BY <1>2, <2>1, RowAtHand DEF IInv
  <2> DEFINE c == Rows[row].cve
             unseen == c \in Cves /\ c \notin DOMAIN cves
  <2>3. /\ unseen => Rows[row].lacks # "cve"
        /\ cves' = IF unseen THEN With(cves, c, Rows[row].writeup) ELSE cves
    BY <1>4, <2>2 DEF CollectCve, New
  <2>4. /\ DOMAIN cves' = IF unseen THEN DOMAIN cves \cup {c} ELSE DOMAIN cves
        /\ unseen => cves'[c] = Rows[row].writeup
        /\ \A x \in DOMAIN cves : cves'[x] = cves[x]
    <3>1. CASE unseen
      <4>1. cves' = With(cves, c, Rows[row].writeup)
        BY <2>3, <3>1
      <4>2. /\ DOMAIN With(cves, c, Rows[row].writeup) = DOMAIN cves \cup {c}
            /\ With(cves, c, Rows[row].writeup)[c] = Rows[row].writeup
            /\ \A x \in DOMAIN cves :
                 x # c => With(cves, c, Rows[row].writeup)[x] = cves[x]
        BY DEF With
      <4> QED
        BY <3>1, <4>1, <4>2
    <3>2. CASE ~unseen
      BY <2>3, <3>2
    <3> QED
      BY <3>1, <3>2
  <2> HIDE DEF c
  <2>5. \A x \in DOMAIN cves' : x \in Cves /\ \E n \in 1..row : Rows[n].cve = x
    BY <1>2, <2>1, <2>2, <2>4 DEF CvesTo, c
  <2>6. \A n \in 1..row : Rows[n].cve \in Cves => Rows[n].cve \in DOMAIN cves'
    BY <1>2, <2>1, <2>2, <2>4 DEF CvesTo, c
  <2>7. ASSUME NEW n \in 1..row, Rows[n].cve \in Cves, FirstOfCve(n)
        PROVE  cves'[Rows[n].cve] = Rows[n].writeup /\ Rows[n].lacks # "cve"
    <3>1. CASE n = row
      <4>1. c \notin DOMAIN cves
        BY <1>2, <2>1, <2>7, <3>1 DEF CvesTo, FirstOfCve, c
      <4> QED
        BY <2>3, <2>4, <2>7, <3>1, <4>1 DEF c
    <3>2. CASE n \in 1..(row - 1)
      BY <2>1, <2>4, <2>7, <3>2 DEF CvesTo
    <3> QED
      BY <1>2, <2>7, <3>1, <3>2
  <2>8. row' - 1 = row
    BY <1>2, <2>1
  <2> QED
    BY <1>1, <2>1, <2>5, <2>6, <2>7, <2>8 DEF CvesInv, CvesTo, FirstOfCve, Collected
<1>5. CASE CvesCollected
  <2>1. stage = "cves" /\ stage' = "fields" /\ cves' = cves /\ row - 1 = Len(Rows)
    BY <1>2, <1>5 DEF CvesCollected
  <2> QED
    BY <1>1, <2>1 DEF IInv, CvesInv, CvesTo, FirstOfCve, Collected
<1>6. CASE ~(DropHostCopies \/ CollectCve \/ CvesCollected)
  <2>1. /\ cves' = cves
        /\ stage' \in {"inventory", "join"} => stage \in {"inventory", "join"}
        /\ stage' = "cves" => stage = "cves" /\ row' = row
        /\ stage' \in Collected => stage \in Collected
    BY <1>6 DEF Collected, Next, vars, ParseInventory, MalformedRecord, ValidateRow,
         RejectRow, MalformedCve, CollectFields, MalformedFields, FieldsCollected,
         ParseQids, BareFailure, Write, BreakConstraint, Done, Fail
  <2> QED
    BY <1>1, <2>1 DEF IInv, CvesInv, CvesTo, FirstOfCve, Empty
<1> QED
  BY <1>3, <1>4, <1>5, <1>6

(* Fields and warnings are those of the rows passed: a QID keeps the fields *)
(* of its first row, and is reported at the first row that differs.         *)
LEMMA FieldsStep == IInv /\ [Next]_vars => FieldsInv' /\ WarnedInv'
<1> SUFFICES ASSUME IInv, [Next]_vars PROVE FieldsInv' /\ WarnedInv'
  OBVIOUS
<1>1. input' = input /\ Rows' = Rows /\ Len(Rows)' = Len(Rows)
  BY RowsStep DEF Rows
<1>2. /\ DOMAIN Rows = 1..Len(Rows) /\ Len(Rows) \in Nat
      /\ row \in 1..(Len(Rows) + 1) /\ Len(vulns) = Len(Rows)
  BY InputTypes DEF IInv, RowsInv
<1>3. CASE CvesCollected
  <2>1. stage' = "fields" /\ row' = 1 /\ fields' = Empty /\ warnings' = Empty
    BY <1>3 DEF CvesCollected, IInv, FieldsInv, WarnedInv
  <2>2. DOMAIN Empty = {}
    BY DEF Empty
  <2> QED
    BY <2>1, <2>2 DEF FieldsInv, FieldsTo, WarnedInv, WarnedTo, Agreed
<1>4. CASE CollectFields
  <2>1. /\ stage' = "fields" /\ row' = row + 1 /\ row <= Len(Rows)
        /\ FieldsTo(row - 1) /\ WarnedTo(row - 1)
    BY <1>2, <1>4 DEF CollectFields, IInv, FieldsInv, WarnedInv
  <2>2. /\ row \in 1..Len(Rows) /\ vulns[row].qid = Rows[row].qid
        /\ vulns[row].fields = Rows[row].fields /\ vulns[row].lacks = Rows[row].lacks
    BY <1>2, <2>1, RowAtHand DEF IInv
  <2> DEFINE q == Rows[row].qid
             f == Rows[row].fields
             late == fields'[q] # f /\ q \notin DOMAIN warnings
  <2>3. /\ Rows[row].lacks # "fields"
        /\ fields' = IF q \in DOMAIN fields THEN fields ELSE With(fields, q, f)
        /\ warnings' = IF late THEN With(warnings, q, row) ELSE warnings
    BY <1>4, <2>2 DEF CollectFields
  <2>4. /\ DOMAIN fields' = DOMAIN fields \cup {q}
        /\ q \notin DOMAIN fields => fields'[q] = f
        /\ \A x \in DOMAIN fields : fields'[x] = fields[x]
    BY <2>3 DEF With
  <2>5. /\ DOMAIN warnings' = IF late THEN DOMAIN warnings \cup {q} ELSE DOMAIN warnings
        /\ late => warnings'[q] = row
        /\ \A x \in DOMAIN warnings : warnings'[x] = warnings[x]
    BY <2>3 DEF With
  <2> HIDE DEF late
  <2>6. row' - 1 = row /\ row \in Nat
    BY <1>2, <2>1
  <2>7. FieldsInv'
    <3>1. \A n \in 1..row : Rows[n].lacks # "fields" /\ Rows[n].qid \in DOMAIN fields'
      BY SMTT(30), <1>2, <2>1, <2>3, <2>4 DEF FieldsTo
    <3>2. \A x \in DOMAIN fields' : \E n \in 1..row : Rows[n].qid = x /\ FirstOfQid(n)
      BY <1>2, <2>1, <2>2, <2>4 DEF FieldsTo, FirstOfQid
    <3>3. ASSUME NEW n \in 1..row, FirstOfQid(n)
          PROVE  fields'[Rows[n].qid] = Rows[n].fields
      <4>1. CASE n = row
        <5>1. q \notin DOMAIN fields
          BY <1>2, <2>1, <3>3, <4>1 DEF FieldsTo, FirstOfQid
        <5> QED
          BY <2>4, <4>1, <5>1
      <4>2. CASE n \in 1..(row - 1)
        BY <2>1, <2>4, <3>3, <4>2 DEF FieldsTo
      <4> QED
        BY <1>2, <3>3, <4>1, <4>2
    <3> QED
      BY <1>1, <2>1, <2>6, <3>1, <3>2, <3>3 DEF FieldsInv, FieldsTo, FirstOfQid, Agreed
  <2>8. WarnedInv'
    <3>1. \A m \in 1..(row - 1) : \A x \in DOMAIN fields :
            Differs(Rows, fields', m, x) <=> Differs(Rows, fields, m, x)
      BY <1>1, <2>4 DEF Differs
    <3>2. \A x \in DOMAIN warnings : x \in DOMAIN fields
      <4>1. \A x \in DOMAIN warnings :
              warnings[x] \in 1..(row - 1) /\ Rows[warnings[x]].qid = x
        BY <2>1 DEF WarnedTo, Differs
      <4> QED
        BY <2>1, <4>1 DEF FieldsTo
    <3>3. ASSUME NEW x \in DOMAIN warnings'
          PROVE  /\ warnings'[x] \in 1..row
                 /\ Differs(Rows, fields', warnings'[x], x)
                 /\ \A m \in 1..(warnings'[x] - 1) : ~Differs(Rows, fields', m, x)
      <4>1. CASE x \in DOMAIN warnings
        BY <1>2, <2>1, <2>5, <3>1, <3>2, <4>1 DEF WarnedTo
      <4>2. CASE x \notin DOMAIN warnings
        <5>1. late /\ x = q /\ warnings'[x] = row
          BY <2>5, <3>3, <4>2
        <5>2. Differs(Rows, fields', row, q)
          BY <1>1, <2>6, <5>1 DEF Differs, late
        <5>3. q \in DOMAIN fields
          BY <2>4, <5>1 DEF late
        <5>4. \A m \in 1..(row - 1) : ~Differs(Rows, fields, m, q)
          BY <1>2, <2>1, <2>2, <5>1 DEF WarnedTo, Differs, late
        <5> QED
          BY <1>2, <3>1, <5>1, <5>2, <5>3, <5>4
      <4> QED
        BY <4>1, <4>2
    <3>4. ASSUME NEW n \in 1..row, Differs(Rows, fields', n, Rows[n].qid)
          PROVE  Rows[n].qid \in DOMAIN warnings'
      <4>1. CASE n = row
        BY <1>1, <2>5, <3>4, <4>1 DEF Differs, late
      <4>2. CASE n \in 1..(row - 1)
        BY <1>1, <2>1, <2>5, <3>1, <3>4, <4>2 DEF FieldsTo, WarnedTo, Differs
      <4> QED
        BY <1>2, <3>4, <4>1, <4>2
    <3> QED
      BY <1>1, <2>1, <2>6, <3>3, <3>4 DEF WarnedInv, WarnedTo, Differs, Agreed
  <2> QED
    BY <2>7, <2>8
<1>5. CASE FieldsCollected
  <2>1. /\ stage = "fields" /\ stage' = "pairs" /\ row - 1 = Len(Rows)
        /\ fields' = fields /\ warnings' = warnings
    BY <1>2, <1>5 DEF FieldsCollected
  <2>2. FieldsTo(Len(Rows)) /\ WarnedTo(Len(Rows))
    BY <2>1 DEF IInv, FieldsInv, WarnedInv
  <2>3. FieldsInv'
    BY <1>1, <2>1, <2>2 DEF FieldsInv, FieldsTo, FirstOfQid
  <2>4. WarnedInv'
    BY <1>1, <2>1, <2>2 DEF WarnedInv, WarnedTo
  <2> QED
    BY <2>3, <2>4
<1>6. CASE ~(CvesCollected \/ CollectFields \/ FieldsCollected)
  <2>1. /\ fields' = fields /\ warnings' = warnings
        /\ stage' \in {"inventory", "join", "cves"} => stage \in {"inventory", "join", "cves"}
        /\ stage' = "fields" => stage = "fields" /\ row' = row
        /\ stage' \in Agreed => stage \in Agreed
    BY <1>6 DEF Agreed, Next, vars, ParseInventory, MalformedRecord, ValidateRow, RejectRow,
         DropHostCopies, CollectCve, MalformedCve, MalformedFields, ParseQids, BareFailure,
         Write, BreakConstraint, Done, Fail
  <2>2. FieldsInv'
    BY <1>1, <2>1 DEF IInv, FieldsInv, FieldsTo, FirstOfQid, Empty
  <2>3. WarnedInv'
    BY <1>1, <2>1 DEF IInv, WarnedInv, WarnedTo, Empty
  <2> QED
    BY <2>2, <2>3
<1> QED
  BY <1>3, <1>4, <1>5, <1>6

(* The pairs are those of the rows, and the QIDs those detected. *)
LEMMA PairsStep == IInv /\ [Next]_vars => PairsInv'
<1> SUFFICES ASSUME IInv, [Next]_vars PROVE PairsInv'
  OBVIOUS
<1>1. input' = input /\ Rows' = Rows
  BY RowsStep DEF Rows
<1>2. CASE FieldsCollected
  <2>1. /\ stage' = "pairs"
        /\ pairs' = {<<vulns[n].qid, vulns[n].cve>> :
                       n \in {m \in DOMAIN vulns : vulns[m].cve # Missing}}
    BY <1>2 DEF FieldsCollected
  <2>2. pairs' = {<<Rows[n].qid, Rows[n].cve>> :
                    n \in {m \in DOMAIN Rows : Rows[m].cve # Missing}}
    BY <2>1 DEF IInv, RowsInv
  <2> QED
    BY <1>1, <2>1, <2>2 DEF PairsInv
<1>3. CASE ParseQids
  <2>1. /\ stage = "pairs" /\ stage' = "write" /\ Paired /\ Readable
        /\ pairs' = pairs /\ cves' = cves /\ fields' = fields /\ detections' = detections
    BY <1>3 DEF ParseQids
  <2>2. QidsHeld' = {detections[p].qid : p \in DOMAIN detections}
    <3> DEFINE made(q) == [qid |-> q, explained |-> q \in DOMAIN fields,
                           label |-> IF q \in DOMAIN fields THEN Label(q) ELSE None]
               seen == {detections[p].qid : p \in DOMAIN detections}
    <3>1. qids' = {made(q) : q \in seen}
      BY <1>3 DEF ParseQids
    <3>2. \A q : made(q).qid = q
      OBVIOUS
    <3> HIDE DEF made, seen
    <3>3. QidsHeld' = seen
      <4>1. QidsHeld' = {z.qid : z \in qids'}
        BY DEF QidsHeld
      <4>2. \A x \in seen : x \in QidsHeld'
        BY <3>1, <3>2, <4>1
      <4>3. \A x \in QidsHeld' : x \in seen
        BY <3>1, <3>2, <4>1
      <4> QED
        BY <4>2, <4>3
    <3> QED
      BY <3>3 DEF seen
  <2>3. (Paired /\ Readable)'
    BY <2>1 DEF Paired, Readable
  <2> QED
    BY <1>1, <2>1, <2>2, <2>3 DEF IInv, PairsInv, Agreed
<1>4. CASE ~(FieldsCollected \/ ParseQids)
  <2>1. /\ stage' \in Agreed => stage \in Agreed /\ UNCHANGED <<pairs, cves, fields>>
        /\ stage' \in {"write", "written"} =>
             stage \in {"write", "written"} /\ UNCHANGED <<qids, detections>>
    BY <1>4 DEF Agreed, Next, vars, ParseInventory, MalformedRecord, ValidateRow, RejectRow,
         DropHostCopies, CollectCve, MalformedCve, CvesCollected, CollectFields,
         MalformedFields, BareFailure, Write, BreakConstraint, Done, Fail
  <2>2. stage' \in {"write", "written"} => stage' \in Agreed
    BY DEF Agreed
  <2> QED
    BY <1>1, <2>1, <2>2 DEF IInv, PairsInv, Paired, Readable, QidsHeld
<1> QED
  BY <1>2, <1>3, <1>4

(* A row that a sound pair of exports holds is one that matches. *)
LEMMA SoundRowsMatch ==
  ASSUME RowsInv, Sound, NEW n \in DOMAIN Rows
  PROVE  Matches(assets, Rows[n])
<1>1. PICK p \in Places : /\ assets[p[1]] = Rows[n].asset
                          /\ At(p) = [id |-> Rows[n].detection, qid |-> Rows[n].qid,
                                      found |-> Rows[n].found]
  BY DEF Sound
<1>2. /\ p[1] \in DOMAIN assets
      /\ \A j \in DOMAIN assets : assets[j].id = Rows[n].asset.id => j = p[1]
  BY <1>1 DEF Sound, Places, PlacesIn
<1>3. /\ assets[p[1]].detections[p[2]].id = Rows[n].detection
      /\ assets[p[1]].detections[p[2]].qid = Rows[n].qid
      /\ assets[p[1]].detections[p[2]].found = Rows[n].found
  BY <1>1 DEF At
<1>4. \A q \in PlacesIn(assets) :
        assets[q[1]].detections[q[2]].id = Rows[n].detection => q = p
  BY SMTT(30), <1>3 DEF Sound, At, Places
<1>5. p[1] \in Nat
  BY <1>2, InputTypes
<1> QED
  BY SMTT(30), <1>1, <1>2, <1>3, <1>4, <1>5 DEF Matches, Places

(* References resolve when the tables are written. *)
LEMMA Resolved == IInv => ReferencesResolve
<1> SUFFICES ASSUME IInv, stage = "write" PROVE References
  BY DEF ReferencesResolve
<1>1. /\ hosts = [i \in DOMAIN assets |-> assets[i].id]
      /\ detections = [p \in Places |-> [id |-> At(p).id, host |-> assets[p[1]].id,
                                         qid |-> At(p).qid]]
  BY DEF IInv, InventoryInv, Parsed
<1>2. QidsHeld = {detections[p].qid : p \in DOMAIN detections} /\ Paired
  BY DEF IInv, PairsInv
<1>3. \A p \in DOMAIN detections : \E i \in DOMAIN hosts : hosts[i] = detections[p].host
  BY <1>1 DEF Places, PlacesIn
<1>4. ASSUME NEW pair \in pairs PROVE pair[1] \in QidsHeld /\ pair[2] \in DOMAIN cves
  <2>1. PICK n \in DOMAIN Rows : pair = <<Rows[n].qid, Rows[n].cve>>
    BY <1>4 DEF IInv, PairsInv, Agreed
  <2>2. Matches(assets, Rows[n])
    BY InputTypes DEF IInv, JoinInv, JoinedTo, Joined
  <2>3. \E p \in Places : At(p).qid = Rows[n].qid
    BY <2>2 DEF Matches, Places, At
  <2> QED
    BY <1>1, <1>2, <2>1, <2>3 DEF Paired
<1> QED
  BY <1>2, <1>3, <1>4 DEF References

(* Whatever a pass stops at is a reason why the exports are not sound. *)
LEMMA RefusedStep == IInv /\ [Next]_vars /\ stage # "failed" /\ stage' = "failed" => ~Sound
<1> SUFFICES ASSUME IInv, [Next]_vars, stage # "failed", stage' = "failed", Sound
             PROVE  FALSE
  OBVIOUS
<1>1. /\ DOMAIN Rows = 1..Len(Rows) /\ Len(Rows) \in Nat
      /\ row \in 1..(Len(Rows) + 1) /\ Len(vulns) = Len(Rows)
  BY InputTypes DEF IInv, RowsInv
<1>2. \A n \in DOMAIN Rows :
        /\ Rows[n].lacks \notin {"join", "fields"} /\ Rows[n].cve # Null
        /\ Rows[n].lacks = "cve" => Rows[n].cve \notin Cves \/ ~FirstOfCve(n)
        /\ FirstOfQid(n) => Rows[n].fields \notin Broken
  BY DEF Sound
<1>3. ~MalformedRecord
  BY DEF MalformedRecord, Sound
<1>4. ~RejectRow
  <2> SUFFICES ASSUME RejectRow PROVE FALSE
    OBVIOUS
  <2>1. row \in DOMAIN Rows /\ stage = "join" /\ row <= Len(vulns)
    BY <1>1 DEF RejectRow
  <2>2. vulns[row] = Rows[row]
    BY <2>1 DEF IInv, RowsInv
  <2>3. Matches(assets, Rows[row])
    BY <2>1, SoundRowsMatch DEF IInv
  <2> QED
    BY <1>2, <2>1, <2>2, <2>3 DEF RejectRow
<1>5. ~MalformedCve
  <2> SUFFICES ASSUME MalformedCve PROVE FALSE
    OBVIOUS
  <2>1. /\ row \in DOMAIN Rows /\ stage = "cves"
        /\ vulns[row].cve = Rows[row].cve /\ vulns[row].lacks = Rows[row].lacks
    BY <1>1, RowAtHand DEF MalformedCve, IInv
  <2>2. Rows[row].cve \in Cves /\ Rows[row].cve \notin DOMAIN cves /\ Rows[row].lacks = "cve"
    BY <2>1 DEF MalformedCve, New
  <2>3. FirstOfCve(row)
    BY <2>1, <2>2 DEF FirstOfCve, IInv, CvesInv, CvesTo
  <2> QED
    BY <1>2, <2>1, <2>2, <2>3
<1>6. ~MalformedFields
  BY <1>1, <1>2, RowAtHand DEF MalformedFields, IInv
<1>7. ~BareFailure
  <2> SUFFICES ASSUME BareFailure PROVE FALSE
    OBVIOUS
  <2>1. stage = "pairs" /\ CvesTo(Len(Rows)) /\ FieldsTo(Len(Rows))
    BY DEF BareFailure, IInv, CvesInv, FieldsInv, Collected, Agreed
  <2>2. Paired
    <3>1. ASSUME NEW pair \in pairs PROVE pair[2] \in DOMAIN cves
      <4>1. PICK n \in DOMAIN Rows : pair = <<Rows[n].qid, Rows[n].cve>> /\ Rows[n].cve # Missing
        BY <2>1, <3>1 DEF IInv, PairsInv, Agreed
      <4>2. Rows[n].cve \in Cves
        BY <1>2, <4>1, InputTypes DEF IInv, Row
      <4> QED
        BY <1>1, <2>1, <4>1, <4>2 DEF CvesTo
    <3> QED
      BY <3>1 DEF Paired
  <2>3. Readable
    <3>1. ASSUME NEW q \in DOMAIN fields PROVE fields[q] \notin Broken
      <4>1. PICK n \in 1..Len(Rows) : Rows[n].qid = q /\ FirstOfQid(n)
        BY <2>1 DEF FieldsTo
      <4> QED
        BY <1>1, <1>2, <2>1, <4>1 DEF FieldsTo
    <3> QED
      BY <3>1 DEF Readable
  <2> QED
    BY <2>2, <2>3 DEF BareFailure
<1>8. ~BreakConstraint
  <2> SUFFICES ASSUME BreakConstraint PROVE FALSE
    OBVIOUS
  <2>1. stage = "write"
    BY DEF BreakConstraint
  <2>2. /\ hosts = [i \in DOMAIN assets |-> assets[i].id]
        /\ detections = [p \in Places |-> [id |-> At(p).id, host |-> assets[p[1]].id,
                                           qid |-> At(p).qid]]
    BY <2>1 DEF IInv, InventoryInv, Parsed
  <2>3. UniqueHosts /\ UniqueDetections
    BY <2>2 DEF Sound, UniqueHosts, UniqueDetections
  <2> QED
    BY <2>1, <2>3, Resolved DEF BreakConstraint, ReferencesResolve
<1> QED
  BY <1>3, <1>4, <1>5, <1>6, <1>7, <1>8
     DEF Next, vars, ParseInventory, ValidateRow, DropHostCopies, CollectCve, CvesCollected,
         CollectFields, FieldsCollected, ParseQids, Write, Done

(* The keys hold once the tables are written, and what is refused is not sound. *)
LEMMA WrittenStep == IInv /\ [Next]_vars => WrittenInv'
<1> SUFFICES ASSUME IInv, [Next]_vars PROVE WrittenInv'
  OBVIOUS
<1>1. Sound' <=> Sound
  BY RowsStep DEF Sound, assets, Rows, Places, At, FirstOfCve, FirstOfQid
<1>2. stage' = "failed" => ~Sound
  BY RefusedStep DEF IInv, WrittenInv
<1>3. stage' = "written" => (UniqueHosts /\ UniqueDetections)'
  BY DEF IInv, WrittenInv, UniqueHosts, UniqueDetections, Next, vars, ParseInventory,
         MalformedRecord, ValidateRow, RejectRow, DropHostCopies, CollectCve, MalformedCve,
         CvesCollected, CollectFields, MalformedFields, FieldsCollected, ParseQids,
         BareFailure, Write, BreakConstraint, Done, Fail
<1> QED
  BY <1>1, <1>2, <1>3 DEF WrittenInv

(* The strengthened invariant holds in every reachable state. *)
THEOREM Invariance == Spec => []IInv
<1>1. IInv /\ [Next]_vars => IInv'
  BY RowsStep, InventoryStep, JoinStep, CvesStep, FieldsStep, PairsStep, WrittenStep DEF IInv
<1> QED
  BY <1>1, InitIInv, PTL DEF Spec

(* Every variable keeps its type. *)
LEMMA TypeStep == IInv /\ TypeOK /\ [Next]_vars => TypeOK'
<1> SUFFICES ASSUME IInv, TypeOK, [Next]_vars PROVE TypeOK'
  OBVIOUS
<1>1. /\ input' = input /\ Rows' = Rows /\ assets' = assets /\ Places' = Places
      /\ Len(vulns)' = Len(Rows) /\ DOMAIN vulns' = 1..Len(Rows)
      /\ DOMAIN vulns = 1..Len(Rows)
      /\ Len(vulns) = Len(Rows) /\ Len(Rows) \in Nat
      /\ row' \in 1..(Len(Rows) + 1) /\ row \in 1..(Len(Rows) + 1)
  BY RowsStep, InputTypes DEF IInv, RowsInv, Rows, assets, Places
<1>2. (input \in Inputs /\ Len(vulns) = Len(input.vulns) /\ row \in 1..(Len(vulns) + 1))'
  BY <1>1 DEF TypeOK, Rows
<1>3. ASSUME NEW error \in {"IngestError", "JoinValidationError", "bare"}, NEW n \in Nat,
             Fail(error, n)
      PROVE  stage' = "failed" /\ failure' \in Failure /\ failure' # None
  <2>1. [error |-> error, row |-> n] \in Failure
    BY <1>3 DEF Failure
  <2> QED
    BY <1>3, <2>1, FailureAssumption DEF Fail
<1>4. (vulns \in Seq(Row))'
  <2>1. CASE DropHostCopies
    <3>1. vulns \in Seq(Row) /\ \A n \in 1..Len(Rows) : vulns[n] \in Row
      BY <1>1 DEF TypeOK
    <3>2. ASSUME NEW n \in 1..Len(Rows) PROVE [vulns[n] EXCEPT !.asset = None] \in Row
      BY <3>1 DEF Row
    <3>3. vulns' = [n \in 1..Len(Rows) |-> [vulns[n] EXCEPT !.asset = None]]
      BY <1>1, <2>1 DEF DropHostCopies
    <3> QED
      BY <1>1, <3>2, <3>3
  <2>2. CASE ~DropHostCopies
    BY <2>2 DEF TypeOK, Next, vars, ParseInventory, MalformedRecord, ValidateRow, RejectRow,
         CollectCve, MalformedCve, CvesCollected, CollectFields, MalformedFields,
         FieldsCollected, ParseQids, BareFailure, Write, BreakConstraint, Done
  <2> QED
    BY <2>1, <2>2
<1>5. (hosts = <<>> \/ hosts \in [DOMAIN assets -> Hosts])'
      /\ (detections = Empty
          \/ detections \in [Places -> [id : DetectionIds, host : Hosts, qid : Qids]])'
  <2>1. CASE ParseInventory
    <3>1. ASSUME NEW i \in DOMAIN assets
          PROVE  assets[i].id \in Hosts /\ assets[i].detections \in Seq(Detection)
      <4>1. assets[i] \in Record
        BY InputTypes DEF IInv
      <4> QED
        BY <4>1 DEF Record
    <3>2. ASSUME NEW p \in Places
          PROVE  /\ p[1] \in DOMAIN assets
                 /\ At(p).id \in DetectionIds /\ At(p).qid \in Qids
      <4>1. p[1] \in DOMAIN assets /\ p[2] \in DOMAIN assets[p[1]].detections
        BY DEF Places, PlacesIn
      <4>2. assets[p[1]].detections \in Seq(Detection)
        BY <3>1, <4>1
      <4>3. At(p) \in Detection
        BY <4>1, <4>2 DEF At
      <4> QED
        BY <4>1, <4>3 DEF Detection
    <3> QED
      BY <1>1, <2>1, <3>1, <3>2 DEF ParseInventory
  <2>2. CASE ~ParseInventory
    BY <1>1, <2>2 DEF TypeOK, Next, vars, MalformedRecord, ValidateRow, RejectRow,
         DropHostCopies, CollectCve, MalformedCve, CvesCollected, CollectFields,
         MalformedFields, FieldsCollected, ParseQids, BareFailure, Write, BreakConstraint,
         Done, Empty
  <2> QED
    BY <2>1, <2>2
<1>6. (DOMAIN cves \subseteq Cves /\ \A c \in DOMAIN cves : cves[c] \in Writeups)'
  <2>1. CASE CollectCve
    <3>1. vulns[row] \in Row
      BY <1>1, <2>1 DEF CollectCve, TypeOK
    <3> QED
      BY <2>1, <3>1 DEF CollectCve, New, With, TypeOK, Row
  <2>2. CASE ~CollectCve
    BY <2>2 DEF TypeOK, Next, vars, ParseInventory, MalformedRecord, ValidateRow, RejectRow,
         DropHostCopies, MalformedCve, CvesCollected, CollectFields, MalformedFields,
         FieldsCollected, ParseQids, BareFailure, Write, BreakConstraint, Done
  <2> QED
    BY <2>1, <2>2
<1>7. /\ (DOMAIN fields \subseteq Qids /\ \A q \in DOMAIN fields : fields[q] \in Fields)'
      /\ (DOMAIN warnings \subseteq DOMAIN fields)'
      /\ (\A q \in DOMAIN warnings : warnings[q] \in DOMAIN vulns)'
  <2>1. CASE CollectFields
    <3>1. vulns[row] \in Row /\ row \in 1..Len(Rows)
      BY <1>1, <2>1 DEF CollectFields, TypeOK
    <3>2. vulns[row].qid \in Qids /\ vulns[row].fields \in Fields
      BY <3>1 DEF Row
    <3> QED
      BY <1>1, <2>1, <3>1, <3>2 DEF CollectFields, With, TypeOK
  <2>2. CASE ~CollectFields
    <3>1. UNCHANGED <<fields, warnings>>
      BY <2>2 DEF Next, vars, ParseInventory, MalformedRecord, ValidateRow, RejectRow,
         DropHostCopies, CollectCve, MalformedCve, CvesCollected, MalformedFields,
         FieldsCollected, ParseQids, BareFailure, Write, BreakConstraint, Done
    <3> QED
      BY <1>1, <3>1 DEF TypeOK
  <2> QED
    BY <2>1, <2>2
<1>8. (pairs \subseteq Qids \X (Cves \cup {Null}))'
  <2>1. CASE FieldsCollected
    <3>1. \A n \in DOMAIN vulns : vulns[n] \in Row
      BY <1>1 DEF TypeOK
    <3>2. \A n \in DOMAIN vulns : vulns[n].qid \in Qids /\ vulns[n].cve \in Cves \cup {Missing, Null}
      BY <3>1 DEF Row
    <3> QED
      BY <2>1, <3>2 DEF FieldsCollected
  <2>2. CASE ~FieldsCollected
    BY <2>2 DEF TypeOK, Next, vars, ParseInventory, MalformedRecord, ValidateRow, RejectRow,
         DropHostCopies, CollectCve, MalformedCve, CvesCollected, CollectFields,
         MalformedFields, ParseQids, BareFailure, Write, BreakConstraint, Done
  <2> QED
    BY <2>1, <2>2
<1>9. (qids \subseteq QidRow)'
  <2>1. CASE ParseQids
    <3>1. \A q : Label(q) \in Writeups \cup {None}
      <4> SUFFICES ASSUME NEW q PROVE Label(q) \in Writeups \cup {None}
        OBVIOUS
      <4> DEFINE named == {pair[2] : pair \in {p \in pairs : p[1] = q}}
      <4>1. \A c \in named : cves[c] \in Writeups
        BY <2>1 DEF ParseQids, Paired, TypeOK
      <4> HIDE DEF named
      <4>2. named # {} => (CHOOSE c \in named : TRUE) \in named
        OBVIOUS
      <4>3. Label(q) = IF \E c \in named : named = {c} /\ cves[c] \notin Untitled
                       THEN cves[CHOOSE c \in named : TRUE]
                       ELSE None
        BY DEF Label, named
      <4> QED
        BY <4>1, <4>2, <4>3
    <3>2. \A p \in DOMAIN detections : detections[p].qid \in Qids
      BY <2>1 DEF ParseQids, TypeOK, Empty
    <3> QED
      <4> DEFINE made(q) == [qid |-> q, explained |-> q \in DOMAIN fields,
                             label |-> IF q \in DOMAIN fields THEN Label(q) ELSE None]
      <4>1. qids' = {made(q) : q \in {detections[p].qid : p \in DOMAIN detections}}
        BY <2>1 DEF ParseQids
      <4>2. ASSUME NEW q \in Qids PROVE made(q) \in QidRow
        BY <3>1 DEF QidRow
      <4> HIDE DEF made
      <4>3. \A q \in {detections[p].qid : p \in DOMAIN detections} : q \in Qids
        BY <3>2
      <4> QED
        BY <4>1, <4>2, <4>3
  <2>2. CASE ~ParseQids
    BY <2>2 DEF TypeOK, Next, vars, ParseInventory, MalformedRecord, ValidateRow, RejectRow,
         DropHostCopies, CollectCve, MalformedCve, CvesCollected, CollectFields,
         MalformedFields, FieldsCollected, BareFailure, Write, BreakConstraint, Done
  <2> QED
    BY <2>1, <2>2
<1>10. /\ (failure \in Failure \cup {None} /\ (failure = None <=> stage # "failed"))'
       /\ stage' \in {"inventory", "join", "cves", "fields", "pairs", "write", "written",
                      "failed"}
  <2>1. CASE MalformedRecord
    <3>1. PICK i \in DOMAIN assets : Fail("IngestError", i)
      BY <2>1 DEF MalformedRecord
    <3>2. i \in Nat
      BY InputTypes DEF IInv
    <3> QED
      BY <1>3, <3>1, <3>2
  <2>2. CASE RejectRow
    <3>1. Fail("IngestError", row) \/ Fail("JoinValidationError", row)
      BY <2>2 DEF RejectRow
    <3> QED
      BY <1>1, <1>3, <3>1
  <2>3. CASE MalformedCve \/ MalformedFields
    BY <1>1, <1>3, <2>3 DEF MalformedCve, MalformedFields
  <2>4. CASE BareFailure \/ BreakConstraint
    BY <1>3, <2>4 DEF BareFailure, BreakConstraint
  <2>5. CASE ~(MalformedRecord \/ RejectRow \/ MalformedCve \/ MalformedFields
               \/ BareFailure \/ BreakConstraint)
    BY <2>5 DEF TypeOK, Next, vars, ParseInventory, ValidateRow, DropHostCopies, CollectCve,
         CvesCollected, CollectFields, FieldsCollected, ParseQids, Write, Done
  <2> QED
    BY <2>1, <2>2, <2>3, <2>4, <2>5
<1> QED
  BY <1>2, <1>4, <1>5, <1>6, <1>7, <1>8, <1>9, <1>10 DEF TypeOK

(* Every variable keeps its type, in particular the row that a warning names. *)
THEOREM TypeCorrect == Spec => []TypeOK
<1>1. Init => TypeOK
  BY DEF Init, TypeOK, Empty
<1>2. IInv /\ TypeOK /\ [Next]_vars => TypeOK'
  BY TypeStep
<1> QED
  BY <1>1, <1>2, Invariance, PTL DEF Spec

(* No reference between tables is left dangling, whatever the exports hold. *)
THEOREM TablesResolve == Spec => []ReferencesResolve
BY Resolved, Invariance, PTL

(* What is kept of a CVE or a QID is what its first row says. *)
THEOREM FirstRowIsKept == Spec => []FirstRowWins
<1>1. IInv => FirstRowWins
  <2> SUFFICES ASSUME IInv, stage \in Agreed, NEW n \in DOMAIN Rows
               PROVE  /\ Rows[n].cve \in Cves /\ FirstOfCve(n) =>
                           Rows[n].cve \in DOMAIN cves /\ cves[Rows[n].cve] = Rows[n].writeup
                      /\ FirstOfQid(n) =>
                           Rows[n].qid \in DOMAIN fields /\ fields[Rows[n].qid] = Rows[n].fields
    BY DEF FirstRowWins, Agreed
  <2>1. CvesTo(Len(Rows)) /\ FieldsTo(Len(Rows)) /\ n \in 1..Len(Rows)
    BY InputTypes DEF IInv, CvesInv, FieldsInv, Collected, Agreed
  <2> QED
    BY <2>1 DEF CvesTo, FieldsTo
<1> QED
  BY <1>1, Invariance, PTL

(* A QID is reported exactly if its rows disagree, at the first that does. *)
THEOREM DisagreementsAreFound == Spec => []DisagreementsAreReported
<1>1. IInv => DisagreementsAreReported
  <2> SUFFICES ASSUME IInv, stage \in Agreed, NEW n \in DOMAIN Rows
               PROVE  LET q == Rows[n].qid
                      IN  q \in DOMAIN warnings /\ warnings[q] = n <=>
                            /\ Differs(Rows, fields, n, q)
                            /\ \A m \in 1..(n - 1) : ~Differs(Rows, fields, m, q)
    BY DEF DisagreementsAreReported, Agreed, Differs
  <2>1. WarnedTo(Len(Rows)) /\ n \in 1..Len(Rows) /\ Len(Rows) \in Nat
    BY InputTypes DEF IInv, WarnedInv
  <2> DEFINE q == Rows[n].qid
  <2>2. ASSUME q \in DOMAIN warnings, warnings[q] = n
        PROVE  /\ Differs(Rows, fields, n, q)
               /\ \A m \in 1..(n - 1) : ~Differs(Rows, fields, m, q)
    BY <2>1, <2>2 DEF WarnedTo
  <2>3. ASSUME Differs(Rows, fields, n, q),
               \A m \in 1..(n - 1) : ~Differs(Rows, fields, m, q)
        PROVE  q \in DOMAIN warnings /\ warnings[q] = n
    <3>1. q \in DOMAIN warnings
      BY <2>1, <2>3 DEF WarnedTo
    <3>2. /\ warnings[q] \in 1..Len(Rows) /\ Differs(Rows, fields, warnings[q], q)
          /\ \A m \in 1..(warnings[q] - 1) : ~Differs(Rows, fields, m, q)
      BY <2>1, <3>1 DEF WarnedTo
    <3> QED
      BY <2>1, <2>3, <3>1, <3>2
  <2> QED
    BY <2>2, <2>3
<1> QED
  BY <1>1, Invariance, PTL

(* How the rows of table qids were made. *)
QidsInv ==
    stage \in {"write", "written"} =>
        \A q \in qids : /\ q.explained <=> q.qid \in DOMAIN fields
                       /\ q.label = IF q.qid \in DOMAIN fields THEN Label(q.qid) ELSE None

LEMMA QidsStep == IInv /\ QidsInv /\ [Next]_vars => QidsInv'
<1> SUFFICES ASSUME IInv, QidsInv, [Next]_vars PROVE QidsInv'
  OBVIOUS
<1>1. CASE ParseQids
  <2>1. UNCHANGED <<fields, cves, pairs>>
    BY <1>1 DEF ParseQids
  <2>2. \A q : Label(q)' = Label(q)
    BY <2>1 DEF Label
  <2> SUFFICES ASSUME NEW q \in qids'
               PROVE  /\ q.explained <=> q.qid \in DOMAIN fields
                      /\ q.label = IF q.qid \in DOMAIN fields THEN Label(q.qid) ELSE None
    BY <2>1, <2>2 DEF QidsInv
  <2>3. PICK k \in {detections[p].qid : p \in DOMAIN detections} :
          q = [qid |-> k, explained |-> k \in DOMAIN fields,
               label |-> IF k \in DOMAIN fields THEN Label(k) ELSE None]
    BY <1>1 DEF ParseQids
  <2> QED
    BY <2>3
<1>2. CASE ~ParseQids
  <2>1. stage' \in {"write", "written"} =>
          stage \in {"write", "written"} /\ UNCHANGED <<qids, fields, cves, pairs>>
    BY <1>2 DEF Next, vars, ParseInventory, MalformedRecord, ValidateRow, RejectRow,
         DropHostCopies, CollectCve, MalformedCve, CvesCollected, CollectFields,
         MalformedFields, FieldsCollected, BareFailure, Write, BreakConstraint, Done, Fail
  <2>2. UNCHANGED <<cves, pairs>> => \A q : Label(q)' = Label(q)
    BY DEF Label
  <2> QED
    BY <2>1, <2>2 DEF QidsInv
<1> QED
  BY <1>1, <1>2

(* The CVEs that the rows of a QID name are those it is paired with.        *)
LEMMA NamedByRows ==
  ASSUME IInv, stage \in {"write", "written"}, NEW q
  PROVE  LET about == {n \in DOMAIN Rows : Rows[n].qid = q}
         IN  /\ q \in DOMAIN fields <=> about # {}
             /\ {Rows[n].cve : n \in about} \ {Missing}
                   = {pair[2] : pair \in {p \in pairs : p[1] = q}}
<1>1. FieldsTo(Len(Rows)) /\ DOMAIN Rows = 1..Len(Rows)
  BY InputTypes DEF IInv, FieldsInv, Agreed
<1>2. pairs = {<<Rows[n].qid, Rows[n].cve>> : n \in {m \in DOMAIN Rows : Rows[m].cve # Missing}}
  BY DEF IInv, PairsInv, Agreed
<1> DEFINE about == {n \in DOMAIN Rows : Rows[n].qid = q}
<1>3. q \in DOMAIN fields <=> about # {}
  BY <1>1 DEF FieldsTo
<1>4. ASSUME NEW n \in about, Rows[n].cve # Missing
      PROVE  Rows[n].cve \in {pair[2] : pair \in {p \in pairs : p[1] = q}}
  <2>1. <<q, Rows[n].cve>> \in pairs
    BY <1>2, <1>4
  <2> QED
    BY <2>1
<1>5. ASSUME NEW pair \in pairs, pair[1] = q
      PROVE  pair[2] \in {Rows[n].cve : n \in about} \ {Missing}
  <2>1. PICK n \in DOMAIN Rows : Rows[n].cve # Missing /\ pair = <<Rows[n].qid, Rows[n].cve>>
    BY <1>2
  <2> QED
    BY <1>5, <2>1
<1> QED
  BY <1>3, <1>4, <1>5

(* A QID is explained exactly if a row explains it, and is called by the    *)
(* title of its CVE exactly if its rows name one CVE with a title.          *)
THEOREM LabelsAreTrue == Spec => []QidsAreTold
<1>1. Init => QidsInv
  BY DEF Init, QidsInv
<1>2. IInv /\ QidsInv => QidsAreTold
  <2> SUFFICES ASSUME IInv, QidsInv, stage \in {"write", "written"}, NEW q \in qids
               PROVE  LET about == {n \in DOMAIN Rows : Rows[n].qid = q.qid}
                          named == {Rows[n].cve : n \in about} \ {Missing}
                      IN  /\ q.explained <=> about # {}
                          /\ \A c \in named :
                               named = {c} /\ cves[c] \notin Untitled => q.label = cves[c]
                          /\ q.label # None => \E c \in named : named = {c} /\ q.label = cves[c]
    BY DEF QidsAreTold
  <2> DEFINE about == {n \in DOMAIN Rows : Rows[n].qid = q.qid}
             named == {Rows[n].cve : n \in about} \ {Missing}
  <2>1. /\ q.qid \in DOMAIN fields <=> about # {}
        /\ named = {pair[2] : pair \in {p \in pairs : p[1] = q.qid}}
    BY NamedByRows
  <2>2. /\ q.explained <=> q.qid \in DOMAIN fields
        /\ q.label = IF q.qid \in DOMAIN fields THEN Label(q.qid) ELSE None
    BY DEF QidsInv
  <2>3. Label(q.qid) = IF \E c \in named : named = {c} /\ cves[c] \notin Untitled
                       THEN cves[CHOOSE c \in named : TRUE]
                       ELSE None
    <3> DEFINE paired == {pair[2] : pair \in {p \in pairs : p[1] = q.qid}}
    <3>1. Label(q.qid) = IF \E c \in paired : paired = {c} /\ cves[c] \notin Untitled
                         THEN cves[CHOOSE c \in paired : TRUE]
                         ELSE None
      BY Zenon DEF Label
    <3>2. named = paired
      BY <2>1
    <3> HIDE DEF named, paired
    <3> QED
      BY <3>1, <3>2
  <2>4. about = {} => named = {}
    OBVIOUS
  <2> HIDE DEF named, about
  <2>5. \A c \in named : named = {c} => (CHOOSE d \in named : TRUE) = c
    <3> SUFFICES ASSUME NEW c \in named, named = {c} PROVE (CHOOSE d \in named : TRUE) = c
      OBVIOUS
    <3>1. (CHOOSE d \in named : TRUE) \in named
      OBVIOUS
    <3> QED
      BY <3>1
  <2> QED
    BY <2>1, <2>2, <2>3, <2>4, <2>5 DEF named, about
<1> QED
  BY <1>1, <1>2, QidsStep, Invariance, PTL DEF Spec

(* What the artifact says of CVEs and QIDs is what the rows say. *)
THEOREM CorpusStaysFaithful == Spec => []CorpusIsFaithful
BY FirstRowIsKept, DisagreementsAreFound, LabelsAreTrue, PTL DEF CorpusIsFaithful

(* Exports are written only if they are sound and refused only if they are  *)
(* not.                                                                     *)
THEOREM SoundnessDecides == Spec => []SoundExportsAreWritten
<1>1. IInv /\ stage = "written" => Sound
  <2> SUFFICES ASSUME IInv, stage = "written" PROVE Sound
    OBVIOUS
  <2>1. /\ \A i \in DOMAIN assets : assets[i].sound
        /\ hosts = [i \in DOMAIN assets |-> assets[i].id]
        /\ detections = [p \in Places |-> [id |-> At(p).id, host |-> assets[p[1]].id,
                                           qid |-> At(p).qid]]
        /\ UniqueHosts /\ UniqueDetections
    BY DEF IInv, InventoryInv, WrittenInv, Parsed
  <2>2. /\ CvesTo(Len(Rows)) /\ FieldsTo(Len(Rows)) /\ JoinedTo(Len(Rows))
        /\ Paired /\ Readable
        /\ Rows \in Seq(Row) /\ DOMAIN Rows = 1..Len(Rows) /\ assets \in Seq(Record)
    BY InputTypes DEF IInv, CvesInv, FieldsInv, JoinInv, PairsInv, Collected, Agreed, Joined
  <2>3. \A i, j \in DOMAIN assets : assets[i].sound /\ (assets[i].id = assets[j].id => i = j)
    BY <2>1 DEF UniqueHosts
  <2>4. \A p, q \in Places : At(p).id = At(q).id => p = q
    BY <2>1 DEF UniqueDetections
  <2>5. ASSUME NEW n \in DOMAIN Rows
        PROVE  /\ Rows[n].lacks \notin {"join", "fields"}
               /\ Rows[n].lacks = "cve" => Rows[n].cve \notin Cves \/ ~FirstOfCve(n)
               /\ FirstOfQid(n) => Rows[n].fields \notin Broken
    BY <2>2 DEF CvesTo, FieldsTo, JoinedTo, Readable
  <2>6. ASSUME NEW n \in DOMAIN Rows PROVE Rows[n].cve # Null
    <3>1. Rows[n].cve # Missing => <<Rows[n].qid, Rows[n].cve>> \in pairs
      BY DEF IInv, PairsInv, Agreed
    <3>2. Rows[n].cve # Missing => Rows[n].cve \in Cves
      BY <2>2, <3>1 DEF Paired, CvesTo
    <3> QED
      BY <3>2
  <2>7. ASSUME NEW n \in DOMAIN Rows
        PROVE  \E p \in Places : /\ assets[p[1]] = Rows[n].asset
                                 /\ At(p) = [id |-> Rows[n].detection, qid |-> Rows[n].qid,
                                             found |-> Rows[n].found]
    <3>1. Matches(assets, Rows[n])
      BY <2>2 DEF JoinedTo
    <3>2. PICK i \in DOMAIN assets : assets[i] = Rows[n].asset
      BY <3>1 DEF Matches
    <3>3. PICK p \in Places : /\ assets[p[1]].id = Rows[n].asset.id
                              /\ At(p).id = Rows[n].detection /\ At(p).qid = Rows[n].qid
                              /\ At(p).found = Rows[n].found
      BY <3>1 DEF Matches, Places, At
    <3>4. p[1] \in DOMAIN assets /\ p[2] \in DOMAIN assets[p[1]].detections
      BY DEF Places, PlacesIn
    <3>5. p[1] = i
      BY <2>3, <3>2, <3>3, <3>4
    <3>6. At(p) \in Detection
      <4>1. assets[p[1]] \in Record
        BY <2>2, <3>4
      <4>2. assets[p[1]].detections \in Seq(Detection)
        BY <4>1 DEF Record
      <4> QED
        BY <3>4, <4>2 DEF At
    <3> QED
      BY <3>2, <3>3, <3>5, <3>6 DEF Detection
  <2> QED
    BY <2>3, <2>4, <2>5, <2>6, <2>7 DEF Sound
<1>2. IInv => SoundExportsAreWritten
  BY <1>1 DEF SoundExportsAreWritten, IInv, WrittenInv
<1> QED
  BY <1>2, Invariance, PTL

-----------------------------------------------------------------------------
(* Index and Exports *)

LEMMA ExportsStep == [IndexNext]_<<vars, index_vars>> => [Next]_vars
BY DEF IndexNext, Parsing, WriteTables, Indexing, ListDocuments, StartSegment, NextDocument,
       CutTrace, EndTrace, Pack, EndProse, ChunksBuilt, Embed, EmbedWrongly, Embedded,
       IndexDone, Next, vars

(* build_artifact implements what Exports says of the exports: chunking and *)
(* embedding come between parsing and writing and change neither.  All that *)
(* is proved of Exports so holds of Index.                                  *)
THEOREM IndexImplementsExports == IndexSpec => Spec
<1>1. IndexInit => Init
  BY DEF IndexInit
<1> QED
  BY <1>1, ExportsStep, PTL DEF IndexSpec, Spec

-----------------------------------------------------------------------------
(* Types *)

PackTypes ==
    /\ at \in Nat \ {0}
    /\ segment \in Part
    /\ current \in Seq(Part) /\ fresh \in 0..Len(current)
    /\ packed \in 0..Len(chunks)
    /\ chunks \in Seq(Chunk)

VectorType == [id : Nat, doc : Nat, units : Seq(Part)]

BuildTypes ==
    /\ build \in Builds
    /\ phase \in {"parse", "segment", "trace", "prose", "embed", "ready", "failed"}
    /\ docs \in Seq(Document)
    /\ doc \in 1..(Len(docs) + 1)
    /\ trouble \in {"none", "IngestError", "RuntimeError"}
    /\ trouble # "none" <=> phase = "failed"
    /\ phase = "parse" => docs = <<>>

IndexTypes == BuildTypes /\ PackTypes /\ vectors \in Seq(VectorType)

(* The last n units of a sequence. *)
LEMMA SuffixType ==
  ASSUME NEW s \in Seq(Part), NEW n \in 0..Len(s)
  PROVE  /\ Suffix(s, n) \in Seq(Part) /\ Len(Suffix(s, n)) = n
         /\ \A i \in 1..n : Suffix(s, n)[i] = s[i + Len(s) - n]
BY DEF Suffix

(* The overlap is a suffix of the current chunk. *)
LEMMA OverlapIsSuffix ==
  ASSUME current \in Seq(Part), NEW u
  PROVE  \E n \in 0..Len(current) : Overlap(u) = Suffix(current, n)
<1>1. Suffix(current, Len(current)) = current /\ Suffix(current, 0) = <<>>
  BY DEF Suffix
<1>2. CASE Overlap(u) = <<>>
  BY <1>1, <1>2
<1>3. CASE Overlap(u) # <<>>
  <2>1. OverlapSentences \in Nat
    BY IndexAssumption
  <2>2. CASE OverlapSentences < Len(current)
    BY <1>3, <2>1, <2>2 DEF Overlap
  <2>3. CASE ~(OverlapSentences < Len(current))
    BY <1>1, <1>3, <2>3 DEF Overlap
  <2> QED
    BY <2>2, <2>3
<1> QED
  BY <1>2, <1>3

(* What is left without tags is words. *)
LEMMA StrippedIsText ==
  ASSUME NEW raw \in Seq(Word)
  PROVE  Stripped(raw) \in Seq(Word)
<1> DEFINE kept == {i \in DOMAIN raw : raw[i].as \notin {"inline", "block"}}
           closes(i) == \E j \in DOMAIN raw : /\ i < j /\ raw[j].as = "block"
                                             /\ (i + 1)..(j - 1) \cap kept = {}
           closed == [i \in DOMAIN raw |-> [raw[i] EXCEPT !.ends = @ \/ closes(i)]]
<1>1. PICK n \in Nat : raw \in [1..n -> Word]
  OBVIOUS
<1>2. kept \in SUBSET (1..n)
  BY <1>1
<1>3. Stripped(raw) = Selected(closed, kept)
  BY Zenon DEF Stripped
<1>4. closed \in [1..n -> Word]
  <2>1. ASSUME NEW w \in Word, NEW b \in BOOLEAN PROVE [w EXCEPT !.ends = b] \in Word
    BY DEF Word
  <2>2. \A i \in 1..n : raw[i] \in Word /\ (raw[i].ends \/ closes(i)) \in BOOLEAN
    <3>1. \A i : (raw[i].ends \/ closes(i)) \in BOOLEAN
      BY Zenon
    <3>2. \A i \in 1..n : raw[i] \in Word
      BY <1>1
    <3> QED
      BY <3>1, <3>2, Zenon
  <2> HIDE DEF closes
  <2>3. \A i \in 1..n : [raw[i] EXCEPT !.ends = (raw[i].ends \/ closes(i))] \in Word
    BY <2>1, <2>2, Zenon
  <2>4. closed = [i \in 1..n |-> [raw[i] EXCEPT !.ends = (raw[i].ends \/ closes(i))]]
    BY <1>1, Zenon
  <2> QED
    BY <2>3, <2>4, Zenon
<1> HIDE DEF kept, closed
<1> QED
  BY <1>1, <1>2, <1>3, <1>4, SelectedIs

(* The texts of a build, cleaned. *)
LEMMA CleanedText ==
  ASSUME build \in Builds, NEW s \in Sources
  PROVE  Stripped(build.texts[s]) \in Seq(Word) /\ WithoutOpening(build.texts[s]) \in Seq(Word)
<1>1. build.texts[s] \in Seq(Words) /\ Words \subseteq Word
  BY BuildsAssumption
<1>2. build.texts[s] \in Seq(Word)
  BY <1>1
<1>3. WithoutOpening(build.texts[s]) \in Seq(Word)
  BY <1>2 DEF WithoutOpening
<1> QED
  BY <1>2, <1>3, StrippedIsText

(* Finitely many rows have finitely many values. *)
LEMMA FiniteImage ==
  ASSUME NEW n \in Nat, NEW f
  PROVE  IsFiniteSet({f[i] : i \in 1..n})
<1> DEFINE T == {f[i] : i \in 1..n}
           g == [i \in 1..n |-> f[i]]
<1>1. IsFiniteSet(1..n)
  BY FS_Interval
<1>2. g \in Surjection(1..n, T)
  BY DEF Surjection
<1> HIDE DEF T, g
<1>3. IsFiniteSet(T)
  BY <1>1, <1>2, FS_Surjection
<1> QED
  BY <1>3 DEF T

(* There are finitely many QIDs and CVEs once the rows have been gone       *)
(* through.                                                                 *)
LEMMA FiniteTables ==
  ASSUME IInv, stage = "write"
  PROVE  IsFiniteSet(DOMAIN fields) /\ IsFiniteSet(DOMAIN cves)
<1> DEFINE n == Len(Rows)
           q == [i \in 1..n |-> Rows[i].qid]
           c == [i \in 1..n |-> Rows[i].cve]
<1>1. n \in Nat
  BY InputTypes DEF IInv
<1>2. FieldsTo(n) /\ CvesTo(n)
  BY DEF IInv, FieldsInv, CvesInv, Agreed, Collected
<1>3. IsFiniteSet({q[i] : i \in 1..n}) /\ IsFiniteSet({c[i] : i \in 1..n})
  BY <1>1, FiniteImage
<1>4. DOMAIN fields \subseteq {q[i] : i \in 1..n}
  BY <1>2 DEF FieldsTo
<1>5. DOMAIN cves \subseteq {c[i] : i \in 1..n}
  BY <1>2 DEF CvesTo
<1> QED
  BY <1>3, <1>4, <1>5, FS_Subset

(* The documents of a corpus are documents. *)
LEMMA ListedDocuments ==
  ASSUME IInv, TypeOK, build \in Builds, ListDocuments
  PROVE  docs' \in Seq(Document)
<1> DEFINE Q == {q \in DOMAIN fields : \E r \in qids : r.qid = q /\ r.explained}
           ofQid(q) == [type |-> "qid", id |-> q, text |-> Stripped(build.texts[fields[q]])]
           ofCve(c) == [type |-> "cve", id |-> c,
                        text |-> WithoutOpening(build.texts[cves[c]])]
<1>1. Cardinality(Q) \in Nat /\ Cardinality(DOMAIN cves) \in Nat
  BY FiniteTables, FS_Subset, FS_CardinalityType DEF ListDocuments
<1>2. PICK s \in InOrder(Q), t \in InOrder(DOMAIN cves) :
         docs' = [k \in DOMAIN s |-> ofQid(s[k])] \o [k \in DOMAIN t |-> ofCve(t[k])]
  BY DEF ListDocuments
<1>3. /\ s \in [1..Cardinality(Q) -> Q]
      /\ t \in [1..Cardinality(DOMAIN cves) -> DOMAIN cves]
  BY <1>2 DEF InOrder
<1>4. ASSUME NEW q \in Q PROVE ofQid(q) \in Document
  <2>1. q \in Qids /\ fields[q] \in Sources
    BY DEF TypeOK, Sources
  <2>2. Stripped(build.texts[fields[q]]) \in Seq(Word)
    BY <2>1, CleanedText
  <2> QED
    BY <2>1, <2>2 DEF Document
<1>5. ASSUME NEW c \in DOMAIN cves PROVE ofCve(c) \in Document
  <2>1. c \in Cves /\ cves[c] \in Sources
    BY DEF TypeOK, Sources
  <2>2. WithoutOpening(build.texts[cves[c]]) \in Seq(Word)
    BY <2>1, CleanedText
  <2> QED
    BY <2>1, <2>2 DEF Document
<1> HIDE DEF Q, ofQid, ofCve
<1>6. [k \in DOMAIN s |-> ofQid(s[k])] \in Seq(Document)
  BY SMTT(30), <1>1, <1>3, <1>4
<1>7. [k \in DOMAIN t |-> ofCve(t[k])] \in Seq(Document)
  BY SMTT(30), <1>1, <1>3, <1>5
<1> DEFINE left  == [k \in DOMAIN s |-> ofQid(s[k])]
           right == [k \in DOMAIN t |-> ofCve(t[k])]
<1> HIDE DEF left, right
<1>8. left \in Seq(Document) /\ right \in Seq(Document)
  BY <1>6, <1>7 DEF left, right
<1>9. docs' = left \o right
  BY <1>2 DEF left, right
<1> QED
  BY <1>8, <1>9, ConcatProperties

(* The next unit of prose, and the next part of a trace. *)
LEMMA NextPart ==
  ASSUME PackTypes, NEW p \in [from : {at}, to : at .. segment.to]
  PROVE  p \in Part /\ p.to + 1 \in Nat \ {0} /\ p.from = at /\ p.from <= p.to
                    /\ p.to <= segment.to
<1>1. at \in Nat \ {0} /\ segment.to \in Nat
  BY DEF PackTypes, Part
<1> QED
  BY <1>1 DEF Part

LEMMA ChunkedType ==
  ASSUME PackTypes, BuildTypes, NEW kind \in {"text", "trace"}, NEW units \in Seq(Part)
  PROVE  Chunked(kind, units) \in Seq(Chunk) /\ Len(Chunked(kind, units)) = Len(chunks) + 1
<1> DEFINE new == [id |-> Len(chunks) + 1, doc |-> doc, kind |-> kind, units |-> units]
<1>1. chunks \in Seq(Chunk) /\ Len(chunks) \in Nat /\ doc \in Nat \ {0}
  BY DEF PackTypes, BuildTypes
<1>2. new \in Chunk
  BY <1>1 DEF Chunk
<1>3. Chunked(kind, units) = Append(chunks, new)
  BY DEF Chunked
<1> HIDE DEF new
<1> QED
  BY <1>1, <1>2, <1>3

(* The alternatives of Pack, apart. *)
PackMore(u) ==
    /\ current = <<>> \/ Fits(current, u)
    /\ current' = Append(current, u) /\ fresh' = fresh + 1
    /\ UNCHANGED <<chunks, packed>>

PackFull(u) ==
    /\ current # <<>> /\ ~Fits(current, u)
    /\ chunks' = Chunked("text", current)
    /\ current' = Append(Overlap(u), u) /\ fresh' = 1
    /\ packed' = packed + 1

LEMMA PackCases ==
  ASSUME Pack
  PROVE  \E u \in [from : {at}, to : at .. segment.to] :
           /\ at' = u.to + 1 /\ IsUnit(Text, Rest, u)
           /\ PackMore(u) \/ PackFull(u)
BY DEF Pack, PackMore, PackFull

LEMMA PackTypesStep ==
  ASSUME PackTypes, BuildTypes,
         StartSegment \/ NextDocument \/ CutTrace \/ Pack \/ EndProse
  PROVE  PackTypes'
<1>1. CASE StartSegment
  <2>1. segment' \in [from : DOMAIN Text, to : DOMAIN Text]
    BY <1>1 DEF StartSegment, Runs
  <2>2. Text \in Seq(Word)
    <3>1. docs \in Seq(Document) /\ doc \in 1..Len(docs)
      BY <1>1 DEF StartSegment, BuildTypes
    <3>2. docs[doc] \in Document
      BY <3>1
    <3> QED
      BY <3>2 DEF Text, Document
  <2>3. segment' \in Part
    BY <2>1, <2>2 DEF Part
  <2> QED
    BY <1>1, <2>3 DEF StartSegment, PackTypes
<1>2. CASE NextDocument
  BY <1>2 DEF NextDocument, PackTypes, pack_vars
<1>3. CASE CutTrace
  <2>1. PICK p \in [from : {at}, to : at .. segment.to] :
          chunks' = Chunked("trace", <<p>>) /\ at' = p.to + 1
    BY <1>3 DEF CutTrace
  <2>2. p \in Part /\ p.to + 1 \in Nat \ {0}
    BY NextPart
  <2>3. chunks' \in Seq(Chunk) /\ Len(chunks') = Len(chunks) + 1
    <3>1. <<p>> \in Seq(Part)
      BY <2>2
    <3> QED
      BY <2>1, <3>1, ChunkedType
  <2> QED
    BY <1>3, <2>1, <2>2, <2>3 DEF CutTrace, PackTypes, pack_vars
<1>4. CASE Pack
  <2>1. PICK u \in [from : {at}, to : at .. segment.to] :
          at' = u.to + 1 /\ (PackMore(u) \/ PackFull(u))
    BY <1>4, PackCases
  <2>2. u \in Part /\ at' \in Nat \ {0}
    BY <2>1, NextPart
  <2>3. segment' \in Part
    BY <1>4 DEF Pack, PackTypes
  <2>4. CASE PackMore(u)
    <3>1. current' \in Seq(Part) /\ fresh' \in 0..Len(current')
      BY <2>2, <2>4 DEF PackTypes, PackMore
    <3> QED
      BY <2>2, <2>3, <2>4, <3>1 DEF PackTypes, PackMore
  <2>5. CASE PackFull(u)
    <3>1. current \in Seq(Part)
      BY DEF PackTypes
    <3>2. Overlap(u) \in Seq(Part)
      BY <3>1, OverlapIsSuffix, SuffixType
    <3>3. current' \in Seq(Part) /\ fresh' \in 0..Len(current')
      BY <2>2, <2>5, <3>2 DEF PackFull
    <3>4. chunks' \in Seq(Chunk) /\ Len(chunks') = Len(chunks) + 1
      BY <2>5, <3>1, ChunkedType DEF PackFull
    <3>5. packed' \in 0..Len(chunks')
      BY <2>5, <3>4 DEF PackFull, PackTypes
    <3> QED
      BY <2>2, <2>3, <3>3, <3>4, <3>5 DEF PackTypes
  <2> QED
    BY <2>1, <2>4, <2>5
<1>5. CASE EndProse
  <2> DEFINE tail == Suffix(current, fresh)
             joined == [chunks EXCEPT ![Len(chunks)].units = @ \o tail]
  <2>1. tail \in Seq(Part) /\ current \in Seq(Part)
    BY SuffixType DEF PackTypes
  <2>2. chunks' = Chunked("text", current) \/ (packed > 0 /\ chunks' = joined)
    BY <1>5 DEF EndProse
  <2>3. ASSUME packed > 0 PROVE joined \in Seq(Chunk) /\ Len(joined) = Len(chunks)
    <3> DEFINE last == chunks[Len(chunks)]
               longer == [last EXCEPT !.units = @ \o tail]
    <3>1. Len(chunks) \in DOMAIN chunks /\ last \in Chunk
      BY <2>3 DEF PackTypes
    <3>2. longer \in Chunk
      <4>1. last.units \o tail \in Seq(Part)
        BY <2>1, <3>1 DEF Chunk
      <4> HIDE DEF tail, last
      <4> QED
        BY <3>1, <4>1 DEF Chunk
    <3>3. joined = [chunks EXCEPT ![Len(chunks)] = longer]
      OBVIOUS
    <3> HIDE DEF joined, longer
    <3> QED
      BY <3>1, <3>2, <3>3 DEF PackTypes
  <2> HIDE DEF joined, tail
  <2>4. chunks' \in Seq(Chunk) /\ packed \in 0..Len(chunks')
    BY <2>1, <2>2, <2>3, ChunkedType DEF PackTypes
  <2> QED
    BY <1>5, <2>4 DEF EndProse, PackTypes, pack_vars
<1> QED
  BY <1>1, <1>2, <1>3, <1>4, <1>5

LEMMA WaitingVector ==
  ASSUME PackTypes, NEW k \in Waiting
  PROVE  Vector(k, k) \in VectorType
<1>1. k \in DOMAIN chunks /\ k \in Nat /\ chunks[k] \in Chunk
  BY DEF Waiting, PackTypes
<1> QED
  BY <1>1 DEF Vector, VectorType, Chunk

LEMMA VectorsStep ==
  ASSUME PackTypes, BuildTypes, vectors \in Seq(VectorType), Embed
  PROVE  vectors' \in Seq(VectorType)
<1>1. PICK ids \in Batches :
        vectors' = vectors \o [k \in DOMAIN ids |-> Vector(ids[k], ids[k])]
  BY DEF Embed
<1>2. PICK n \in 1..BatchSize : ids \in [1..n -> Waiting]
  BY DEF Batches
<1>3. n \in Nat
  BY IndexAssumption
<1>5. [k \in DOMAIN ids |-> Vector(ids[k], ids[k])] \in Seq(VectorType)
  BY <1>2, <1>3, WaitingVector
<1> QED
  BY <1>1, <1>5

LEMMA BuildTypesStep ==
  ASSUME IInv, TypeOK, BuildTypes, Indexing
  PROVE  BuildTypes'
<1>1. CASE ListDocuments
  <2>1. docs' \in Seq(Document)
    BY <1>1, ListedDocuments DEF BuildTypes
  <2>2. doc = 1 /\ doc' = 1
    BY SMTT(30), <1>1 DEF ListDocuments, BuildTypes
  <2>3. doc' \in 1..(Len(docs') + 1)
    BY <2>1, <2>2
  <2> QED
    BY <1>1, <2>1, <2>3 DEF ListDocuments, BuildTypes
<1>2. CASE NextDocument
  BY <1>2 DEF NextDocument, BuildTypes
<1>3. CASE ~ListDocuments /\ ~NextDocument
  BY <1>3 DEF Indexing, StartSegment, CutTrace, EndTrace, Pack, EndProse, ChunksBuilt, Embed,
              EmbedWrongly, Embedded, BuildTypes
<1> QED
  BY <1>1, <1>2, <1>3

LEMMA TypesStep ==
  ASSUME IInv, TypeOK, IndexTypes, [IndexNext]_<<vars, index_vars>>
  PROVE  IndexTypes'
<1> USE DEF IndexTypes
<1>1. CASE Indexing
  <2>1. BuildTypes'
    BY <1>1, BuildTypesStep
  <2>2. PackTypes'
    <3>1. CASE StartSegment \/ NextDocument \/ CutTrace \/ Pack \/ EndProse
      BY <3>1, PackTypesStep
    <3>2. CASE ListDocuments \/ EndTrace \/ ChunksBuilt \/ Embed \/ EmbedWrongly \/ Embedded
      BY <3>2 DEF ListDocuments, EndTrace, ChunksBuilt, Embed, EmbedWrongly, Embedded, PackTypes,
                  pack_vars
    <3> QED
      BY <1>1, <3>1, <3>2 DEF Indexing
  <2>3. vectors' \in Seq(VectorType)
    BY <1>1, VectorsStep DEF Indexing, ListDocuments, StartSegment, NextDocument, CutTrace,
       EndTrace, Pack, EndProse, ChunksBuilt, EmbedWrongly, Embedded
  <2> QED
    BY <2>1, <2>2, <2>3
<1>2. CASE UNCHANGED index_vars
  BY <1>2 DEF BuildTypes, PackTypes, index_vars
<1> QED
  BY <1>1, <1>2 DEF IndexNext, IndexDone

LEMMA InitTypes == IndexInit => IndexTypes
BY DEF IndexInit, IndexTypes, BuildTypes, PackTypes, Part

(* Every variable of build_artifact keeps its type. *)
THEOREM IndexTypeCorrect == IndexSpec => []IndexTypeOK
<1>1. IndexSpec => []IInv /\ []TypeOK
  BY IndexImplementsExports, Invariance, TypeCorrect, PTL
<1>2. IndexSpec => []IndexTypes
  BY <1>1, InitTypes, TypesStep, PTL DEF IndexSpec
<1>3. TypeOK /\ IndexTypes => IndexTypeOK
  BY DEF IndexTypeOK, IndexTypes, BuildTypes, PackTypes, VectorType
<1> QED
  BY <1>1, <1>2, <1>3, PTL

-----------------------------------------------------------------------------
(* Nothing is lost *)

(* Parts that follow each other without a gap. *)
Run(units) ==
    /\ units \in Seq(Part) /\ units # <<>> /\ Consecutive(units)
    /\ \A i \in DOMAIN units : units[i].from <= units[i].to
    /\ \A i, j \in DOMAIN units : i < j => units[i].to < units[j].from

(* The chunks cs as NothingIsLost has them, up to document d. *)
ChunksOk(cs, d) ==
    \A k \in DOMAIN cs :
      /\ Run(cs[k].units) /\ cs[k].doc <= d
      /\ \A j \in 1..(k - 1) : cs[j].doc <= cs[k].doc
      /\ IF k > 1 /\ cs[k - 1].doc = cs[k].doc
         THEN /\ FirstWord(cs[k].units) <= LastWord(cs[k - 1].units) + 1
              /\ LastWord(cs[k - 1].units) < LastWord(cs[k].units)
         ELSE FirstWord(cs[k].units) = 1

(* The chunks of document d go up to the word before w. *)
Reaches(cs, d, w) ==
    IF w = 1 THEN cs = <<>> \/ cs[Len(cs)].doc # d
    ELSE cs # <<>> /\ cs[Len(cs)].doc = d /\ LastWord(cs[Len(cs)].units) + 1 = w

(* Document d has been cut. *)
Whole(cs, d) ==
    IF docs[d].text = <<>> THEN \A k \in DOMAIN cs : cs[k].doc # d
    ELSE \E k \in DOMAIN cs : cs[k].doc = d /\ LastWord(cs[k].units) = Len(docs[d].text)

(* Where packing is. *)
Packing ==
    \/ current = <<>> /\ packed = 0 /\ at = segment.from /\ Reaches(chunks, doc, at)
    \/ /\ Run(current) /\ LastWord(current) + 1 = at /\ fresh > 0
       /\ Reaches(chunks, doc, current[Len(current) - fresh + 1].from)
       /\ packed > 0 => current[Len(current) - fresh + 1].from # 1

WhereInv ==
    /\ phase = "parse" => doc = 1 /\ at = 1 /\ chunks = <<>>
    /\ phase = "segment" => /\ Reaches(chunks, doc, at)
                            /\ doc <= Len(docs) => at <= Len(Text) + 1
    /\ phase \in {"trace", "prose"} => /\ doc <= Len(docs) /\ segment.to <= Len(Text)
                                       /\ segment.from <= segment.to /\ at <= segment.to + 1
    /\ phase = "trace" => Reaches(chunks, doc, at)
    /\ phase = "prose" => Packing
    /\ phase \in {"embed", "ready"} => doc = Len(docs) + 1

CutInv == /\ ChunksOk(chunks, doc) /\ WhereInv
          /\ \A d \in 1..(doc - 1) : Whole(chunks, d)

LEMMA CutIsWhole == IndexTypes /\ CutInv => NothingIsLost
<1> SUFFICES ASSUME IndexTypes, CutInv PROVE NothingIsLost
  OBVIOUS
<1>1. ASSUME NEW k \in DOMAIN chunks
      PROVE  /\ chunks[k].units # <<>> /\ Consecutive(chunks[k].units)
             /\ IF Continues(k)
                THEN /\ FirstWord(chunks[k].units) <= LastWord(chunks[k - 1].units) + 1
                     /\ LastWord(chunks[k - 1].units) < LastWord(chunks[k].units)
                ELSE FirstWord(chunks[k].units) = 1
  BY DEF CutInv, ChunksOk, Run, Continues
<1>2. ASSUME Cut, NEW d \in DOMAIN docs
      PROVE  Whole(chunks, d)
  <2>1. doc = Len(docs) + 1 /\ d \in 1..Len(docs) /\ Len(docs) \in Nat
    BY <1>2 DEF Cut, CutInv, WhereInv, IndexTypes, BuildTypes
  <2> QED
    BY <2>1 DEF CutInv
<1> QED
  BY <1>1, <1>2 DEF NothingIsLost, Whole

LEMMA RunEnds ==
  ASSUME NEW units, Run(units)
  PROVE  /\ Len(units) \in Nat \ {0} /\ DOMAIN units = 1..Len(units)
         /\ \A i \in DOMAIN units : units[i] \in Part
         /\ FirstWord(units) \in Nat \ {0} /\ LastWord(units) \in Nat \ {0}
<1>1. Len(units) \in Nat \ {0} /\ DOMAIN units = 1..Len(units)
  BY DEF Run
<1>2. \A i \in DOMAIN units : units[i] \in Part
  BY DEF Run
<1>3. units[1] \in Part /\ units[Len(units)] \in Part
  BY <1>1, <1>2
<1> QED
  BY <1>1, <1>2, <1>3 DEF FirstWord, LastWord, Part

(* A run that begins no later than word w and ends no earlier can be added  *)
(* to chunks that reach w.                                                  *)
LEMMA AddChunk ==
  ASSUME NEW cs \in Seq(Chunk), NEW d \in Nat \ {0}, ChunksOk(cs, d),
         NEW w \in Nat \ {0}, Reaches(cs, d, w),
         NEW c \in Chunk, c.doc = d, Run(c.units),
         FirstWord(c.units) <= w, w <= LastWord(c.units)
  PROVE  /\ ChunksOk(Append(cs, c), d)
         /\ Reaches(Append(cs, c), d, LastWord(c.units) + 1)
<1> DEFINE n == Len(cs)
           ds == Append(cs, c)
<1>1. /\ n \in Nat /\ Len(ds) = n + 1 /\ DOMAIN ds = 1..(n + 1) /\ DOMAIN cs = 1..n
      /\ ds[n + 1] = c /\ \A k \in 1..n : ds[k] = cs[k]
      /\ n = Len(cs) /\ (cs = <<>> <=> n = 0)
  OBVIOUS
<1>2. LastWord(c.units) \in Nat \ {0} /\ FirstWord(c.units) \in Nat \ {0}
  BY RunEnds
<1>3. \A k \in 1..n : cs[k].doc \in Nat
  <2>1. \A k \in 1..n : cs[k] \in Chunk
    BY <1>1
  <2> QED
    BY <2>1 DEF Chunk
<1> HIDE DEF ds, n
<1>4. ASSUME NEW k \in 1..n
      PROVE  /\ Run(ds[k].units) /\ ds[k].doc <= d
             /\ \A j \in 1..(k - 1) : ds[j].doc <= ds[k].doc
             /\ IF k > 1 /\ ds[k - 1].doc = ds[k].doc
                THEN /\ FirstWord(ds[k].units) <= LastWord(ds[k - 1].units) + 1
                     /\ LastWord(ds[k - 1].units) < LastWord(ds[k].units)
                ELSE FirstWord(ds[k].units) = 1
  <2>1. ds[k] = cs[k] /\ \A j \in 1..(k - 1) : ds[j] = cs[j]
    BY <1>1
  <2>2. k > 1 => k - 1 \in 1..(k - 1)
    BY <1>1
  <2> QED
    BY <1>1, <2>1, <2>2 DEF ChunksOk
<1>5. \A j \in 1..n : ds[j].doc <= ds[n + 1].doc
  BY <1>1 DEF ChunksOk
<1>6. IF n + 1 > 1 /\ ds[n].doc = d
      THEN /\ FirstWord(c.units) <= LastWord(ds[n].units) + 1
           /\ LastWord(ds[n].units) < LastWord(c.units)
      ELSE FirstWord(c.units) = 1
  <2>1. CASE n > 0 /\ ds[n].doc = d
    <3>1. cs[n] = ds[n] /\ cs # <<>>
      BY <1>1, <2>1
    <3>2. w = LastWord(ds[n].units) + 1
      <4>1. cs[Len(cs)].doc = d /\ cs[Len(cs)] = ds[n]
        BY <1>1, <2>1, <3>1
      <4> QED
        BY <3>1, <4>1 DEF Reaches
    <3>3. LastWord(ds[n].units) \in Nat
      <4>1. n \in 1..n
        BY <1>1, <2>1
      <4>2. Run(ds[n].units)
        BY <1>4, <4>1
      <4> QED
        BY <4>2, RunEnds
    <3> QED
      BY <1>1, <1>2, <2>1, <3>2, <3>3
  <2>2. CASE ~(n > 0 /\ ds[n].doc = d)
    <3>1. w = 1
      BY <1>1, <2>2 DEF Reaches
    <3> QED
      BY <1>1, <1>2, <2>2, <3>1
  <2> QED
    BY <2>1, <2>2
<1>7. ChunksOk(ds, d)
  <2> SUFFICES ASSUME NEW k \in 1..(n + 1)
               PROVE  /\ Run(ds[k].units) /\ ds[k].doc <= d
                      /\ \A j \in 1..(k - 1) : ds[j].doc <= ds[k].doc
                      /\ IF k > 1 /\ ds[k - 1].doc = ds[k].doc
                         THEN /\ FirstWord(ds[k].units) <= LastWord(ds[k - 1].units) + 1
                              /\ LastWord(ds[k - 1].units) < LastWord(ds[k].units)
                         ELSE FirstWord(ds[k].units) = 1
    BY <1>1 DEF ChunksOk
  <2>1. CASE k \in 1..n
    BY <1>4, <2>1
  <2>2. CASE k = n + 1
    BY <1>1, <1>5, <1>6, <2>2
  <2> QED
    BY <1>1, <2>1, <2>2
<1>8. Reaches(ds, d, LastWord(c.units) + 1)
  BY <1>1, <1>2 DEF Reaches
<1> QED
  BY <1>7, <1>8 DEF ds

(* The units of a run are in its bounds. *)
LEMMA RunBounds ==
  ASSUME NEW s, Run(s), NEW i \in DOMAIN s
  PROVE  /\ FirstWord(s) <= s[i].from /\ s[i].to <= LastWord(s)
         /\ i # 1 => FirstWord(s) < s[i].from
         /\ s[i].from \in Nat \ {0} /\ s[i].to \in Nat \ {0} /\ s[i].from <= s[i].to
<1>1. /\ Len(s) \in Nat \ {0} /\ DOMAIN s = 1..Len(s)
      /\ s[i] \in Part /\ s[1] \in Part /\ s[Len(s)] \in Part
  BY RunEnds
<1>2. /\ s[i].from <= s[i].to /\ s[1].from <= s[1].to
      /\ 1 < i => s[1].to < s[i].from
      /\ i < Len(s) => s[i].to < s[Len(s)].from
      /\ s[Len(s)].from <= s[Len(s)].to
  BY <1>1 DEF Run
<1> QED
  BY <1>1, <1>2 DEF FirstWord, LastWord, Part

(* One part is a run, and so are runs put together end to end. *)
LEMMA RunOfOne ==
  ASSUME NEW p \in Part, p.from <= p.to
  PROVE  Run(<<p>>) /\ FirstWord(<<p>>) = p.from /\ LastWord(<<p>>) = p.to
BY DEF Run, Consecutive, FirstWord, LastWord

LEMMA ConcatRun ==
  ASSUME NEW s, Run(s), NEW t, Run(t), FirstWord(t) = LastWord(s) + 1
  PROVE  /\ Run(s \o t)
         /\ FirstWord(s \o t) = FirstWord(s) /\ LastWord(s \o t) = LastWord(t)
<1> DEFINE m == Len(s)
           n == Len(t)
           st == s \o t
<1>1. /\ m \in Nat \ {0} /\ n \in Nat \ {0} /\ DOMAIN s = 1..m /\ DOMAIN t = 1..n
      /\ s \in Seq(Part) /\ t \in Seq(Part)
  BY RunEnds DEF Run
<1>2. /\ st \in Seq(Part) /\ Len(st) = m + n /\ DOMAIN st = 1..(m + n) /\ st # <<>>
      /\ \A i \in 1..m : st[i] = s[i]
      /\ \A i \in (m + 1)..(m + n) : st[i] = t[i - m] /\ i - m \in 1..n
  BY <1>1
<1>3. /\ \A i \in 1..m : /\ s[i].from \in Nat /\ s[i].to \in Nat /\ s[i].from <= s[i].to
                         /\ s[i].to <= LastWord(s)
      /\ \A i \in 1..n : /\ t[i].from \in Nat /\ t[i].to \in Nat /\ t[i].from <= t[i].to
                         /\ FirstWord(t) <= t[i].from
      /\ LastWord(s) \in Nat
  BY <1>1, RunBounds, RunEnds
<1> HIDE DEF st, m, n
<1>4. \A i \in 1..(m + n) : st[i].from <= st[i].to
  BY <1>1, <1>2, <1>3
<1>5. ASSUME NEW i \in 1..(m + n), NEW j \in 1..(m + n), i < j PROVE st[i].to < st[j].from
  <2>1. CASE j <= m
    <3>1. i \in 1..m /\ j \in 1..m /\ st[i] = s[i] /\ st[j] = s[j]
      BY <1>1, <1>2, <1>5, <2>1
    <3> QED
      BY <1>1, <1>5, <3>1 DEF Run
  <2>2. CASE i > m
    <3>1. /\ i - m \in 1..n /\ j - m \in 1..n /\ i - m < j - m
          /\ st[i] = t[i - m] /\ st[j] = t[j - m]
      BY <1>1, <1>2, <1>5, <2>2
    <3> QED
      BY <1>1, <3>1 DEF Run
  <2>3. CASE i <= m /\ j > m
    <3>1. i \in 1..m /\ st[i] = s[i] /\ j - m \in 1..n /\ st[j] = t[j - m]
      BY <1>1, <1>2, <2>3
    <3>2. s[i].to <= LastWord(s) /\ LastWord(s) + 1 <= t[j - m].from
      BY <1>3, <3>1
    <3> QED
      BY <1>3, <3>1, <3>2
  <2> QED
    BY <1>1, <2>1, <2>2, <2>3
<1>6. ASSUME NEW i \in 1..(m + n - 1) PROVE st[i + 1].from = st[i].to + 1
  <2>1. CASE i < m
    <3>1. i \in 1..(m - 1) /\ st[i] = s[i] /\ st[i + 1] = s[i + 1]
      BY <1>1, <1>2, <2>1
    <3> QED
      BY <3>1 DEF Run, Consecutive, m
  <2>2. CASE i = m
    <3>1. st[i] = s[m] /\ st[i + 1] = t[1]
      BY <1>1, <1>2, <2>2
    <3> QED
      BY <3>1 DEF FirstWord, LastWord, m
  <2>3. CASE i > m
    <3>1. /\ i - m \in 1..(n - 1) /\ st[i] = t[i - m] /\ st[i + 1] = t[(i - m) + 1]
      BY <1>1, <1>2, <2>3
    <3> QED
      BY <3>1 DEF Run, Consecutive, n
  <2> QED
    BY <1>1, <2>1, <2>2, <2>3
<1>7. Run(st)
  <2>1. Consecutive(st)
    <3>1. Len(st) = m + n
      BY <1>2
    <3>2. \A i \in 1..(m + n - 1) : st[i + 1].from = st[i].to + 1
      BY <1>6
    <3> QED
      BY <1>1, <3>1, <3>2 DEF Consecutive
  <2>2. \A i, j \in DOMAIN st : i < j => st[i].to < st[j].from
    BY <1>2, <1>5
  <2> QED
    BY <1>2, <1>4, <2>1, <2>2 DEF Run
<1>8. FirstWord(st) = FirstWord(s) /\ LastWord(st) = LastWord(t)
  <2>1. st[1] = s[1] /\ st[m + n] = t[n]
    BY <1>1, <1>2
  <2> QED
    BY <1>2, <2>1 DEF FirstWord, LastWord, n
<1> QED
  BY <1>7, <1>8 DEF st

(* The end of a run is a run. *)
LEMMA SuffixRun ==
  ASSUME NEW s, Run(s), NEW n \in 1..Len(s)
  PROVE  /\ Run(Suffix(s, n)) /\ LastWord(Suffix(s, n)) = LastWord(s)
         /\ FirstWord(Suffix(s, n)) = s[Len(s) - n + 1].from
<1> DEFINE t == Suffix(s, n)
           m == Len(s)
<1>1. /\ s \in Seq(Part) /\ m \in Nat \ {0} /\ DOMAIN s = 1..m
  BY RunEnds DEF Run
<1>2. /\ t \in Seq(Part) /\ Len(t) = n /\ DOMAIN t = 1..n /\ t # <<>>
      /\ \A i \in 1..n : t[i] = s[i + m - n] /\ i + m - n \in 1..m
  BY <1>1, SuffixType
<1> HIDE DEF t, m
<1>3. \A i \in 1..n : t[i].from <= t[i].to
  BY <1>1, <1>2 DEF Run
<1>4. ASSUME NEW i \in 1..n, NEW j \in 1..n, i < j PROVE t[i].to < t[j].from
  <2>1. i + m - n < j + m - n
    BY <1>1, <1>4
  <2> QED
    BY <1>1, <1>2, <2>1 DEF Run
<1>5. ASSUME NEW i \in 1..(n - 1) PROVE t[i + 1].from = t[i].to + 1
  <2>1. /\ t[i] = s[i + m - n] /\ t[i + 1] = s[(i + m - n) + 1]
        /\ i + m - n \in 1..(m - 1)
    BY <1>1, <1>2
  <2> QED
    BY <2>1 DEF Run, Consecutive, m
<1>6. Run(t)
  BY <1>2, <1>3, <1>4, <1>5 DEF Run, Consecutive
<1>7. t[1] = s[m - n + 1] /\ t[n] = s[m]
  BY <1>1, <1>2
<1>8. LastWord(t) = LastWord(s) /\ FirstWord(t) = s[m - n + 1].from
  BY <1>2, <1>7 DEF FirstWord, LastWord, m
<1> QED
  BY <1>6, <1>8 DEF t, m

(* The last chunk may go on. *)
LEMMA LongerChunk ==
  ASSUME NEW cs \in Seq(Chunk), NEW d \in Nat \ {0}, ChunksOk(cs, d),
         cs # <<>>, cs[Len(cs)].doc = d,
         NEW t, Run(t), FirstWord(t) = LastWord(cs[Len(cs)].units) + 1
  PROVE  LET ds == [cs EXCEPT ![Len(cs)].units = @ \o t]
         IN  ChunksOk(ds, d) /\ Reaches(ds, d, LastWord(t) + 1)
<1> DEFINE n == Len(cs)
           ds == [cs EXCEPT ![n].units = @ \o t]
<1>1. /\ n \in Nat \ {0} /\ DOMAIN cs = 1..n /\ DOMAIN ds = 1..n /\ Len(ds) = n
      /\ cs[n] \in Chunk
      /\ \A k \in 1..(n - 1) : ds[k] = cs[k]
      /\ ds # <<>>
  OBVIOUS
<1>2. ds[n].units = cs[n].units \o t /\ ds[n].doc = d
  BY <1>1 DEF Chunk
<1>3. Run(cs[n].units)
  BY <1>1 DEF ChunksOk
<1>4. /\ Run(ds[n].units) /\ FirstWord(ds[n].units) = FirstWord(cs[n].units)
      /\ LastWord(ds[n].units) = LastWord(t)
  BY <1>2, <1>3, ConcatRun
<1>5. /\ LastWord(t) \in Nat \ {0} /\ FirstWord(t) \in Nat /\ FirstWord(t) <= LastWord(t)
      /\ LastWord(cs[n].units) \in Nat
  <2>1. 1 \in DOMAIN t
    BY RunEnds
  <2> QED
    BY <1>3, <2>1, RunEnds, RunBounds
<1>6. \A k \in 1..n : ds[k].doc = cs[k].doc /\ Run(cs[k].units)
  BY <1>1, <1>2 DEF ChunksOk
<1> HIDE DEF ds, n
<1>7. ASSUME NEW k \in 1..n
      PROVE  /\ Run(ds[k].units) /\ ds[k].doc <= d
             /\ \A j \in 1..(k - 1) : ds[j].doc <= ds[k].doc
             /\ IF k > 1 /\ ds[k - 1].doc = ds[k].doc
                THEN /\ FirstWord(ds[k].units) <= LastWord(ds[k - 1].units) + 1
                     /\ LastWord(ds[k - 1].units) < LastWord(ds[k].units)
                ELSE FirstWord(ds[k].units) = 1
  <2>1. /\ Run(cs[k].units) /\ cs[k].doc <= d
        /\ \A j \in 1..(k - 1) : cs[j].doc <= cs[k].doc
        /\ IF k > 1 /\ cs[k - 1].doc = cs[k].doc
           THEN /\ FirstWord(cs[k].units) <= LastWord(cs[k - 1].units) + 1
                /\ LastWord(cs[k - 1].units) < LastWord(cs[k].units)
           ELSE FirstWord(cs[k].units) = 1
    BY <1>1 DEF ChunksOk
  <2>2. \A j \in 1..(k - 1) : j \in 1..n
    BY <1>1
  <2>3. k > 1 => k - 1 \in 1..(n - 1) /\ ds[k - 1] = cs[k - 1]
    BY <1>1
  <2>4. CASE k = n
    <3>1. ASSUME k > 1 PROVE LastWord(cs[k - 1].units) \in Nat
      <4>1. Run(cs[k - 1].units)
        BY <1>1, <1>6, <2>3, <3>1
      <4> QED
        BY <4>1, RunEnds
    <3> QED
      BY <1>1, <1>4, <1>5, <1>6, <2>1, <2>2, <2>3, <2>4, <3>1 DEF n
  <2>5. CASE k # n
    BY <1>1, <1>6, <2>1, <2>2, <2>3, <2>5
  <2> QED
    BY <2>4, <2>5
<1>8. ChunksOk(ds, d)
  BY <1>1, <1>7 DEF ChunksOk
<1>9. Reaches(ds, d, LastWord(t) + 1)
  BY <1>1, <1>2, <1>4, <1>5 DEF Reaches
<1> QED
  BY <1>8, <1>9 DEF ds, n

(* Neither disturbs the documents before. *)
LEMMA StaysWhole ==
  ASSUME NEW cs \in Seq(Chunk), NEW d \in Nat, NEW e \in Nat, e < d, Whole(cs, e)
  PROVE  /\ \A c \in Chunk : c.doc = d => Whole(Append(cs, c), e)
         /\ \A t : cs # <<>> /\ cs[Len(cs)].doc = d
                    => Whole([cs EXCEPT ![Len(cs)].units = @ \o t], e)
<1>1. ASSUME NEW c \in Chunk, c.doc = d PROVE Whole(Append(cs, c), e)
  <2>1. /\ DOMAIN Append(cs, c) = 1..(Len(cs) + 1) /\ Append(cs, c)[Len(cs) + 1] = c
        /\ \A k \in DOMAIN cs : k \in DOMAIN Append(cs, c) /\ Append(cs, c)[k] = cs[k]
        /\ \A k \in 1..(Len(cs) + 1) : k \in DOMAIN cs \/ k = Len(cs) + 1
    OBVIOUS
  <2> QED
    BY <1>1, <2>1 DEF Whole
<1>2. ASSUME NEW t, cs # <<>>, cs[Len(cs)].doc = d
      PROVE  Whole([cs EXCEPT ![Len(cs)].units = @ \o t], e)
  <2> DEFINE ds == [cs EXCEPT ![Len(cs)].units = @ \o t]
  <2>1. /\ DOMAIN ds = DOMAIN cs /\ Len(cs) \in DOMAIN cs
        /\ \A k \in DOMAIN cs : k # Len(cs) => ds[k] = cs[k]
        /\ cs[Len(cs)] \in Chunk
    BY <1>2
  <2>2. ds[Len(cs)].doc = d
    BY <1>2, <2>1 DEF Chunk
  <2> HIDE DEF ds
  <2>3. Whole(ds, e)
    BY <1>2, <2>1, <2>2 DEF Whole
  <2> QED
    BY <2>3 DEF ds
<1> QED
  BY <1>1, <1>2

LEMMA InitCut == IndexInit => CutInv
BY DEF IndexInit, CutInv, ChunksOk, WhereInv

LEMMA DocTypes ==
  ASSUME IndexTypes
  PROVE  /\ doc \in Nat \ {0} /\ Len(docs) \in Nat /\ chunks \in Seq(Chunk)
         /\ at \in Nat \ {0} /\ segment \in Part /\ current \in Seq(Part)
         /\ doc <= Len(docs) => Text \in Seq(Word) /\ Len(Text) \in Nat
<1>1. /\ doc \in Nat \ {0} /\ Len(docs) \in Nat /\ docs \in Seq(Document)
      /\ chunks \in Seq(Chunk)
  BY DEF IndexTypes, BuildTypes, PackTypes
<1>2. at \in Nat \ {0} /\ segment \in Part /\ current \in Seq(Part)
  BY DEF IndexTypes, PackTypes
<1>3. ASSUME doc <= Len(docs) PROVE Text \in Seq(Word)
  <2>1. docs[doc] \in Document
    BY <1>1, <1>3
  <2> QED
    BY <2>1 DEF Document, Text
<1> QED
  BY <1>1, <1>2, <1>3

(* What Chunked adds. *)
LEMMA ChunkedRun ==
  ASSUME IndexTypes, CutInv, NEW kind \in {"text", "trace"}, NEW units, Run(units),
         NEW w \in Nat \ {0}, Reaches(chunks, doc, w),
         FirstWord(units) <= w, w <= LastWord(units)
  PROVE  /\ ChunksOk(Chunked(kind, units), doc)
         /\ Reaches(Chunked(kind, units), doc, LastWord(units) + 1)
         /\ \A d \in 1..(doc - 1) : Whole(Chunked(kind, units), d)
<1> DEFINE c == [id |-> Len(chunks) + 1, doc |-> doc, kind |-> kind, units |-> units]
<1>1. chunks \in Seq(Chunk) /\ doc \in Nat \ {0}
  BY DocTypes
<1>2. c \in Chunk /\ c.doc = doc /\ c.units = units
  BY <1>1 DEF Chunk, Run
<1>3. Chunked(kind, units) = Append(chunks, c)
  BY DEF Chunked
<1> HIDE DEF c
<1>4. ChunksOk(chunks, doc)
  BY DEF CutInv
<1>5. /\ ChunksOk(Append(chunks, c), doc)
      /\ Reaches(Append(chunks, c), doc, LastWord(units) + 1)
  BY <1>1, <1>2, <1>4, AddChunk
<1>6. ASSUME NEW d \in 1..(doc - 1) PROVE Whole(Append(chunks, c), d)
  BY <1>1, <1>2, <1>6, StaysWhole DEF CutInv
<1> QED
  BY <1>3, <1>5, <1>6

(* What is new in the current chunk begins within it. *)
LEMMA FreshWord ==
  ASSUME IndexTypes, Packing, current # <<>>
  PROVE  LET w == current[Len(current) - fresh + 1].from
         IN  /\ Run(current) /\ LastWord(current) + 1 = at
             /\ w \in Nat \ {0} /\ FirstWord(current) <= w /\ w <= LastWord(current)
             /\ Reaches(chunks, doc, w) /\ fresh \in 1..Len(current)
             /\ packed > 0 => w # 1
<1>1. Run(current) /\ LastWord(current) + 1 = at /\ fresh > 0
  BY DEF Packing
<1>2. fresh \in 0..Len(current)
  BY DEF IndexTypes, PackTypes
<1>3. Len(current) - fresh + 1 \in DOMAIN current /\ fresh \in 1..Len(current)
  BY <1>1, <1>2, RunEnds
<1>4. LastWord(current) \in Nat
  BY <1>1, RunEnds
<1> DEFINE i == Len(current) - fresh + 1
<1>5. i \in DOMAIN current
  BY <1>3
<1>6. /\ Reaches(chunks, doc, current[i].from)
      /\ packed > 0 => current[i].from # 1
  BY DEF Packing
<1> HIDE DEF i
<1>7. /\ FirstWord(current) <= current[i].from /\ current[i].to <= LastWord(current)
      /\ current[i].from \in Nat \ {0} /\ current[i].to \in Nat
      /\ current[i].from <= current[i].to
  BY <1>1, <1>5, RunBounds
<1>8. current[i].from <= LastWord(current)
  BY <1>4, <1>7
<1> QED
  BY <1>1, <1>3, <1>6, <1>7, <1>8 DEF i

LEMMA PackCut ==
  ASSUME IndexTypes, IndexTypes', CutInv, Pack
  PROVE  CutInv'
<1>1. PICK u \in [from : {at}, to : at .. segment.to] :
        at' = u.to + 1 /\ (PackMore(u) \/ PackFull(u))
  BY PackCases
<1>2. /\ u \in Part /\ u.from = at /\ u.from <= u.to /\ u.to <= segment.to
      /\ Run(<<u>>) /\ FirstWord(<<u>>) = at /\ LastWord(<<u>>) = u.to
      /\ u.to \in Nat
  <2>1. u \in Part /\ u.from = at /\ u.from <= u.to /\ u.to <= segment.to
    BY NextPart DEF IndexTypes
  <2> QED
    BY <2>1, RunOfOne DEF Part
<1>3. /\ phase = "prose" /\ phase' = "prose" /\ doc' = doc /\ docs' = docs /\ Text' = Text
      /\ segment' = segment
  BY DEF Pack, Text
<1>4. /\ Packing /\ doc <= Len(docs) /\ segment.to <= Len(Text)
      /\ segment.from <= segment.to
      /\ ChunksOk(chunks, doc) /\ \A d \in 1..(doc - 1) : Whole(chunks, d)
  BY <1>3 DEF CutInv, WhereInv
<1>5. u.to + 1 <= segment.to + 1
  BY <1>2, DocTypes DEF Part
<1>6. CASE PackMore(u)
  <2>1. UNCHANGED <<chunks, packed>> /\ current' = Append(current, u) /\ fresh' = fresh + 1
    BY <1>6 DEF PackMore
  <2>2. Packing'
    <3>1. CASE current = <<>>
      <4>1. packed = 0 /\ Reaches(chunks, doc, at) /\ fresh = 0
        BY <1>4, <3>1 DEF Packing, Run, IndexTypes, PackTypes
      <4>2. current' = <<u>> /\ fresh' = 1 /\ Len(current') = 1 /\ current'[1].from = at
        BY <1>2, <2>1, <3>1, <4>1
      <4> QED
        BY <1>1, <1>2, <1>3, <2>1, <4>1, <4>2 DEF Packing
    <3>2. CASE current # <<>>
      <4> DEFINE m == Len(current)
      <4>1. /\ Run(current) /\ LastWord(current) + 1 = at
            /\ fresh \in 1..m /\ m \in Nat /\ DOMAIN current = 1..m
            /\ Reaches(chunks, doc, current[m - fresh + 1].from)
            /\ packed > 0 => current[m - fresh + 1].from # 1
        BY <1>4, <3>2, FreshWord, RunEnds
      <4>2. Append(current, u) = current \o <<u>> /\ Len(Append(current, u)) = m + 1
        BY <1>2, DocTypes
      <4>3. Run(current') /\ LastWord(current') = u.to
        BY <1>2, <2>1, <4>1, <4>2, ConcatRun
      <4>4. current'[Len(current') - fresh' + 1] = current[m - fresh + 1]
        BY <2>1, <4>1, <4>2, DocTypes
      <4>5. fresh' > 0
        BY <2>1, <4>1
      <4> HIDE DEF m
      <4> QED
        BY <1>1, <1>3, <2>1, <4>1, <4>3, <4>4, <4>5 DEF Packing
    <3> QED
      BY <3>1, <3>2
  <2> QED
    <3>1. WhereInv'
      BY <1>1, <1>3, <1>4, <1>5, <2>2 DEF WhereInv
    <3>2. ChunksOk(chunks', doc') /\ \A d \in 1..(doc' - 1) : Whole(chunks, d)
      BY <1>3, <1>4, <2>1
    <3>3. \A d : Whole(chunks, d)' <=> Whole(chunks, d)
      BY <1>3, <2>1 DEF Whole
    <3> QED
      BY <3>1, <3>2, <3>3 DEF CutInv
<1>7. CASE PackFull(u)
  <2>1. /\ current # <<>> /\ chunks' = Chunked("text", current)
        /\ current' = Append(Overlap(u), u) /\ fresh' = 1
    BY <1>7 DEF PackFull
  <2>2. PICK w \in Nat \ {0} :
          /\ Run(current) /\ LastWord(current) + 1 = at
          /\ FirstWord(current) <= w /\ w <= LastWord(current)
          /\ Reaches(chunks, doc, w)
    BY <1>4, <2>1, FreshWord
  <2>3. /\ ChunksOk(chunks', doc) /\ Reaches(chunks', doc, at)
        /\ \A d \in 1..(doc - 1) : Whole(chunks', d)
    BY <2>1, <2>2, ChunkedRun
  <2>4. at # 1 /\ LastWord(current) \in Nat \ {0}
    BY <2>2, RunEnds
  <2>5. Run(current') /\ LastWord(current') = u.to
    <3>1. PICK n \in 0..Len(current) : Overlap(u) = Suffix(current, n)
      BY OverlapIsSuffix, DocTypes
    <3>2. CASE n = 0
      <4>1. Overlap(u) = <<>>
        BY <3>1, <3>2, SuffixType, DocTypes
      <4> QED
        BY <1>2, <2>1, <4>1
    <3>3. CASE n # 0
      <4>1. n \in 1..Len(current)
        BY <3>3, DocTypes
      <4>2. Run(Overlap(u)) /\ LastWord(Overlap(u)) = LastWord(current)
        BY <2>2, <3>1, <4>1, SuffixRun
      <4>3. Overlap(u) \in Seq(Part)
        BY <4>2 DEF Run
      <4>4. current' = Overlap(u) \o <<u>>
        BY <1>2, <2>1, <4>3
      <4>5. FirstWord(<<u>>) = LastWord(Overlap(u)) + 1
        BY <1>2, <2>2, <4>2
      <4> QED
        BY <1>2, <4>2, <4>4, <4>5, ConcatRun
    <3> QED
      BY <3>2, <3>3
  <2>6. current'[Len(current') - fresh' + 1].from = at
    <3>1. Overlap(u) \in Seq(Part)
      BY OverlapIsSuffix, SuffixType, DocTypes
    <3>2. Len(current') = Len(Overlap(u)) + 1 /\ current'[Len(current')] = u
          /\ Len(Overlap(u)) \in Nat
      BY <1>2, <2>1, <3>1
    <3> QED
      BY <1>2, <2>1, <3>2
  <2>7. Packing'
    BY <1>1, <1>3, <2>1, <2>3, <2>4, <2>5, <2>6 DEF Packing
  <2> QED
    <3>1. WhereInv'
      BY <1>1, <1>3, <1>4, <1>5, <2>7 DEF WhereInv
    <3>2. ChunksOk(chunks', doc') /\ \A d \in 1..(doc' - 1) : Whole(chunks', d)
      BY <1>3, <2>3
    <3>3. \A d : Whole(chunks', d) => Whole(chunks, d)'
      BY <1>3 DEF Whole
    <3> QED
      BY <3>1, <3>2, <3>3 DEF CutInv
<1> QED
  BY <1>1, <1>6, <1>7

LEMMA EndProseCut ==
  ASSUME IndexTypes, IndexTypes', CutInv, EndProse
  PROVE  CutInv'
<1> DEFINE tail == Suffix(current, fresh)
           w == current[Len(current) - fresh + 1].from
           joined == [chunks EXCEPT ![Len(chunks)].units = @ \o tail]
<1>1. /\ phase = "prose" /\ phase' = "segment" /\ at > segment.to /\ doc' = doc
      /\ docs' = docs /\ Text' = Text /\ at' = at
      /\ chunks' = IF packed > 0 /\ JoinedLength(Text, tail) < MinTail THEN joined
                   ELSE Chunked("text", current)
  BY DEF EndProse, pack_vars, Text
<1>2. /\ Packing /\ doc <= Len(docs) /\ segment.to <= Len(Text)
      /\ segment.from <= segment.to /\ at <= segment.to + 1
      /\ ChunksOk(chunks, doc) /\ \A d \in 1..(doc - 1) : Whole(chunks, d)
  BY <1>1 DEF CutInv, WhereInv
<1>3. at <= Len(Text) + 1
  BY <1>2, DocTypes DEF Part
<1>4. current # <<>>
  <2>1. at # segment.from
    BY <1>1, <1>2, DocTypes DEF Part
  <2> QED
    BY <1>2, <2>1 DEF Packing, Run
<1>5. /\ Run(current) /\ LastWord(current) + 1 = at
      /\ w \in Nat \ {0} /\ FirstWord(current) <= w /\ w <= LastWord(current)
      /\ Reaches(chunks, doc, w) /\ fresh \in 1..Len(current) /\ (packed > 0 => w # 1)
  BY <1>2, <1>4, FreshWord
<1>6. Run(tail) /\ LastWord(tail) = LastWord(current) /\ FirstWord(tail) = w
  BY <1>5, SuffixRun
<1> HIDE DEF tail, w
<1>7. /\ ChunksOk(chunks', doc) /\ Reaches(chunks', doc, at)
      /\ \A d \in 1..(doc - 1) : Whole(chunks', d)
  <2>1. CASE chunks' = Chunked("text", current)
    BY <1>5, <2>1, ChunkedRun
  <2>2. CASE packed > 0 /\ chunks' = joined
    <3>1. /\ chunks # <<>> /\ chunks[Len(chunks)].doc = doc
          /\ LastWord(chunks[Len(chunks)].units) + 1 = w
      BY <1>5, <2>2 DEF Reaches
    <3>2. ChunksOk(joined, doc) /\ Reaches(joined, doc, LastWord(tail) + 1)
      <4>1. chunks \in Seq(Chunk) /\ doc \in Nat \ {0} /\ ChunksOk(chunks, doc)
        BY <1>2, DocTypes
      <4>2. FirstWord(tail) = LastWord(chunks[Len(chunks)].units) + 1
        BY <1>6, <3>1
      <4> QED
        BY <1>6, <3>1, <4>1, <4>2, LongerChunk
    <3>3. ASSUME NEW d \in 1..(doc - 1) PROVE Whole(joined, d)
      <4>1. chunks \in Seq(Chunk) /\ doc \in Nat /\ d \in Nat /\ d < doc /\ Whole(chunks, d)
        BY <1>2, DocTypes
      <4> QED
        BY <3>1, <4>1, StaysWhole
    <3> QED
      BY <1>5, <1>6, <2>2, <3>2, <3>3
  <2> QED
    BY <1>1, <2>1, <2>2
<1>8. WhereInv'
  BY <1>1, <1>3, <1>7 DEF WhereInv
<1>9. \A d : Whole(chunks', d) => Whole(chunks, d)'
  BY <1>1 DEF Whole
<1> QED
  BY <1>1, <1>7, <1>8, <1>9 DEF CutInv

LEMMA CutTraceCut ==
  ASSUME IndexTypes, IndexTypes', CutInv, CutTrace
  PROVE  CutInv'
<1>1. PICK p \in [from : {at}, to : at .. segment.to] :
        chunks' = Chunked("trace", <<p>>) /\ at' = p.to + 1
  BY DEF CutTrace
<1>2. /\ p \in Part /\ p.from = at /\ p.from <= p.to /\ p.to <= segment.to
      /\ Run(<<p>>) /\ FirstWord(<<p>>) = at /\ LastWord(<<p>>) = p.to
  <2>1. p \in Part /\ p.from = at /\ p.from <= p.to /\ p.to <= segment.to
    BY NextPart DEF IndexTypes
  <2> QED
    BY <2>1, RunOfOne
<1>3. /\ phase = "trace" /\ phase' = "trace" /\ doc' = doc /\ docs' = docs /\ Text' = Text
      /\ segment' = segment
  BY DEF CutTrace, Text, pack_vars
<1>4. /\ Reaches(chunks, doc, at) /\ doc <= Len(docs) /\ segment.to <= Len(Text)
      /\ segment.from <= segment.to
  BY <1>3 DEF CutInv, WhereInv
<1>5. p.to + 1 <= segment.to + 1
  BY <1>2, DocTypes DEF Part
<1>6. /\ ChunksOk(chunks', doc) /\ Reaches(chunks', doc, at')
      /\ \A d \in 1..(doc - 1) : Whole(chunks', d)
  BY SMTT(30), <1>1, <1>2, <1>4, ChunkedRun, DocTypes
<1>7. WhereInv'
  BY <1>1, <1>3, <1>4, <1>5, <1>6 DEF WhereInv
<1>8. \A d : Whole(chunks', d) => Whole(chunks, d)'
  BY <1>3 DEF Whole
<1> QED
  BY <1>3, <1>6, <1>7, <1>8 DEF CutInv

LEMMA NextDocumentCut ==
  ASSUME IndexTypes, IndexTypes', CutInv, NextDocument
  PROVE  CutInv'
<1>1. /\ phase = "segment" /\ phase' = "segment" /\ doc <= Len(docs) /\ at > Len(Text)
      /\ doc' = doc + 1 /\ at' = 1 /\ UNCHANGED <<docs, chunks>>
  BY DEF NextDocument
<1>2. /\ Reaches(chunks, doc, at) /\ at <= Len(Text) + 1
      /\ ChunksOk(chunks, doc) /\ \A d \in 1..(doc - 1) : Whole(chunks, d)
  BY <1>1 DEF CutInv, WhereInv
<1>3. doc \in Nat \ {0} /\ chunks \in Seq(Chunk) /\ Len(Text) \in Nat /\ at = Len(Text) + 1
      /\ Text \in Seq(Word)
  BY <1>1, <1>2, DocTypes
<1>4. \A k \in DOMAIN chunks : chunks[k] \in Chunk /\ chunks[k].doc \in Nat
                               /\ chunks[k].doc <= doc
  <2>1. \A k \in DOMAIN chunks : chunks[k] \in Chunk
    BY <1>3
  <2> QED
    BY <1>2, <2>1 DEF Chunk, ChunksOk
<1>5. ChunksOk(chunks, doc + 1)
  <2>1. \A k \in DOMAIN chunks : chunks[k].doc <= doc + 1
    BY <1>3, <1>4
  <2> QED
    BY <1>2, <2>1 DEF ChunksOk
<1>6. Reaches(chunks, doc + 1, 1)
  BY <1>3, <1>4 DEF Reaches
<1>7. Whole(chunks, doc)
  <2>1. CASE Text = <<>>
    <3>1. chunks = <<>> \/ chunks[Len(chunks)].doc # doc
      BY <1>2, <1>3, <2>1 DEF Reaches
    <3>2. ASSUME NEW k \in DOMAIN chunks PROVE chunks[k].doc # doc
      <4>1. Len(chunks) \in DOMAIN chunks /\ (k = Len(chunks) \/ k \in 1..(Len(chunks) - 1))
        BY <1>3
      <4>2. chunks[Len(chunks)].doc # doc
        BY <1>3, <3>1
      <4>3. k \in 1..(Len(chunks) - 1) => chunks[k].doc <= chunks[Len(chunks)].doc
        BY <1>2, <4>1 DEF ChunksOk
      <4> QED
        BY <1>3, <1>4, <4>1, <4>2, <4>3
    <3> QED
      BY <2>1, <3>2 DEF Whole, Text
  <2>2. CASE Text # <<>>
    <3>1. at # 1
      BY <1>3, <2>2
    <3>2. /\ chunks # <<>> /\ chunks[Len(chunks)].doc = doc
          /\ LastWord(chunks[Len(chunks)].units) + 1 = at
      BY <1>2, <3>1 DEF Reaches
    <3>3. Len(chunks) \in DOMAIN chunks
      BY <1>3, <3>2
    <3>4. LastWord(chunks[Len(chunks)].units) \in Nat
      BY <1>2, <3>3, RunEnds DEF ChunksOk
    <3>5. LastWord(chunks[Len(chunks)].units) = Len(Text)
      BY <1>3, <3>2, <3>4
    <3> QED
      BY <2>2, <3>2, <3>3, <3>5 DEF Whole, Text
  <2> QED
    BY <2>1, <2>2
<1>8. \A d \in 1..doc : Whole(chunks, d)
  BY <1>2, <1>3, <1>7
<1>9. doc' <= Len(docs') => at' <= Len(Text') + 1
  <2>1. doc' <= Len(docs') => Len(Text)' \in Nat
    BY DocTypes
  <2> QED
    BY <1>1, <2>1
<1>10. WhereInv'
  BY <1>1, <1>6, <1>9 DEF WhereInv
<1>11. \A d : Whole(chunks, d) => Whole(chunks, d)'
  BY <1>1 DEF Whole
<1> QED
  BY <1>1, <1>3, <1>5, <1>8, <1>10, <1>11 DEF CutInv

LEMMA CutStep ==
  ASSUME IndexTypes, IndexTypes', CutInv, [IndexNext]_<<vars, index_vars>>
  PROVE  CutInv'
<1>1. CASE UNCHANGED index_vars
  BY <1>1 DEF index_vars, CutInv, WhereInv, Whole, Packing, Text
<1>2. CASE ListDocuments
  <2>1. doc' = 1 /\ at' = 1 /\ chunks' = <<>> /\ phase' = "segment"
    BY <1>2 DEF ListDocuments, CutInv, WhereInv
  <2>2. doc' <= Len(docs') => Len(Text') \in Nat
    BY DocTypes
  <2> QED
    BY <2>1, <2>2 DEF CutInv, WhereInv, ChunksOk, Reaches
<1>3. CASE StartSegment
  <2>1. /\ phase = "segment" /\ phase' \in {"trace", "prose"} /\ doc <= Len(docs)
        /\ segment' \in Runs(Text, TraceWords(Text)) /\ segment'.from = at
        /\ current' = <<>> /\ packed' = 0 /\ UNCHANGED <<docs, doc, at, chunks>>
    BY <1>3 DEF StartSegment
  <2>2. segment'.from <= segment'.to /\ segment'.to \in DOMAIN Text
    BY <2>1 DEF Runs
  <2>3. segment'.to <= Len(Text) /\ at <= segment'.to + 1 /\ Text' = Text
    BY <2>1, <2>2, DocTypes DEF Text
  <2>4. Reaches(chunks, doc, at)
    BY <2>1 DEF CutInv, WhereInv
  <2> QED
    BY <2>1, <2>2, <2>3, <2>4 DEF CutInv, WhereInv, Packing, Whole
<1>4. CASE EndTrace
  <2>1. /\ phase = "trace" /\ phase' = "segment" /\ at > segment.to
        /\ UNCHANGED <<docs, doc, at, chunks>>
    BY <1>4 DEF EndTrace
  <2>2. /\ doc <= Len(docs) /\ segment.to <= Len(Text) /\ at <= segment.to + 1
        /\ Reaches(chunks, doc, at)
    BY <2>1 DEF CutInv, WhereInv
  <2>3. at <= Len(Text) + 1 /\ Text' = Text
    BY <2>1, <2>2, DocTypes DEF Part, Text
  <2> QED
    BY <2>1, <2>2, <2>3 DEF CutInv, WhereInv, Whole
<1>5. CASE ChunksBuilt
  <2>1. doc = Len(docs) + 1
    BY <1>5 DEF ChunksBuilt, IndexTypes, BuildTypes
  <2> QED
    BY <1>5, <2>1 DEF ChunksBuilt, CutInv, WhereInv, Whole
<1>6. CASE Embed \/ EmbedWrongly \/ Embedded
  BY <1>6 DEF Embed, EmbedWrongly, Embedded, CutInv, WhereInv, Whole
<1> QED
  BY <1>1, <1>2, <1>3, <1>4, <1>5, <1>6, PackCut, EndProseCut, CutTraceCut, NextDocumentCut
     DEF IndexNext, Indexing, IndexDone

(* Whatever is repeated, split or joined, the chunks of a document are its  *)
(* text: for any texts, lengths, overlap and bounds.                        *)
THEOREM CuttingLosesNothing == IndexSpec => []NothingIsLost
<1>1. IndexSpec => []IInv /\ []TypeOK
  BY IndexImplementsExports, Invariance, TypeCorrect, PTL
<1>2. IndexInit => IndexTypes /\ CutInv
  BY InitTypes, InitCut
<1>3. /\ IInv /\ TypeOK /\ IndexTypes /\ CutInv /\ [IndexNext]_<<vars, index_vars>>
      => IndexTypes' /\ CutInv'
  BY TypesStep, CutStep
<1> QED
  BY <1>1, <1>2, <1>3, CutIsWhole, PTL DEF IndexSpec

-----------------------------------------------------------------------------
(* Embedding *)

Numbered == \A k \in DOMAIN chunks : chunks[k].id = k

(* Every chunk of prose up to the last that has a vector has one. *)
EmbedInv ==
    /\ Numbered
    /\ phase \in {"parse", "segment", "trace", "prose"} => vectors = <<>>
    /\ \A n \in DOMAIN vectors :
         LET v == vectors[n]
         IN  /\ v.id \in DOMAIN chunks
             /\ chunks[v.id] = [id |-> v.id, doc |-> v.doc, kind |-> "text", units |-> v.units]
             /\ n > 1 => vectors[n - 1].id < v.id
    /\ vectors # <<>> => \A k \in DOMAIN chunks :
         chunks[k].kind = "text" /\ k <= vectors[Len(vectors)].id
         => \E n \in DOMAIN vectors : vectors[n].id = k
    /\ phase = "ready" => Waiting = {}

LEMMA InitEmbed == IndexInit => EmbedInv
BY DEF IndexInit, EmbedInv, Numbered

LEMMA NumberedStep ==
  ASSUME PackTypes, BuildTypes, Numbered, CutTrace \/ Pack \/ EndProse
  PROVE  Numbered'
<1>1. chunks \in Seq(Chunk) /\ Len(chunks) \in Nat
  BY DEF PackTypes
<1>2. ASSUME NEW kind, NEW units, chunks' = Chunked(kind, units) PROVE Numbered'
  <2>1. /\ DOMAIN chunks' = 1..(Len(chunks) + 1)
        /\ chunks'[Len(chunks) + 1].id = Len(chunks) + 1
        /\ \A k \in 1..Len(chunks) : chunks'[k] = chunks[k]
    BY <1>1, <1>2 DEF Chunked
  <2> QED
    BY <1>1, <2>1 DEF Numbered
<1>3. CASE UNCHANGED chunks
  BY <1>3 DEF Numbered
<1>4. ASSUME NEW t, packed > 0, chunks' = [chunks EXCEPT ![Len(chunks)].units = @ \o t]
      PROVE  Numbered'
  <2>1. \A k \in DOMAIN chunks : chunks[k] \in Chunk
    BY <1>1
  <2>2. DOMAIN chunks' = DOMAIN chunks /\ \A k \in DOMAIN chunks : chunks'[k].id = chunks[k].id
    BY <1>4, <2>1 DEF Chunk
  <2> QED
    BY <2>2 DEF Numbered
<1> QED
  BY <1>2, <1>3, <1>4 DEF CutTrace, Pack, EndProse

(* A batch goes on where the last one ended and leaves no chunk out. *)
LEMMA EmbedStep ==
  ASSUME PackTypes, vectors \in Seq(VectorType), EmbedInv, Embed
  PROVE  EmbedInv'
<1>1. PICK ids \in Batches :
        vectors' = vectors \o [k \in DOMAIN ids |-> Vector(ids[k], ids[k])]
  BY DEF Embed
<1>2. PICK n \in 1..BatchSize : ids \in [1..n -> Waiting]
  BY DEF Batches
<1>3. /\ \A i, j \in 1..n : i < j => ids[i] < ids[j]
      /\ \A k \in Waiting : (\E i \in 1..n : ids[i] = k) \/ (\A i \in 1..n : ids[i] < k)
  BY <1>2 DEF Batches
<1>4. n \in Nat \ {0} /\ DOMAIN ids = 1..n
  BY <1>2, IndexAssumption
<1>5. /\ phase = "embed" /\ phase' = "embed" /\ chunks' = chunks
      /\ chunks \in Seq(Chunk)
  BY DEF Embed, PackTypes
<1> DEFINE m == Len(vectors)
<1>6. m \in Nat /\ DOMAIN vectors = 1..m /\ \A i \in 1..m : vectors[i].id \in Nat
  <2>1. \A i \in 1..Len(vectors) : vectors[i] \in VectorType
    OBVIOUS
  <2> QED
    BY <2>1 DEF VectorType
<1>7. /\ Len(vectors') = m + n /\ DOMAIN vectors' = 1..(m + n)
      /\ \A i \in 1..m : vectors'[i] = vectors[i]
      /\ \A i \in (m + 1)..(m + n) : /\ i - m \in 1..n
                                     /\ vectors'[i] = Vector(ids[i - m], ids[i - m])
  <2> DEFINE new == [k \in DOMAIN ids |-> Vector(ids[k], ids[k])]
  <2>1. /\ new \in Seq(VectorType) /\ Len(new) = n
        /\ \A k \in 1..n : new[k] = Vector(ids[k], ids[k])
    BY <1>2, <1>4, WaitingVector
  <2>2. vectors' = vectors \o new
    BY <1>1
  <2> HIDE DEF new, m
  <2>3. /\ Len(vectors \o new) = Len(vectors) + n /\ Len(vectors) \in Nat
        /\ DOMAIN (vectors \o new) = 1..(Len(vectors) + n)
        /\ \A i \in 1..Len(vectors) : (vectors \o new)[i] = vectors[i]
        /\ \A i \in (Len(vectors) + 1)..(Len(vectors) + n) :
             (vectors \o new)[i] = new[i - Len(vectors)]
    <3>1. n \in Nat
      BY <1>4
    <3>2. /\ vectors \o new \in Seq(VectorType)
          /\ Len(vectors \o new) = Len(vectors) + Len(new)
          /\ \A i \in 1..Len(vectors) + Len(new) :
               (vectors \o new)[i] = IF i <= Len(vectors) THEN vectors[i]
                                     ELSE new[i - Len(vectors)]
      BY <2>1, ConcatProperties
    <3> QED
      BY <2>1, <3>1, <3>2
  <2>4. \A i \in (Len(vectors) + 1)..(Len(vectors) + n) : i - Len(vectors) \in 1..n
    BY <1>4, <2>3
  <2>5. \A i \in (Len(vectors) + 1)..(Len(vectors) + n) :
          /\ i - Len(vectors) \in 1..n
          /\ vectors'[i] = Vector(ids[i - Len(vectors)], ids[i - Len(vectors)])
    BY <2>1, <2>2, <2>3, <2>4
  <2> QED
    BY <2>2, <2>3, <2>5 DEF m
<1>8. ASSUME NEW i \in 1..n
      PROVE  /\ ids[i] \in DOMAIN chunks /\ ids[i] \in Nat
             /\ chunks[ids[i]] = [id |-> ids[i], doc |-> chunks[ids[i]].doc, kind |-> "text",
                                 units |-> chunks[ids[i]].units]
             /\ m > 0 => vectors[m].id < ids[i]
  <2>1. ids[i] \in Waiting
    BY <1>2
  <2>2. ids[i] \in DOMAIN chunks /\ ids[i] \in Nat /\ chunks[ids[i]] \in Chunk
    BY <1>5, <2>1 DEF Waiting
  <2>3. chunks[ids[i]].kind = "text" /\ chunks[ids[i]].id = ids[i]
    BY <2>1, <2>2 DEF Waiting, EmbedInv, Numbered
  <2>4. chunks[ids[i]] = [id |-> ids[i], doc |-> chunks[ids[i]].doc, kind |-> "text",
                          units |-> chunks[ids[i]].units]
    BY <2>2, <2>3 DEF Chunk
  <2>5. m > 0 => vectors[m].id < ids[i]
    BY <1>6, <2>1, <2>2 DEF Waiting
  <2> QED
    BY <2>2, <2>4, <2>5
<1> HIDE DEF m
<1>9. ASSUME NEW j \in 1..(m + n)
      PROVE  LET v == vectors'[j]
             IN  /\ v.id \in DOMAIN chunks
                 /\ chunks[v.id] = [id |-> v.id, doc |-> v.doc, kind |-> "text",
                                    units |-> v.units]
                 /\ j > 1 => vectors'[j - 1].id < v.id
  <2>1. CASE j <= m
    <3>1. j \in 1..m /\ vectors'[j] = vectors[j] /\ (j > 1 => vectors'[j - 1] = vectors[j - 1])
      BY <1>6, <1>7, <2>1
    <3> QED
      BY <1>6, <3>1 DEF EmbedInv
  <2>2. CASE j > m
    <3>1. j - m \in 1..n /\ vectors'[j] = Vector(ids[j - m], ids[j - m])
      BY <1>6, <1>7, <2>2
    <3>2. /\ vectors'[j].id = ids[j - m] /\ vectors'[j].doc = chunks[ids[j - m]].doc
          /\ vectors'[j].units = chunks[ids[j - m]].units
      BY <3>1 DEF Vector
    <3>3. ASSUME j > 1 PROVE vectors'[j - 1].id < ids[j - m]
      <4>1. CASE j - 1 = m
        <5>1. j - m = 1 /\ m > 0 /\ m \in 1..m /\ 1 \in 1..n
          BY <1>4, <1>6, <3>3, <4>1
        <5>2. vectors'[j - 1] = vectors[m] /\ vectors[m].id < ids[1]
          BY <1>7, <1>8, <4>1, <5>1
        <5> QED
          BY <5>1, <5>2
      <4>2. CASE j - 1 > m
        <5>1. /\ j - 1 \in (m + 1)..(m + n) /\ (j - 1) - m \in 1..n /\ (j - 1) - m < j - m
          BY <1>4, <1>6, <2>2, <3>1, <4>2
        <5>2. vectors'[j - 1] = Vector(ids[(j - 1) - m], ids[(j - 1) - m])
          BY <1>7, <5>1
        <5> QED
          BY <1>3, <3>1, <5>1, <5>2 DEF Vector
      <4> QED
        BY <1>4, <1>6, <2>2, <4>1, <4>2
    <3> QED
      BY <1>8, <3>1, <3>2, <3>3
  <2> QED
    BY <1>4, <1>6, <2>1, <2>2
<1>10. ASSUME NEW k \in DOMAIN chunks, chunks[k].kind = "text", k <= vectors'[m + n].id
       PROVE  \E j \in 1..(m + n) : vectors'[j].id = k
  <2>1. vectors'[m + n].id = ids[n]
    <3>1. m + n \in (m + 1)..(m + n) /\ (m + n) - m = n
      BY <1>4, <1>6
    <3>2. vectors'[m + n] = Vector(ids[n], ids[n])
      BY <1>7, <3>1
    <3> QED
      BY <3>2 DEF Vector
  <2>2. k \in Nat /\ ids[n] \in Nat
    <3>1. n \in 1..n
      BY <1>4
    <3>2. ids[n] \in Nat
      BY <1>8, <3>1
    <3>3. k \in Nat
      BY <1>5
    <3> QED
      BY <3>2, <3>3
  <2>3. CASE k \in Waiting
    <3>1. PICK i \in 1..n : ids[i] = k
      BY <1>3, <1>4, <1>10, <2>1, <2>2, <2>3
    <3>2. i + m \in (m + 1)..(m + n) /\ (i + m) - m = i
      BY <1>4, <1>6, <3>1
    <3>3. vectors'[i + m].id = k
      <4>1. vectors'[i + m] = Vector(ids[i], ids[i])
        BY <1>7, <3>2
      <4> QED
        BY <3>1, <4>1 DEF Vector
    <3> QED
      BY <1>4, <1>6, <3>2, <3>3
  <2>4. CASE k \notin Waiting
    <3>1. vectors # <<>> /\ k <= vectors[Len(vectors)].id
      BY <1>6, <1>10, <2>2, <2>4 DEF Waiting, m
    <3>2. PICK j \in DOMAIN vectors : vectors[j].id = k
      BY <1>10, <3>1 DEF EmbedInv
    <3> QED
      BY <1>4, <1>6, <1>7, <3>2
  <2> QED
    BY <2>3, <2>4
<1>11. Numbered'
  BY <1>5 DEF EmbedInv, Numbered
<1> QED
  BY <1>5, <1>7, <1>9, <1>10, <1>11 DEF EmbedInv

LEMMA EmbedInvStep ==
  ASSUME IndexTypes, EmbedInv, [IndexNext]_<<vars, index_vars>>
  PROVE  EmbedInv'
<1> USE DEF IndexTypes
<1>1. CASE UNCHANGED index_vars
  BY <1>1 DEF index_vars, EmbedInv, Numbered, Waiting
<1>2. CASE ListDocuments \/ StartSegment \/ NextDocument \/ EndTrace
  BY <1>2 DEF ListDocuments, StartSegment, NextDocument, EndTrace, EmbedInv, Numbered
<1>3. CASE CutTrace \/ Pack \/ EndProse
  <2>1. Numbered'
    BY <1>3, NumberedStep DEF EmbedInv
  <2>2. vectors' = <<>> /\ phase' \in {"trace", "prose", "segment"}
    BY <1>3 DEF CutTrace, Pack, EndProse, EmbedInv
  <2> QED
    BY <2>1, <2>2 DEF EmbedInv
<1>4. CASE ChunksBuilt
  BY <1>4 DEF ChunksBuilt, EmbedInv, Numbered
<1>5. CASE Embed
  BY <1>5, EmbedStep
<1>6. CASE EmbedWrongly \/ Embedded
  BY <1>6 DEF EmbedWrongly, Embedded, EmbedInv, Numbered, Waiting
<1> QED
  BY <1>1, <1>2, <1>3, <1>4, <1>5, <1>6 DEF IndexNext, Indexing, IndexDone

LEMMA AllEmbedded == IndexTypes /\ EmbedInv => EmbeddedOnce
<1> SUFFICES ASSUME IndexTypes, EmbedInv PROVE EmbeddedOnce
  OBVIOUS
<1>1. ASSUME phase = "ready", NEW k \in DOMAIN chunks, chunks[k].kind = "text"
      PROVE  \E n \in DOMAIN vectors : vectors[n].id = k
  <2>1. k \notin Waiting
    BY <1>1 DEF EmbedInv
  <2>2. vectors # <<>> /\ ~(k > vectors[Len(vectors)].id)
    BY <1>1, <2>1 DEF Waiting
  <2>3. k \in Nat /\ vectors[Len(vectors)].id \in Nat
    <3>1. vectors[Len(vectors)] \in VectorType
      BY <2>2 DEF IndexTypes
    <3>2. k \in Nat
      BY DEF IndexTypes, PackTypes
    <3> QED
      BY <3>1, <3>2 DEF VectorType
  <2>4. k <= vectors[Len(vectors)].id
    BY <2>2, <2>3
  <2> QED
    BY <1>1, <2>2, <2>4 DEF EmbedInv
<1> QED
  BY <1>1 DEF EmbedInv, EmbeddedOnce

(* The vectors are those of the chunks of prose, whatever the batches.      *)
THEOREM ProseIsEmbedded == IndexSpec => []EmbeddedOnce
<1>1. IndexSpec => []IInv /\ []TypeOK
  BY IndexImplementsExports, Invariance, TypeCorrect, PTL
<1>2. IndexInit => IndexTypes /\ EmbedInv
  BY InitTypes, InitEmbed
<1>3. /\ IInv /\ TypeOK /\ IndexTypes /\ EmbedInv /\ [IndexNext]_<<vars, index_vars>>
      => IndexTypes' /\ EmbedInv'
  BY TypesStep, EmbedInvStep
<1> QED
  BY <1>1, <1>2, <1>3, AllEmbedded, PTL DEF IndexSpec

-----------------------------------------------------------------------------
(* Logs and prose *)

(* Among the words about one of a row of log tokens as long as a trace, so  *)
(* many are log tokens that it is dense.                                    *)
LEMMA RowIsDense ==
  ASSUME NEW text \in Seq(Word), NEW a \in Nat \ {0}, NEW b \in 1..Len(text),
         b = a + MinTraceTokens - 1, \A j \in a..b : text[j].log, NEW i \in a..b
  PROVE  InTrace(text, i)
<1> DEFINE W == TraceWindow
           window == {j \in DOMAIN text : j <= i + W /\ i <= j + W}
           logs == {j \in window : text[j].log}
           c == IF i - W >= a THEN i - W ELSE a
<1>1. /\ W \in Nat /\ MinTraceTokens \in Nat /\ W < MinTraceTokens
      /\ b \in Nat /\ i \in Nat /\ Len(text) \in Nat /\ DOMAIN text = 1..Len(text)
  BY ChunkingAssumption, WindowAssumption
<1>2. c \in Int /\ c + W \in Int /\ i - W \in Int /\ i + W \in Int
  BY <1>1
<1>3. c .. (c + W) \subseteq logs
  <2> SUFFICES ASSUME NEW j \in c .. (c + W) PROVE j \in logs
    OBVIOUS
  <2>1. j \in a..b /\ j <= i + W /\ i <= j + W
    BY <1>1, <1>2
  <2> QED
    BY <1>1, <2>1
<1>4. window \subseteq (i - W) .. (i + W) /\ logs \subseteq window
  BY <1>1
<1> HIDE DEF window, logs, c
<1>5. /\ IsFiniteSet((i - W) .. (i + W)) /\ Cardinality((i - W) .. (i + W)) = 2 * W + 1
      /\ IsFiniteSet(c .. (c + W)) /\ Cardinality(c .. (c + W)) = W + 1
  <2>1. /\ (i + W) - (i - W) + 1 = 2 * W + 1 /\ i - W <= (i + W) + 1
        /\ (c + W) - c + 1 = W + 1 /\ c <= (c + W) + 1
    BY <1>1, <1>2
  <2> QED
    BY <1>2, <2>1, IntervalSize
<1>6. IsFiniteSet(window) /\ Cardinality(window) <= 2 * W + 1
  BY <1>4, <1>5, SubsetSize
<1>7. IsFiniteSet(logs)
  BY <1>4, <1>6, SubsetSize
<1>8. W + 1 <= Cardinality(logs)
  BY <1>3, <1>5, <1>7, SubsetSize
<1>9. Cardinality(window) \in Nat /\ Cardinality(logs) \in Nat
  BY <1>6, <1>7, FS_CardinalityType
<1>10. 5 * Cardinality(logs) >= 2 * Cardinality(window)
  BY <1>1, <1>6, <1>8, <1>9
<1> QED
  BY <1>10 DEF InTrace, window, logs

(* Such a row is in one longest part of dense words. *)
LEMMA RowIsInRun ==
  ASSUME NEW text, NEW n \in Nat, DOMAIN text = 1..n, n = Len(text), NEW D,
         NEW a \in 1..n, NEW b \in a..n, a..b \subseteq D
  PROVE  \E p \in Runs(text, D) : p.from \in D /\ p.from <= a /\ b <= p.to
<1> DEFINE F == {f \in 1..a : f..b \subseteq D}
<1>1. PICK f \in F : \A k \in F : f <= k
  <2>1. a \in F /\ F \in SUBSET Nat
    OBVIOUS
  <2> HIDE DEF F
  <2> QED
    BY <2>1, LeastNumber
<1> DEFINE T == {t \in b..n : f..t \subseteq D}
<1>2. PICK t \in T : \A k \in T : t >= k
  <2>1. b \in T /\ T \in SUBSET Int /\ T \subseteq b..n
    BY <1>1
  <2>2. IsFiniteSet(b..n)
    BY FS_Interval
  <2> HIDE DEF T
  <2>3. IsFiniteSet(T)
    BY <2>1, <2>2, FS_Subset
  <2> QED
    BY <2>1, <2>3, GreatestNumber
<1> DEFINE p == [from |-> f, to |-> t]
<1>3. /\ f \in 1..a /\ t \in b..n /\ f..t \subseteq D /\ f \in f..t /\ t \in f..t
      /\ f \in 1..n /\ t \in 1..n /\ f <= t
  BY <1>1, <1>2
<1>4. f > 1 => f - 1 \notin D
  <2> SUFFICES ASSUME f > 1, f - 1 \in D PROVE FALSE
    OBVIOUS
  <2>1. f - 1 \in 1..a /\ (f - 1)..b \subseteq D
    BY <1>1
  <2> QED
    BY <1>1, <2>1
<1>5. t < n => t + 1 \notin D
  <2> SUFFICES ASSUME t < n, t + 1 \in D PROVE FALSE
    OBVIOUS
  <2>1. t + 1 \in b..n /\ f..(t + 1) \subseteq D
    BY <1>3
  <2> QED
    BY <1>2, <2>1
<1>6. p \in [from : DOMAIN text, to : DOMAIN text] /\ p.from = f /\ p.to = t
  BY <1>3
<1> HIDE DEF p, F, T
<1>7. p \in Runs(text, D)
  BY <1>3, <1>4, <1>5, <1>6 DEF Runs
<1> QED
  BY <1>3, <1>6, <1>7

(* A row of log tokens that is long enough is found. *)
LEMMA RowIsTraced ==
  ASSUME NEW text \in Seq(Word), NEW a \in Nat \ {0}, NEW b \in 1..Len(text),
         b = a + MinTraceTokens - 1, \A j \in a..b : text[j].log
  PROVE  a..b \subseteq TraceWords(text)
<1> DEFINE dense == {i \in DOMAIN text : InTrace(text, i)}
           n == Len(text)
<1>1. /\ MinTraceTokens \in Nat \ {0} /\ n \in Nat /\ DOMAIN text = 1..n
      /\ a \in 1..n /\ b \in a..n /\ a..b \subseteq DOMAIN text
  BY ChunkingAssumption
<1>2. a..b \subseteq dense
  BY <1>1, RowIsDense
<1> HIDE DEF dense
<1>3. PICK p \in Runs(text, dense) : p.from \in dense /\ p.from <= a /\ b <= p.to
  <2>1. n = Len(text)
    OBVIOUS
  <2> HIDE DEF n
  <2> QED
    BY <1>1, <1>2, <2>1, RowIsInRun
<1> DEFINE s == Snapped(text, p)
<1>4. p.from \in Nat /\ p.to \in Nat
  <2>1. p.from \in DOMAIN text /\ p.to \in DOMAIN text
    BY <1>3 DEF Runs
  <2> QED
    BY <1>1, <2>1
<1>5. a..b \subseteq s
  <2> SUFFICES ASSUME NEW i \in a..b PROVE i \in s
    OBVIOUS
  <2>1. i \in p.from..p.to /\ i \in DOMAIN text
    BY <1>1, <1>3, <1>4
  <2>2. i \in Widened(text, p)
    BY <2>1 DEF Widened
  <2> QED
    BY <1>1, <2>2 DEF Snapped
<1>6. s \subseteq 1..n
  BY <1>1 DEF Snapped, Widened
<1> HIDE DEF s
<1>7. IsFiniteSet(s) /\ Cardinality(s) \in Nat
  <2>1. IsFiniteSet(1..n)
    BY <1>1, FS_Interval
  <2> QED
    BY <1>6, <2>1, SubsetSize
<1>8. Cardinality(a..b) = MinTraceTokens
  <2>1. a <= b + 1 /\ b - a + 1 = MinTraceTokens
    BY <1>1
  <2> QED
    BY <1>1, <2>1, IntervalSize
<1>9. Cardinality(s) >= MinTraceTokens
  BY <1>1, <1>5, <1>7, <1>8, SubsetSize
<1>10. s \subseteq Traced(text)
  BY <1>3, <1>9 DEF Traced, dense, s
<1> QED
  BY <1>5, <1>10 DEF TraceWords

(* What is between two words of a widened run is in it. *)
LEMMA WidenedWhole ==
  ASSUME NEW text, NEW n \in Nat, DOMAIN text = 1..n, NEW p, p.from \in Nat, p.to \in Nat, p.from <= p.to,
         NEW j \in Widened(text, p), NEW k \in Widened(text, p), NEW i \in j..k
  PROVE  i \in Widened(text, p)
<1>1. j \in 1..n /\ k \in 1..n /\ i \in 1..n
  BY DEF Widened
<1>2. CASE i < p.from
  <2>1. j < p.from /\ \A x \in j .. p.from - 1 : text[x].log
    BY <1>1, <1>2 DEF Widened
  <2> QED
    BY <1>1, <1>2, <2>1 DEF Widened
<1>3. CASE i > p.to
  <2>1. k > p.to /\ \A x \in p.to + 1 .. k : text[x].log
    BY <1>1, <1>3 DEF Widened
  <2> QED
    BY <1>1, <1>3, <2>1 DEF Widened
<1>4. CASE p.from <= i /\ i <= p.to
  BY <1>1, <1>4 DEF Widened
<1> QED
  BY <1>1, <1>2, <1>3, <1>4

(* Where a trace begins and where it ends there is a log token. *)
LEMMA TraceEdges ==
  ASSUME NEW text \in Seq(Word), NEW i \in TraceWords(text)
  PROVE  /\ i \in 1..Len(text)
         /\ i - 1 \notin TraceWords(text) \/ i + 1 \notin TraceWords(text) => text[i].log
<1> DEFINE traced == Traced(text)
           n == Len(text)
           tw == TraceWords(text)
<1>1. n \in Nat /\ DOMAIN text = 1..n /\ traced \subseteq tw
  BY DEF TraceWords
<1>2. CASE i \in traced
  <2> DEFINE dense == {k \in DOMAIN text : InTrace(text, k)}
  <2>1. PICK p \in Runs(text, dense) :
          i \in Snapped(text, p) /\ Snapped(text, p) \subseteq traced
    BY <1>2 DEF Traced
  <2> HIDE DEF dense
  <2>2. p.from \in Nat /\ p.to \in Nat /\ p.from <= p.to
    BY <1>1, <2>1 DEF Runs
  <2> DEFINE wide == Widened(text, p)
  <2>3. PICK j \in wide, k \in wide : j <= i /\ i <= k /\ text[j].log /\ text[k].log
    BY <2>1 DEF Snapped
  <2>4. wide \subseteq 1..n /\ i \in wide
    BY <1>1, <2>1 DEF Widened, Snapped
  <2>5. j \in Nat /\ k \in Nat /\ i \in 1..n
    BY <2>4
  <2>6. ASSUME NEW x \in j..k PROVE x \in traced
    <3>1. x \in wide
      BY <1>1, <2>2, <2>6, WidenedWhole
    <3>2. j <= x /\ x <= k
      BY <2>5
    <3>3. x \in Snapped(text, p)
      BY <2>3, <3>1, <3>2 DEF Snapped
    <3> QED
      BY <2>1, <3>3
  <2> HIDE DEF wide, traced
  <2>7. CASE i - 1 \notin tw
    <3>1. i = j
      BY <1>1, <2>3, <2>5, <2>6, <2>7
    <3> QED
      BY <2>3, <2>5, <3>1
  <2>8. CASE i + 1 \notin tw
    <3>1. i = k
      BY <1>1, <2>3, <2>5, <2>6, <2>8
    <3> QED
      BY <2>3, <2>5, <3>1
  <2> QED
    BY <2>5, <2>7, <2>8
<1>3. CASE i \notin traced
  <2>1. PICK p \in Runs(text, traced) :
          /\ p.from \notin traced /\ p.from > 1 /\ p.to < n
          /\ i \in p.from..p.to /\ p.from..p.to \subseteq tw
    BY <1>3 DEF TraceWords
  <2>2. p.from \in 1..n /\ p.to \in 1..n /\ p.from <= p.to
    BY <1>1, <2>1 DEF Runs
  <2>3. p.from - 1 \in traced
    BY <2>1, <2>2 DEF Runs
  <2>4. p.to + 1 \in traced
    <3>1. p.from \in p.from..p.to /\ p.to \in p.from..p.to
      BY <2>2
    <3>2. p.to \notin traced
      BY <2>1, <3>1 DEF Runs
    <3> QED
      BY <2>1, <2>2, <3>2 DEF Runs
  <2>5. i \in 1..n /\ i - 1 \in tw /\ i + 1 \in tw
    <3>1. i - 1 \in p.from..p.to \/ i - 1 = p.from - 1
      BY <2>1, <2>2
    <3>2. i + 1 \in p.from..p.to \/ i + 1 = p.to + 1
      BY <2>1, <2>2
    <3> QED
      BY <1>1, <2>1, <2>2, <2>3, <2>4, <3>1, <3>2
  <2> QED
    BY <2>5
<1> QED
  BY <1>2, <1>3

(* The length of a part is a number. *)
LEMMA LengthType ==
  ASSUME NEW text \in Seq(Word), NEW p, p.from \in Nat \ {0}, p.to \in Nat,
         p.to <= Len(text), p.from <= p.to + 1
  PROVE  Length(text, p) \in Int
<1> DEFINE f == [i \in p.from .. p.to |-> text[i].len]
<1>1. \A i \in p.from .. p.to : f[i] \in Nat
  <2> SUFFICES ASSUME NEW i \in p.from .. p.to PROVE text[i].len \in Nat
    OBVIOUS
  <2>1. i \in DOMAIN text
    OBVIOUS
  <2>2. text[i] \in Word
    BY <2>1
  <2> QED
    BY <2>2 DEF Word
<1>2. IsFiniteSet(p.from .. p.to) /\ DOMAIN f = p.from .. p.to
  <2>1. p.from \in Int /\ p.to \in Int
    OBVIOUS
  <2>2. IsFiniteSet(p.from .. p.to)
    BY <2>1, FS_Interval
  <2> QED
    BY <2>2
<1> HIDE DEF f
<1>3. SumFunctionOnSet(f, p.from .. p.to) \in Nat
  BY <1>1, <1>2, SumIsNat
<1>4. Length(text, p) = SumFunctionOnSet(f, p.from .. p.to) + (p.to - p.from)
  BY <1>2 DEF Length, SumFunction, f
<1> QED
  BY <1>3, <1>4

(* What is between two traces is not short, or it would be one with them. *)
LEMMA LongBetween ==
  ASSUME NEW text \in Seq(Word), NEW p \in Part, p.from <= p.to,
         p.from - 1 \in TraceWords(text), p.to + 1 \in TraceWords(text),
         p.from .. p.to \cap TraceWords(text) = {}
  PROVE  Length(text, p) >= MinProseBetween
<1> DEFINE traced == Traced(text)
           n == Len(text)
           tw == TraceWords(text)
<1>1. n \in Nat /\ DOMAIN text = 1..n /\ traced \subseteq tw
  BY DEF TraceWords
<1>2. /\ p.from \in Nat /\ p.to \in Nat /\ 1 < p.from /\ p.to < n
      /\ p.from \in 1..n /\ p.to \in 1..n
  <2>1. p.from - 1 \in 1..n /\ p.to + 1 \in 1..n
    BY TraceEdges
  <2> QED
    BY <2>1 DEF Part
<1>3. \A i \in tw \ traced : \E q \in Runs(text, traced) :
        q.from \notin traced /\ i \in q.from..q.to /\ q.from..q.to \subseteq tw
                             /\ q.from > 1 /\ q.to < n
  BY DEF TraceWords
<1>4. p.from - 1 \in traced
  <2> SUFFICES ASSUME p.from - 1 \notin traced PROVE FALSE
    OBVIOUS
  <2>1. PICK q \in Runs(text, traced) :
          q.from \notin traced /\ p.from - 1 \in q.from..q.to /\ q.from..q.to \subseteq tw
                               /\ q.to < n
    BY <1>3
  <2>2. q.from \in 1..n /\ q.to \in 1..n /\ q.from <= q.to
    BY <1>1, <2>1 DEF Runs
  <2>3. q.to \notin traced
    <3>1. q.from \in q.from..q.to /\ q.to \in q.from..q.to
      BY <2>2
    <3> QED
      BY <2>1, <3>1 DEF Runs
  <2>4. q.to + 1 \in traced
    BY <2>1, <2>2, <2>3 DEF Runs
  <2>5. p.from \in q.from..q.to \/ p.from = q.to + 1
    BY <1>2, <2>1, <2>2
  <2>6. p.from \notin tw
    BY <1>2
  <2> QED
    BY <1>1, <2>1, <2>4, <2>5, <2>6
<1>5. p.to + 1 \in traced
  <2> SUFFICES ASSUME p.to + 1 \notin traced PROVE FALSE
    OBVIOUS
  <2>1. PICK q \in Runs(text, traced) :
          q.from \notin traced /\ p.to + 1 \in q.from..q.to /\ q.from..q.to \subseteq tw
                               /\ q.from > 1
    BY <1>3
  <2>2. q.from \in 1..n /\ q.to \in 1..n /\ q.from <= q.to
    BY <1>1, <2>1 DEF Runs
  <2>3. q.from - 1 \in traced
    BY <2>1, <2>2 DEF Runs
  <2>4. p.to \in q.from..q.to \/ p.to = q.from - 1
    BY <1>2, <2>1, <2>2
  <2>5. p.to \notin tw
    BY <1>2
  <2> QED
    BY <1>1, <2>1, <2>3, <2>4, <2>5
<1>6. p.from..p.to \cap traced = {} /\ p.from \notin traced /\ p.to \notin traced
  BY <1>1, <1>2
<1>7. p \in Runs(text, traced)
  <2>1. p \in [from : DOMAIN text, to : DOMAIN text]
    BY <1>1, <1>2 DEF Part
  <2> QED
    BY <1>4, <1>5, <1>6, <2>1 DEF Runs
<1>8. ~(Length(text, p) < MinProseBetween)
  <2> SUFFICES ASSUME Length(text, p) < MinProseBetween PROVE FALSE
    OBVIOUS
  <2>1. p.from..p.to \subseteq tw
    BY <1>2, <1>6, <1>7 DEF TraceWords
  <2> QED
    BY <1>2, <2>1
<1>9. Length(text, p) \in Int /\ MinProseBetween \in Int
  BY <1>2, LengthType, ChunkingAssumption
<1> QED
  BY <1>8, <1>9

(* A trace is made of words of traces, a chunk of prose of the others. *)
OfKind(c, text) ==
    LET words == FirstWord(c.units) .. LastWord(c.units)
    IN  IF c.kind = "trace" THEN words \subseteq TraceWords(text)
        ELSE words \cap TraceWords(text) = {}

InDocument(c, ds) == c.doc \in DOMAIN ds /\ LastWord(c.units) <= Len(ds[c.doc].text)

SegmentKind ==
    /\ phase = "trace" => /\ segment.from .. segment.to \subseteq TraceWords(Text)
                          /\ segment.from <= at
    /\ phase = "prose" => /\ segment.from .. segment.to \cap TraceWords(Text) = {}
                          /\ segment.from <= at
                          /\ current # <<>> => segment.from <= FirstWord(current)
                          /\ packed > 0 => chunks[Len(chunks)].kind = "text"

ChunkKinds == \A k \in DOMAIN chunks : /\ InDocument(chunks[k], docs)
                                        /\ OfKind(chunks[k], docs[chunks[k].doc].text)

KindInv == ChunkKinds /\ SegmentKind

LEMMA InitKind == IndexInit => KindInv
BY DEF IndexInit, KindInv, ChunkKinds, SegmentKind

(* A chunk of the words of its segment is of the kind of its segment. *)
LEMMA KindAdded ==
  ASSUME IndexTypes, CutInv, KindInv, NEW kind \in {"text", "trace"}, NEW units, Run(units),
         phase = IF kind = "trace" THEN "trace" ELSE "prose",
         segment.from <= FirstWord(units), LastWord(units) <= segment.to,
         chunks' = Chunked(kind, units), docs' = docs
  PROVE  ChunkKinds' /\ chunks'[Len(chunks')].kind = kind
<1> DEFINE c == [id |-> Len(chunks) + 1, doc |-> doc, kind |-> kind, units |-> units]
           n == Len(chunks)
<1>1. /\ n \in Nat /\ chunks \in Seq(Chunk) /\ DOMAIN chunks = 1..n
      /\ segment.from \in Nat /\ segment.to \in Nat
      /\ FirstWord(units) \in Nat /\ LastWord(units) \in Nat
  BY DocTypes, RunEnds DEF Part
<1>2. chunks' = Append(chunks, c)
  BY DEF Chunked
<1>3. c \in Chunk /\ c.doc = doc /\ c.kind = kind /\ c.units = units
  <2>1. doc \in Nat \ {0} /\ units \in Seq(Part)
    BY DocTypes DEF Run
  <2> QED
    BY <1>1, <2>1 DEF Chunk
<1> HIDE DEF c
<1>4. /\ Len(chunks') = n + 1 /\ DOMAIN chunks' = 1..(n + 1) /\ chunks'[n + 1] = c
      /\ \A k \in 1..n : chunks'[k] = chunks[k]
  BY <1>1, <1>2, <1>3
<1>5. OfKind(c, Text)
  <2>1. FirstWord(units) .. LastWord(units) \subseteq segment.from .. segment.to
    BY <1>1
  <2>2. CASE kind = "trace"
    <3>1. segment.from .. segment.to \subseteq TraceWords(Text)
      BY <2>2 DEF KindInv, SegmentKind
    <3> QED
      BY <1>3, <2>1, <2>2, <3>1 DEF OfKind
  <2>3. CASE kind = "text"
    <3>1. segment.from .. segment.to \cap TraceWords(Text) = {}
      BY <2>3 DEF KindInv, SegmentKind
    <3> QED
      BY <1>3, <2>1, <2>3, <3>1 DEF OfKind
  <2> QED
    BY <2>2, <2>3
<1>6. InDocument(c, docs)
  <2>1. doc <= Len(docs) /\ segment.to <= Len(Text)
    BY DEF CutInv, WhereInv
  <2>2. doc \in DOMAIN docs /\ Len(Text) \in Nat
    BY <2>1, DocTypes DEF IndexTypes, BuildTypes
  <2>3. LastWord(units) <= Len(Text)
    BY <1>1, <2>1, <2>2
  <2> QED
    BY <1>3, <2>2, <2>3 DEF InDocument, Text
<1>7. ASSUME NEW k \in 1..(n + 1)
      PROVE  InDocument(chunks'[k], docs) /\ OfKind(chunks'[k], docs[chunks'[k].doc].text)
  <2>2. CASE k \in 1..n
    <3>1. InDocument(chunks[k], docs) /\ OfKind(chunks[k], docs[chunks[k].doc].text)
      BY <1>1, <2>2 DEF KindInv, ChunkKinds
    <3> QED
      BY <1>4, <2>2, <3>1
  <2>3. CASE k = n + 1
    <3>1. docs[c.doc].text = Text
      BY <1>3 DEF Text
    <3> QED
      BY <1>4, <1>5, <1>6, <2>3, <3>1
  <2> QED
    BY <1>1, <2>2, <2>3
<1>8. chunks'[Len(chunks')].kind = kind
  BY <1>3, <1>4
<1> QED
  BY <1>4, <1>7, <1>8 DEF ChunkKinds

LEMMA PackKind ==
  ASSUME IndexTypes, CutInv, KindInv, Pack
  PROVE  KindInv'
<1>1. PICK u \in [from : {at}, to : at .. segment.to] :
        at' = u.to + 1 /\ (PackMore(u) \/ PackFull(u))
  BY PackCases
<1>2. u \in Part /\ u.from = at /\ u.from <= u.to /\ u.to \in Nat
  <2>1. u \in Part /\ u.from = at /\ u.from <= u.to
    BY NextPart DEF IndexTypes
  <2> QED
    BY <2>1 DEF Part
<1>3. /\ phase = "prose" /\ phase' = "prose" /\ doc' = doc /\ docs' = docs /\ Text' = Text
      /\ segment' = segment
  BY DEF Pack, Text
<1>4. /\ Packing /\ at <= segment.to + 1
      /\ segment.from .. segment.to \cap TraceWords(Text) = {} /\ segment.from <= at
      /\ current # <<>> => segment.from <= FirstWord(current)
      /\ packed > 0 => chunks[Len(chunks)].kind = "text"
      /\ ChunkKinds
  BY <1>3 DEF CutInv, WhereInv, KindInv, SegmentKind
<1>5. segment.from \in Nat /\ segment.to \in Nat /\ at \in Nat /\ current \in Seq(Part)
  BY DocTypes DEF Part
<1>6. segment.from <= at'
  BY <1>1, <1>2, <1>4, <1>5
<1>7. CASE PackMore(u)
  <2>1. UNCHANGED <<chunks, packed>> /\ current' = Append(current, u)
    BY <1>7 DEF PackMore
  <2>2. segment.from <= FirstWord(current')
    <3>1. CASE current = <<>>
      <4>1. current' = <<u>>
        BY <1>2, <2>1, <3>1
      <4> QED
        BY <1>2, <1>4, <4>1 DEF FirstWord
    <3>2. CASE current # <<>>
      <4>1. current'[1] = current[1]
        BY <1>2, <1>5, <2>1, <3>2
      <4> QED
        BY <1>4, <3>2, <4>1 DEF FirstWord
    <3> QED
      BY <3>1, <3>2
  <2>3. SegmentKind'
    BY <1>3, <1>4, <1>6, <2>1, <2>2 DEF SegmentKind
  <2>4. ChunkKinds'
    BY <1>3, <1>4, <2>1 DEF ChunkKinds
  <2> QED
    BY <2>3, <2>4 DEF KindInv
<1>8. CASE PackFull(u)
  <2>1. /\ current # <<>> /\ chunks' = Chunked("text", current)
        /\ current' = Append(Overlap(u), u)
    BY <1>8 DEF PackFull
  <2>2. Run(current) /\ LastWord(current) + 1 = at
    BY <1>4, <2>1, FreshWord
  <2>3. LastWord(current) \in Nat /\ FirstWord(current) \in Nat
    BY <2>2, RunEnds
  <2>4. segment.from <= FirstWord(current) /\ LastWord(current) <= segment.to
    BY <1>4, <1>5, <2>1, <2>2, <2>3
  <2>5. ChunkKinds' /\ chunks'[Len(chunks')].kind = "text"
    BY <1>3, <2>1, <2>2, <2>4, KindAdded
  <2>6. segment.from <= FirstWord(current')
    <3>1. PICK n \in 0..Len(current) : Overlap(u) = Suffix(current, n)
      BY OverlapIsSuffix, DocTypes
    <3>2. CASE n = 0
      <4>1. Overlap(u) = <<>>
        BY <3>1, <3>2, SuffixType, DocTypes
      <4> QED
        BY <1>2, <1>4, <2>1, <4>1 DEF FirstWord
    <3>3. CASE n # 0
      <4>1. n \in 1..Len(current) /\ Len(current) - n + 1 \in DOMAIN current
        BY <1>5, <3>3
      <4>2. Run(Overlap(u)) /\ FirstWord(Overlap(u)) = current[Len(current) - n + 1].from
        BY <2>2, <3>1, <4>1, SuffixRun
      <4>3. /\ FirstWord(current) <= current[Len(current) - n + 1].from
            /\ current[Len(current) - n + 1].from \in Nat
        BY <2>2, <4>1, RunBounds
      <4>4. Overlap(u) \in Seq(Part) /\ Overlap(u) # <<>>
        BY <4>2 DEF Run
      <4>5. current'[1] = Overlap(u)[1]
        BY <1>2, <2>1, <4>4
      <4> QED
        BY SMTT(30), <1>5, <2>3, <2>4, <4>2, <4>3, <4>5 DEF FirstWord
    <3> QED
      BY <3>2, <3>3
  <2>7. SegmentKind'
    <3>1. chunks'[Len(chunks')].kind = "text"
      BY <2>5
    <3> QED
      BY <1>3, <1>4, <1>6, <2>6, <3>1 DEF SegmentKind
  <2> QED
    BY <2>5, <2>7 DEF KindInv
<1> QED
  BY <1>1, <1>7, <1>8

LEMMA EndProseKind ==
  ASSUME IndexTypes, CutInv, KindInv, EndProse
  PROVE  KindInv'
<1> DEFINE tail == Suffix(current, fresh)
           n == Len(chunks)
           joined == [chunks EXCEPT ![n].units = @ \o tail]
<1>1. /\ phase = "prose" /\ phase' = "segment" /\ at > segment.to /\ docs' = docs
      /\ chunks' = IF packed > 0 /\ JoinedLength(Text, tail) < MinTail THEN joined
                   ELSE Chunked("text", current)
  BY DEF EndProse
<1>2. /\ Packing /\ at <= segment.to + 1 /\ segment.from <= segment.to
      /\ doc <= Len(docs) /\ segment.to <= Len(Text) /\ ChunksOk(chunks, doc)
      /\ segment.from .. segment.to \cap TraceWords(Text) = {}
      /\ current # <<>> => segment.from <= FirstWord(current)
      /\ packed > 0 => chunks[n].kind = "text"
      /\ ChunkKinds
  BY <1>1 DEF CutInv, WhereInv, KindInv, SegmentKind
<1>3. /\ segment.from \in Nat /\ segment.to \in Nat /\ at \in Nat /\ current \in Seq(Part)
      /\ chunks \in Seq(Chunk) /\ Len(Text) \in Nat
  BY <1>2, DocTypes DEF Part
<1>4. current # <<>>
  <2>1. at # segment.from
    BY <1>1, <1>2, <1>3
  <2> QED
    BY <1>2, <2>1 DEF Packing, Run
<1>5. PICK w \in Nat : /\ w = current[Len(current) - fresh + 1].from
                       /\ Run(current) /\ LastWord(current) + 1 = at
                       /\ FirstWord(current) <= w
                       /\ Reaches(chunks, doc, w) /\ fresh \in 1..Len(current)
                       /\ packed > 0 => w # 1
  BY <1>2, <1>4, FreshWord
<1>6. Run(tail) /\ LastWord(tail) = LastWord(current) /\ FirstWord(tail) = w
  BY <1>5, SuffixRun
<1>7. /\ LastWord(current) \in Nat /\ FirstWord(current) \in Nat
      /\ LastWord(current) <= segment.to /\ segment.from <= FirstWord(current)
  <2>1. LastWord(current) \in Nat /\ FirstWord(current) \in Nat
    BY <1>5, RunEnds
  <2> QED
    BY <1>2, <1>3, <1>4, <1>5, <2>1
<1> HIDE DEF tail
<1>8. ChunkKinds'
  <2>1. CASE chunks' = Chunked("text", current)
    BY <1>1, <1>5, <1>7, <2>1, KindAdded
  <2>2. CASE packed > 0 /\ chunks' = joined
    <3> DEFINE last == chunks[n]
    <3>1. chunks # <<>> /\ last.doc = doc /\ LastWord(last.units) + 1 = w
      BY <1>5, <2>2 DEF Reaches
    <3>2. n \in DOMAIN chunks /\ last \in Chunk /\ last.kind = "text"
      BY <1>2, <1>3, <2>2, <3>1
    <3>3. Run(last.units)
      BY <1>2, <3>2 DEF ChunksOk
    <3>4. /\ FirstWord(last.units \o tail) = FirstWord(last.units)
          /\ LastWord(last.units \o tail) = LastWord(current)
      BY <1>6, <3>1, <3>3, ConcatRun
    <3>5. /\ DOMAIN joined = DOMAIN chunks
          /\ \A k \in DOMAIN chunks : k # n => joined[k] = chunks[k]
      OBVIOUS
    <3>6. /\ joined[n].doc = doc /\ joined[n].kind = "text"
          /\ joined[n].units = last.units \o tail
      BY <3>1, <3>2 DEF Chunk
    <3> HIDE DEF last, joined
    <3>7. InDocument(joined[n], docs) /\ OfKind(joined[n], Text)
      <4>1. doc \in DOMAIN docs
        BY <1>2, DocTypes DEF IndexTypes, BuildTypes
      <4>2. LastWord(current) <= Len(Text)
        BY <1>2, <1>3, <1>7
      <4>3. OfKind(last, Text)
        BY <1>2, <3>1, <3>2 DEF ChunkKinds, last, Text
      <4>4. FirstWord(last.units) \in Nat /\ LastWord(last.units) \in Nat
        BY <3>3, RunEnds
      <4>5. ASSUME NEW i \in FirstWord(last.units) .. LastWord(current)
            PROVE  i \notin TraceWords(Text)
        <5>1. CASE i <= LastWord(last.units)
          BY <3>2, <4>3, <4>4, <5>1 DEF OfKind
        <5>2. CASE i > LastWord(last.units)
          <6>1. FirstWord(current) <= w /\ LastWord(last.units) + 1 = w /\ i \in Int
            BY <1>5, <1>7, <3>1, <4>4
          <6>2. i >= w /\ i <= LastWord(current)
            BY <1>7, <4>4, <5>2, <6>1
          <6>3. i \in segment.from .. segment.to
            BY <1>3, <1>7, <6>1, <6>2
          <6> QED
            BY <1>2, <6>3
        <5> QED
          BY <1>7, <4>4, <5>1, <5>2
      <4> QED
        BY <3>4, <3>6, <4>1, <4>2, <4>5 DEF InDocument, OfKind, Text
    <3>8. ASSUME NEW k \in DOMAIN joined
          PROVE  InDocument(joined[k], docs) /\ OfKind(joined[k], docs[joined[k].doc].text)
      <4>1. CASE k = n
        BY <3>6, <3>7, <4>1 DEF Text
      <4>2. CASE k # n
        BY <1>2, <3>5, <4>2 DEF ChunkKinds
      <4> QED
        BY <4>1, <4>2
    <3> QED
      BY <1>1, <2>2, <3>8 DEF ChunkKinds
  <2> QED
    BY <1>1, <2>1, <2>2
<1> QED
  BY <1>1, <1>8 DEF KindInv, SegmentKind

LEMMA CutTraceKind ==
  ASSUME IndexTypes, CutInv, KindInv, CutTrace
  PROVE  KindInv'
<1>1. PICK p \in [from : {at}, to : at .. segment.to] :
        chunks' = Chunked("trace", <<p>>) /\ at' = p.to + 1
  BY DEF CutTrace
<1>2. /\ p \in Part /\ p.from = at /\ p.from <= p.to /\ p.to <= segment.to
      /\ Run(<<p>>) /\ FirstWord(<<p>>) = at /\ LastWord(<<p>>) = p.to
  <2>1. p \in Part /\ p.from = at /\ p.from <= p.to /\ p.to <= segment.to
    BY NextPart DEF IndexTypes
  <2> QED
    BY <2>1, RunOfOne
<1>3. /\ phase = "trace" /\ phase' = "trace" /\ docs' = docs /\ Text' = Text
      /\ segment' = segment
  BY DEF CutTrace, Text, pack_vars
<1>4. segment.from <= at /\ segment.from .. segment.to \subseteq TraceWords(Text)
  BY <1>3 DEF KindInv, SegmentKind
<1>5. ChunkKinds'
  BY <1>1, <1>2, <1>3, <1>4, KindAdded
<1>6. segment.from <= at'
  BY <1>1, <1>2, <1>4, DocTypes DEF Part
<1> QED
  BY <1>3, <1>4, <1>5, <1>6 DEF KindInv, SegmentKind

LEMMA KindStep ==
  ASSUME IndexTypes, CutInv, KindInv, [IndexNext]_<<vars, index_vars>>
  PROVE  KindInv'
<1>1. CASE UNCHANGED index_vars
  BY <1>1 DEF index_vars, pack_vars, KindInv, ChunkKinds, SegmentKind, Text
<1>2. CASE ListDocuments
  <2>1. chunks' = <<>> /\ phase' = "segment"
    BY <1>2 DEF ListDocuments, CutInv, WhereInv
  <2> QED
    BY <2>1 DEF KindInv, ChunkKinds, SegmentKind
<1>3. CASE StartSegment
  <2>1. /\ phase' = IF at \in TraceWords(Text) THEN "trace" ELSE "prose"
        /\ segment' \in Runs(Text, TraceWords(Text)) /\ segment'.from = at
        /\ current' = <<>> /\ packed' = 0 /\ UNCHANGED <<docs, doc, at, chunks>>
    BY <1>3 DEF StartSegment
  <2>2. /\ segment'.from <= segment'.to /\ at \in Nat
        /\ segment'.from \in DOMAIN Text /\ segment'.to \in DOMAIN Text
        /\ \/ segment'.from .. segment'.to \subseteq TraceWords(Text)
           \/ segment'.from .. segment'.to \cap TraceWords(Text) = {}
    BY <2>1, DocTypes DEF Runs
  <2>3. segment'.to \in Int
    <3>1. doc <= Len(docs)
      BY <1>3 DEF StartSegment
    <3> QED
      BY <2>2, <3>1, DocTypes
  <2>4. at \in segment'.from .. segment'.to /\ Text' = Text
    BY <2>1, <2>2, <2>3 DEF Text
  <2>5. SegmentKind'
    BY <2>1, <2>2, <2>4 DEF SegmentKind
  <2> QED
    BY <2>1, <2>5 DEF KindInv, ChunkKinds
<1>4. CASE EndTrace \/ ChunksBuilt \/ NextDocument \/ Embed \/ EmbedWrongly \/ Embedded
  <2>1. phase' \notin {"trace", "prose"} /\ UNCHANGED <<docs, chunks>>
    BY <1>4 DEF EndTrace, ChunksBuilt, NextDocument, Embed, EmbedWrongly, Embedded
  <2> QED
    BY <2>1 DEF KindInv, ChunkKinds, SegmentKind
<1> QED
  BY <1>1, <1>2, <1>3, <1>4, PackKind, EndProseKind, CutTraceKind
     DEF IndexNext, Indexing, IndexDone

(* What is known of chunk k of the document with this text. *)
LEMMA ChunkFacts ==
  ASSUME IndexTypes, CutInv, KindInv, NEW k \in DOMAIN chunks
  PROVE  LET c == chunks[k]
             text == docs[c.doc].text
             first == FirstWord(c.units)
             last == LastWord(c.units)
         IN  /\ k \in Nat \ {0} /\ k \in 1..Len(chunks) /\ DOMAIN chunks = 1..Len(chunks)
             /\ c.doc \in DOMAIN docs /\ c.doc \in Nat \ {0} /\ c.kind \in {"text", "trace"}
             /\ text \in Seq(Word) /\ Len(text) \in Nat
             /\ first \in Nat \ {0} /\ last \in Nat \ {0} /\ first <= last /\ last <= Len(text)
             /\ c.kind = "text" => first .. last \cap TraceWords(text) = {}
             /\ c.kind = "trace" => first .. last \subseteq TraceWords(text)
<1> DEFINE c == chunks[k]
           text == docs[c.doc].text
<1>1. k \in 1..Len(chunks) /\ DOMAIN chunks = 1..Len(chunks) /\ Len(chunks) \in Nat
      /\ c \in Chunk
  BY DocTypes
<1>2. Run(c.units)
  BY DEF CutInv, ChunksOk
<1>3. /\ FirstWord(c.units) \in Nat \ {0} /\ LastWord(c.units) \in Nat \ {0}
      /\ FirstWord(c.units) <= LastWord(c.units)
  <2>1. 1 \in DOMAIN c.units /\ FirstWord(c.units) = c.units[1].from
    BY <1>2, RunEnds DEF FirstWord
  <2>2. /\ c.units[1].to <= LastWord(c.units) /\ c.units[1].from <= c.units[1].to
        /\ c.units[1].from \in Nat /\ c.units[1].to \in Nat
    BY <1>2, <2>1, RunBounds
  <2>3. FirstWord(c.units) \in Nat \ {0} /\ LastWord(c.units) \in Nat \ {0}
    BY <1>2, RunEnds
  <2> QED
    BY <2>1, <2>2, <2>3
<1>4. InDocument(c, docs) /\ OfKind(c, text)
  BY DEF KindInv, ChunkKinds
<1>5. c.doc \in Nat \ {0} /\ c.kind \in {"text", "trace"}
  BY <1>1 DEF Chunk
<1>6. c.doc \in DOMAIN docs /\ LastWord(c.units) <= Len(text)
  BY <1>4 DEF InDocument
<1>7. text \in Seq(Word)
  <2>1. docs[c.doc] \in Document
    BY <1>6 DEF IndexTypes, BuildTypes
  <2> QED
    BY <2>1 DEF Document
<1> HIDE DEF c, text
<1>8. /\ c.kind = "text" => FirstWord(c.units) .. LastWord(c.units) \cap TraceWords(text) = {}
      /\ c.kind = "trace" => FirstWord(c.units) .. LastWord(c.units) \subseteq TraceWords(text)
  BY <1>4 DEF OfKind
<1>9. k \in Nat \ {0} /\ Len(text) \in Nat
  BY <1>1, <1>7
<1> QED
  BY <1>1, <1>3, <1>5, <1>6, <1>7, <1>8, <1>9 DEF c, text

(* The documents of chunks come in order. *)
LEMMA InOrderOfDocuments ==
  ASSUME IndexTypes, CutInv, KindInv, NEW i \in DOMAIN chunks, NEW j \in DOMAIN chunks, i <= j
  PROVE  chunks[i].doc <= chunks[j].doc
<1>1. chunks[i].doc \in Nat /\ i \in Nat /\ j \in Nat /\ i >= 1
  BY ChunkFacts
<1>2. CASE i = j
  BY <1>1, <1>2
<1>3. CASE i # j
  <2>1. i \in 1..(j - 1)
    BY <1>1, <1>3
  <2> QED
    BY <2>1 DEF CutInv, ChunksOk
<1> QED
  BY <1>2, <1>3

(* Each chunk of a document ends after those before it. *)
LEMMA LastWordsGrow ==
  ASSUME IndexTypes, CutInv, KindInv, NEW i \in DOMAIN chunks, NEW j \in DOMAIN chunks, i < j,
         chunks[i].doc = chunks[j].doc
  PROVE  LastWord(chunks[i].units) < LastWord(chunks[j].units)
<1> DEFINE n == Len(chunks)
           last(k) == LastWord(chunks[k].units)
           T == {k \in (i + 1)..n : chunks[k].doc = chunks[i].doc /\ ~(last(i) < last(k))}
<1> SUFFICES ASSUME ~(last(i) < last(j)) PROVE FALSE
  OBVIOUS
<1>1. n \in Nat /\ DOMAIN chunks = 1..n /\ i \in 1..n /\ j \in 1..n
  BY ChunkFacts, DocTypes
<1>2. PICK m \in T : \A k \in T : m <= k
  <2>1. j \in T /\ T \in SUBSET Nat
    BY <1>1
  <2> HIDE DEF T
  <2> QED
    BY <2>1, LeastNumber
<1>3. /\ m \in (i + 1)..n /\ m \in 1..n /\ m - 1 \in 1..n /\ i <= m - 1 /\ m - 1 <= m /\ m > 1
      /\ chunks[m].doc = chunks[i].doc /\ ~(last(i) < last(m))
  BY <1>1, <1>2
<1>4. \A k \in 1..n : last(k) \in Nat /\ chunks[k].doc \in Nat
  BY <1>1, ChunkFacts
<1>5. chunks[m - 1].doc = chunks[m].doc
  <2>1. chunks[i].doc <= chunks[m - 1].doc
    BY <1>1, <1>3, InOrderOfDocuments
  <2>2. chunks[m - 1].doc <= chunks[m].doc
    BY <1>1, <1>3, InOrderOfDocuments
  <2> QED
    BY SMTT(30), <1>1, <1>3, <1>4, <2>1, <2>2
<1>6. last(m - 1) < last(m)
  BY <1>1, <1>3, <1>5 DEF CutInv, ChunksOk
<1> HIDE DEF last
<1>7. CASE m - 1 = i
  BY <1>3, <1>6, <1>7
<1>8. CASE m - 1 # i
  <2>1. m - 1 \in (i + 1)..n /\ ~(m <= m - 1)
    BY <1>1, <1>3, <1>8
  <2>2. last(i) < last(m - 1)
    BY <1>2, <1>3, <1>5, <2>1
  <2>3. last(i) < last(m)
    BY <1>1, <1>3, <1>4, <1>6, <2>2
  <2> QED
    BY <1>3, <2>3
<1> QED
  BY <1>7, <1>8

(* Neighbours of different kinds share no word. *)
LEMMA Neighbours ==
  ASSUME IndexTypes, CutInv, KindInv, NEW k \in DOMAIN chunks, k > 1,
         chunks[k - 1].doc = chunks[k].doc, chunks[k - 1].kind # chunks[k].kind
  PROVE  FirstWord(chunks[k].units) = LastWord(chunks[k - 1].units) + 1
<1> DEFINE a == chunks[k - 1].units
           b == chunks[k].units
           text == docs[chunks[k].doc].text
<1>1. k - 1 \in DOMAIN chunks
  BY ChunkFacts
<1>2. FirstWord(b) <= LastWord(a) + 1 /\ LastWord(a) < LastWord(b)
  BY DEF CutInv, ChunksOk
<1>3. /\ FirstWord(b) \in Nat /\ LastWord(b) \in Nat
      /\ FirstWord(a) \in Nat /\ LastWord(a) \in Nat /\ FirstWord(a) <= LastWord(a)
      /\ chunks[k].kind \in {"text", "trace"} /\ chunks[k - 1].kind \in {"text", "trace"}
  BY <1>1, ChunkFacts
<1>4. \A x \in {k - 1, k} :
        LET words == FirstWord(chunks[x].units) .. LastWord(chunks[x].units)
        IN  /\ chunks[x].kind = "text" => words \cap TraceWords(text) = {}
            /\ chunks[x].kind = "trace" => words \subseteq TraceWords(text)
  BY <1>1, ChunkFacts
<1> HIDE DEF text
<1>5. LastWord(a) \notin FirstWord(b) .. LastWord(b)
  <2>1. LastWord(a) \in FirstWord(a) .. LastWord(a)
    BY <1>3
  <2> QED
    BY <1>3, <1>4, <2>1
<1> HIDE DEF a, b
<1>6. FirstWord(b) = LastWord(a) + 1
  BY <1>2, <1>3, <1>5
<1> QED
  BY <1>6 DEF a, b

(* The last chunk of a document ends where its text does. *)
LEMMA LastOfDocument ==
  ASSUME IndexTypes, CutInv, KindInv, Cut, NEW k \in DOMAIN chunks, ~Continued(k)
  PROVE  LastWord(chunks[k].units) = Len(docs[chunks[k].doc].text)
<1> DEFINE d == chunks[k].doc
           last(i) == LastWord(chunks[i].units)
<1>1. /\ k \in 1..Len(chunks) /\ DOMAIN chunks = 1..Len(chunks) /\ Len(chunks) \in Nat
      /\ d \in DOMAIN docs /\ d \in Nat /\ Len(docs[d].text) \in Nat
      /\ last(k) \in Nat \ {0} /\ last(k) <= Len(docs[d].text)
  BY ChunkFacts, DocTypes
<1>2. docs[d].text # <<>>
  BY <1>1
<1>3. PICK m \in DOMAIN chunks : chunks[m].doc = d /\ last(m) = Len(docs[d].text)
  <2>1. NothingIsLost
    BY CutIsWhole
  <2> QED
    BY <1>1, <1>2, <2>1 DEF NothingIsLost
<1>4. CASE m = k
  BY <1>3, <1>4
<1>5. CASE m < k
  <2>1. last(m) < last(k)
    BY <1>3, <1>5, LastWordsGrow
  <2> QED
    BY <1>1, <1>3, <2>1
<1>6. CASE k < m
  <2>1. k + 1 \in DOMAIN chunks /\ k <= k + 1 /\ k + 1 <= m /\ k < Len(chunks)
    BY <1>1, <1>6
  <2>2. d <= chunks[k + 1].doc /\ chunks[k + 1].doc <= chunks[m].doc
    BY <2>1, InOrderOfDocuments
  <2>3. chunks[k + 1].doc \in Nat
    BY <2>1, ChunkFacts
  <2>4. chunks[k + 1].doc # d
    BY <2>1 DEF Continued
  <2> QED
    BY <1>1, <1>3, <2>2, <2>3, <2>4
<1> QED
  BY <1>1, <1>4, <1>5, <1>6

(* Between two traces of a document is prose, and all of it. *)
LEMMA ProseBetween ==
  ASSUME IndexTypes, CutInv, KindInv, NEW i \in DOMAIN chunks, NEW k \in DOMAIN chunks,
         i <= k - 2, chunks[i].doc = chunks[k].doc,
         chunks[i].kind = "trace", chunks[k].kind = "trace",
         \A j \in (i + 1)..(k - 1) : ~(chunks[j].doc = chunks[k].doc /\ chunks[j].kind = "trace")
  PROVE  LET p == [from |-> LastWord(chunks[i].units) + 1,
                   to |-> FirstWord(chunks[k].units) - 1]
         IN  Length(docs[chunks[k].doc].text, p) >= MinProseBetween
<1> DEFINE n == Len(chunks)
           text == docs[chunks[k].doc].text
           first(j) == FirstWord(chunks[j].units)
           last(j) == LastWord(chunks[j].units)
           p == [from |-> last(i) + 1, to |-> first(k) - 1]
<1>1. /\ n \in Nat /\ DOMAIN chunks = 1..n /\ i \in 1..n /\ k \in 1..n
      /\ text \in Seq(Word)
  BY ChunkFacts, DocTypes
<1>2. ASSUME NEW j \in 1..n
      PROVE  first(j) \in Nat \ {0} /\ last(j) \in Nat \ {0} /\ first(j) <= last(j)
  BY <1>1, ChunkFacts
<1>3. ASSUME NEW j \in (i + 1)..(k - 1)
      PROVE  /\ j \in 1..n /\ chunks[j].doc = chunks[k].doc /\ chunks[j].kind = "text"
             /\ first(j) .. last(j) \cap TraceWords(text) = {}
  <2>1. j \in 1..n /\ i <= j /\ j <= k
    BY <1>1
  <2>2. chunks[i].doc <= chunks[j].doc /\ chunks[j].doc <= chunks[k].doc
    BY <1>1, <2>1, InOrderOfDocuments
  <2>3. chunks[j].doc = chunks[k].doc
    <3>1. chunks[j].doc \in Nat /\ chunks[k].doc \in Nat
      BY <1>1, <2>1, ChunkFacts
    <3> QED
      BY <2>2, <3>1
  <2>4. chunks[j].kind = "text"
    BY <1>1, <2>1, <2>3, ChunkFacts
  <2> QED
    BY <1>1, <2>1, <2>3, <2>4, ChunkFacts
<1>4. first(i + 1) = last(i) + 1
  <2>1. i + 1 \in (i + 1)..(k - 1) /\ i + 1 > 1 /\ (i + 1) - 1 = i
    BY <1>1
  <2>2. i + 1 \in DOMAIN chunks /\ chunks[i + 1].doc = chunks[i].doc /\ chunks[i + 1].kind = "text"
    BY <1>1, <1>3, <2>1
  <2> HIDE DEF first, last
  <2>3. FirstWord(chunks[i + 1].units) = LastWord(chunks[(i + 1) - 1].units) + 1
    BY <2>1, <2>2, Neighbours
  <2> QED
    BY <2>1, <2>3 DEF first, last
<1>5. first(k) = last(k - 1) + 1
  <2>1. k - 1 \in (i + 1)..(k - 1) /\ k > 1
    BY <1>1
  <2>2. chunks[k - 1].doc = chunks[k].doc /\ chunks[k - 1].kind = "text"
    BY <1>3, <2>1
  <2> QED
    BY <1>1, <2>1, <2>2, Neighbours
<1>6. last(i) + 1 <= first(k) - 1
  <2>1. i \in DOMAIN chunks /\ k - 1 \in DOMAIN chunks /\ i < k - 1
    BY <1>1
  <2>2. chunks[k - 1].doc = chunks[i].doc
    BY <1>1, <1>3
  <2>3. last(i) < last(k - 1)
    BY <2>1, <2>2, LastWordsGrow
  <2>4. last(i) \in Nat /\ last(k - 1) \in Nat
    BY <1>1, <1>2, <2>1
  <2> HIDE DEF first, last
  <2> QED
    BY <1>5, <2>3, <2>4
<1>7. ASSUME NEW w \in p.from .. p.to PROVE w \notin TraceWords(text)
  <2> DEFINE T == {j \in (i + 1)..(k - 1) : last(j) >= w}
  <2>1. PICK j \in T : \A x \in T : j <= x
    <3>1. T \in SUBSET Nat
      BY <1>1
    <3>2. k - 1 \in T
      <4>1. k - 1 \in (i + 1)..(k - 1) /\ k - 1 \in 1..n
        BY <1>1
      <4>2. last(k - 1) \in Nat
        BY <1>2, <4>1
      <4> HIDE DEF first, last
      <4> QED
        BY <1>5, <4>1, <4>2
    <3> HIDE DEF T
    <3> QED
      BY <3>1, <3>2, LeastNumber
  <2>2. j \in (i + 1)..(k - 1) /\ j \in 1..n /\ last(j) >= w
    BY <1>1, <2>1
  <2>3. first(j) <= w
    <3>1. CASE j = i + 1
      <4> HIDE DEF first, last
      <4> QED
        BY <1>1, <1>2, <1>4, <3>1
    <3>2. CASE j # i + 1
      <4>1. j - 1 \in (i + 1)..(k - 1) /\ j - 1 \in 1..n /\ ~(j <= j - 1) /\ j > 1
        BY <1>1, <2>2, <3>2
      <4>2. chunks[j - 1].doc = chunks[j].doc
        BY <1>3, <2>2, <4>1
      <4>3. first(j) <= last(j - 1) + 1
        BY <1>1, <2>2, <4>1, <4>2 DEF CutInv, ChunksOk
      <4>4. ~(last(j - 1) >= w)
        BY <2>1, <4>1
      <4>5. first(j) \in Nat /\ last(j - 1) \in Nat /\ last(i) \in Nat /\ first(k) \in Nat
        BY <1>1, <1>2, <2>2, <4>1
      <4> HIDE DEF first, last
      <4> QED
        BY <4>3, <4>4, <4>5
    <3> QED
      BY <3>1, <3>2
  <2>4. first(j) \in Nat /\ last(j) \in Nat /\ last(i) \in Nat /\ first(k) \in Nat
    BY <1>1, <1>2, <2>2
  <2>5. w \in first(j) .. last(j)
    <3> HIDE DEF first, last
    <3> QED
      BY <2>2, <2>3, <2>4
  <2> QED
    BY <1>3, <2>2, <2>5
<1>8. last(i) \in TraceWords(text) /\ first(k) \in TraceWords(text)
  <2>1. last(i) \in first(i) .. last(i) /\ first(k) \in first(k) .. last(k)
    BY <1>1, <1>2
  <2>2. /\ first(i) .. last(i) \subseteq TraceWords(text)
        /\ first(k) .. last(k) \subseteq TraceWords(text)
    BY ChunkFacts
  <2> QED
    BY <2>1, <2>2
<1>9. last(i) \in Nat \ {0} /\ first(k) \in Nat \ {0}
  BY <1>1, <1>2
<1> HIDE DEF text, first, last
<1>10. p \in Part /\ p.from <= p.to /\ p.from - 1 = last(i) /\ p.to + 1 = first(k)
  BY <1>6, <1>9 DEF Part
<1>11. p.from .. p.to \cap TraceWords(text) = {}
  BY <1>7
<1> HIDE DEF p
<1>12. Length(text, p) >= MinProseBetween
  BY <1>1, <1>8, <1>10, <1>11, LongBetween
<1> QED
  BY <1>12 DEF p, text, first, last

LEMMA KindsKeepApart == IndexTypes /\ CutInv /\ KindInv => TracesAreKeptApart
<1> SUFFICES ASSUME IndexTypes, CutInv, KindInv, Cut, NEW k \in DOMAIN chunks
             PROVE  LET c == chunks[k]
                        text == TextOf(c)
                        edge(i) == ~(i \in DOMAIN chunks /\ chunks[i].doc = c.doc
                                                         /\ chunks[i].kind = "trace")
                        between(i) == /\ i < k /\ ~edge(i) /\ c.kind = "trace"
                                      /\ \A j \in (i + 1)..(k - 1) : edge(j)
                    IN  /\ c.kind = "text" =>
                             \A i \in FirstWord(c.units)
                                     .. (LastWord(c.units) + 1 - MinTraceTokens) :
                               \E j \in i .. (i + MinTraceTokens - 1) : ~text[j].log
                        /\ c.kind = "trace" => /\ edge(k - 1) => text[FirstWord(c.units)].log
                                               /\ edge(k + 1) => text[LastWord(c.units)].log
                        /\ \A i \in 1..(k - 2) : between(i) =>
                             Length(text, [from |-> LastWord(chunks[i].units) + 1,
                                           to |-> FirstWord(c.units) - 1])
                               >= MinProseBetween
  BY DEF TracesAreKeptApart
<1> DEFINE c == chunks[k]
           text == docs[c.doc].text
           first == FirstWord(c.units)
           last == LastWord(c.units)
           n == Len(chunks)
           tw == TraceWords(text)
           other(i) == ~(i \in DOMAIN chunks /\ chunks[i].doc = c.doc /\ chunks[i].kind = "trace")
<1>1. /\ n \in Nat /\ k \in 1..n /\ DOMAIN chunks = 1..n
      /\ text \in Seq(Word) /\ Len(text) \in Nat
      /\ first \in Nat \ {0} /\ last \in Nat \ {0} /\ first <= last /\ last <= Len(text)
      /\ c.kind = "text" => first .. last \cap tw = {}
      /\ c.kind = "trace" => first .. last \subseteq tw
  BY ChunkFacts, DocTypes
<1>2. ASSUME c.kind = "text", NEW i \in first .. (last + 1 - MinTraceTokens)
      PROVE  \E j \in i .. (i + MinTraceTokens - 1) : ~text[j].log
  <2> DEFINE b == i + MinTraceTokens - 1
  <2> SUFFICES ASSUME \A j \in i..b : text[j].log PROVE FALSE
    OBVIOUS
  <2>1. MinTraceTokens \in Nat \ {0}
    BY ChunkingAssumption
  <2> HIDE DEF text, first, last
  <2>2. /\ i \in Nat \ {0} /\ b \in 1..Len(text) /\ i \in i..b /\ i \in first .. last
    BY SMTT(30), <1>1, <2>1
  <2>3. i..b \subseteq tw
    BY <1>1, <2>2, RowIsTraced
  <2> HIDE DEF c, b, tw
  <2> QED
    BY <1>1, <1>2, <2>2, <2>3
<1>3. ASSUME c.kind = "trace", other(k - 1) PROVE text[first].log
  <2>1. first \in tw /\ last \in tw
    BY <1>1, <1>3
  <2>2. CASE first = 1
    <3>1. first - 1 \notin tw
      <4>1. 0 \notin 1..Len(text)
        OBVIOUS
      <4>2. ASSUME 0 \in tw PROVE FALSE
        BY <1>1, <4>1, <4>2, TraceEdges
      <4> QED
        BY <2>2, <4>2
    <3> HIDE DEF text
    <3> QED
      BY <1>1, <2>1, <3>1, TraceEdges
  <2>3. CASE first # 1
    <3>1. k > 1 /\ chunks[k - 1].doc = chunks[k].doc
      BY <2>3 DEF CutInv, ChunksOk
    <3>2. k - 1 \in DOMAIN chunks
      BY <1>1, <3>1
    <3>3. chunks[k - 1].kind = "text" /\ chunks[k].kind = "trace"
      BY <1>3, <3>1, <3>2, ChunkFacts
    <3>4. first = LastWord(chunks[k - 1].units) + 1
      BY <3>1, <3>3, Neighbours
    <3>5. /\ LastWord(chunks[k - 1].units) \in Nat
          /\ LastWord(chunks[k - 1].units) \notin tw
      <4> DEFINE p == k - 1
      <4>1. /\ FirstWord(chunks[p].units) \in Nat /\ LastWord(chunks[p].units) \in Nat
            /\ FirstWord(chunks[p].units) <= LastWord(chunks[p].units)
            /\ FirstWord(chunks[p].units) .. LastWord(chunks[p].units) \cap tw = {}
        BY <3>1, <3>2, <3>3, ChunkFacts
      <4>2. LastWord(chunks[p].units) \in FirstWord(chunks[p].units) .. LastWord(chunks[p].units)
        BY <4>1
      <4> QED
        BY <4>1, <4>2
    <3>6. first - 1 \notin tw
      <4> HIDE DEF first, tw
      <4> QED
        BY <3>4, <3>5
    <3> HIDE DEF text
    <3> QED
      BY <1>1, <2>1, <3>6, TraceEdges
  <2> QED
    BY <2>2, <2>3
<1>4. ASSUME c.kind = "trace", other(k + 1) PROVE text[last].log
  <2>1. last \in tw
    BY <1>1, <1>4
  <2>2. CASE ~Continued(k)
    <3>1. last = Len(text)
      BY <2>2, LastOfDocument
    <3>2. last + 1 \notin tw
      <4>1. last + 1 \notin 1..Len(text)
        BY <1>1, <3>1
      <4> HIDE DEF last, text
      <4>2. ASSUME last + 1 \in tw PROVE FALSE
        BY <1>1, <4>1, <4>2, TraceEdges
      <4> QED
        BY <4>2
    <3> HIDE DEF text, last
    <3> QED
      BY <1>1, <2>1, <3>2, TraceEdges
  <2>3. CASE Continued(k)
    <3> DEFINE m == k + 1
    <3>1. /\ m \in DOMAIN chunks /\ chunks[m].doc = c.doc /\ m > 1 /\ m - 1 = k
      BY <1>1, <2>3 DEF Continued
    <3> HIDE DEF m
    <3>2. chunks[m].kind = "text"
      <4>1. chunks[m].kind # "trace"
        BY <1>4, <3>1 DEF m
      <4> QED
        BY <3>1, <4>1, ChunkFacts
    <3>3. FirstWord(chunks[m].units) = last + 1
      <4>1. chunks[m - 1].doc = chunks[m].doc /\ chunks[m - 1].kind # chunks[m].kind
        BY <1>4, <3>1, <3>2
      <4>2. FirstWord(chunks[m].units) = LastWord(chunks[m - 1].units) + 1
        BY <3>1, <4>1, Neighbours
      <4> QED
        BY <3>1, <4>2
    <3>4. /\ FirstWord(chunks[m].units) \in Nat /\ LastWord(chunks[m].units) \in Nat
          /\ FirstWord(chunks[m].units) <= LastWord(chunks[m].units)
          /\ FirstWord(chunks[m].units) .. LastWord(chunks[m].units) \cap tw = {}
      BY <3>1, <3>2, ChunkFacts
    <3>5. FirstWord(chunks[m].units) \in FirstWord(chunks[m].units) .. LastWord(chunks[m].units)
      BY <3>4
    <3>6. last + 1 \notin tw
      BY <3>3, <3>4, <3>5
    <3> HIDE DEF text, last
    <3> QED
      BY <1>1, <2>1, <3>6, TraceEdges
  <2> QED
    BY <2>2, <2>3
<1>5. ASSUME NEW i \in 1..(k - 2), ~other(i), c.kind = "trace",
             \A j \in (i + 1)..(k - 1) : other(j)
      PROVE  Length(text, [from |-> LastWord(chunks[i].units) + 1, to |-> first - 1])
               >= MinProseBetween
  <2>1. /\ i \in DOMAIN chunks /\ i <= k - 2 /\ chunks[i].doc = chunks[k].doc
        /\ chunks[i].kind = "trace"
    BY <1>1, <1>5
  <2>2. \A j \in (i + 1)..(k - 1) :
          ~(chunks[j].doc = chunks[k].doc /\ chunks[j].kind = "trace")
    BY <1>1, <1>5
  <2> QED
    BY <1>5, <2>1, <2>2, ProseBetween
<1> QED
  BY <1>2, <1>3, <1>4, <1>5 DEF TextOf

(* No row of log tokens is embedded and no prose left out, whatever the     *)
(* texts, the window and the bounds.                                        *)
THEOREM TracesStayApart == IndexSpec => []TracesAreKeptApart
<1>1. IndexSpec => []IInv /\ []TypeOK
  BY IndexImplementsExports, Invariance, TypeCorrect, PTL
<1>2. IndexInit => IndexTypes /\ CutInv /\ KindInv
  BY InitTypes, InitCut, InitKind
<1>3. /\ IInv /\ TypeOK /\ IndexTypes /\ CutInv /\ KindInv /\ [IndexNext]_<<vars, index_vars>>
      => IndexTypes' /\ CutInv' /\ KindInv'
  BY TypesStep, CutStep, KindStep
<1> QED
  BY <1>1, <1>2, <1>3, KindsKeepApart, PTL DEF IndexSpec

-----------------------------------------------------------------------------
(* The lengths of chunks *)

(* The units are as long as a chunk may be, or a word that is longer. *)
Tight(text, units) ==
    JoinedLength(text, units) <= MaxChars \/ FirstWord(units) = LastWord(units)

(* With a short tail. *)
Tailed(text, units) ==
    JoinedLength(text, units) <= MinTail + IF units[1].from = units[1].to
                                           THEN Max({MaxChars, text[FirstWord(units)].len})
                                           ELSE MaxChars

(* The units that begin a chunk and end the one before it. *)
Repeated(before, units) == {j \in DOMAIN units : units[j].to <= LastWord(before)}

Fit(cs, k, text) ==
    /\ \/ Tight(text, cs[k].units)
       \/ /\ cs[k].kind = "text" /\ Tailed(text, cs[k].units)
          /\ k < Len(cs) /\ cs[k + 1].doc = cs[k].doc => cs[k + 1].kind = "trace"
    /\ k > 1 /\ cs[k - 1].doc = cs[k].doc =>
         Cardinality(Repeated(cs[k - 1].units, cs[k].units))
           <= IF cs[k].kind = "text" THEN OverlapSentences ELSE 0

ChunksAreFit == \A k \in DOMAIN chunks : Fit(chunks, k, docs[chunks[k].doc].text)

(* The last chunk of the document so far has got a tail. *)
HasTail == /\ chunks # <<>> /\ chunks[Len(chunks)].doc = doc
           /\ ~Tight(docs[doc].text, chunks[Len(chunks)].units)

(* No prose comes right after a tail. *)
TailInv ==
    /\ HasTail => /\ phase # "prose"
                  /\ phase = "segment" /\ at <= Len(Text) => at \in TraceWords(Text)
                  /\ phase = "trace" => at = segment.from
    /\ phase = "prose" /\ segment.to < Len(Text) => segment.to + 1 \in TraceWords(Text)
    /\ phase = "prose" /\ current # <<>> => /\ Tight(Text, current)
                                            /\ Len(current) - fresh <= OverlapSentences

FitInv == ChunksAreFit /\ TailInv

(* The larger of two lengths is at least each of them. *)
LEMMA MaxOfTwo ==
  ASSUME NEW a \in Int, NEW b \in Int
  PROVE  Max({a, b}) \in Int /\ a <= Max({a, b}) /\ b <= Max({a, b})
<1>1. \E m \in {a, b} : \A x \in {a, b} : m >= x
  OBVIOUS
<1>2. Max({a, b}) \in {a, b} /\ \A x \in {a, b} : Max({a, b}) >= x
  BY <1>1 DEF Max
<1> QED
  BY <1>2

(* A part of one word is as long as the word. *)
LEMMA LengthOfWord ==
  ASSUME NEW text \in Seq(Word), NEW p \in Part, p.from = p.to, p.to <= Len(text)
  PROVE  Length(text, p) = text[p.from].len /\ Length(text, p) \in Nat
<1> DEFINE i == p.from
           f == [k \in p.from .. p.to |-> text[k].len]
<1>1. i \in Nat \ {0} /\ p.from .. p.to = {i} /\ i \in DOMAIN text /\ p.to - p.from = 0
  BY DEF Part
<1>2. text[i].len \in Nat
  <2>1. text[i] \in Word
    BY <1>1
  <2> QED
    BY <2>1 DEF Word
<1>3. DOMAIN f = {i} /\ f[i] = text[i].len /\ {i} \ {i} = {}
  BY <1>1
<1>4. Length(text, p) = SumFunctionOnSet(f, {i}) + (p.to - p.from)
  BY <1>3 DEF Length, SumFunction
<1> HIDE DEF f, i
<1>5. SumFunctionOnSet(f, {i}) = f[i] + SumFunctionOnSet(f, {i} \ {i})
  <2>1. IsFiniteSet({i}) /\ i \in {i} /\ \A x \in {i} : f[x] \in Int
    <3>1. IsFiniteSet({i})
      BY FS_Singleton
    <3>2. f[i] \in Int
      BY <1>2, <1>3
    <3> QED
      BY <3>1, <3>2
  <2> QED
    BY <2>1, SumWithout
<1>6. SumFunctionOnSet(f, {i}) = text[i].len
  <2>1. SumFunctionOnSet(f, {i} \ {i}) = 0
    BY <1>3, SumOfNone
  <2>2. f[i] = text[i].len
    BY <1>3
  <2> QED
    BY <1>2, <1>5, <2>1, <2>2
<1> QED
  BY <1>1, <1>2, <1>4, <1>6 DEF i

(* The units of a run within a text have lengths. *)
LEMMA UnitLengths ==
  ASSUME NEW text \in Seq(Word), NEW s, Run(s), LastWord(s) <= Len(text)
  PROVE  /\ s \in Seq(Part) /\ s # <<>>
         /\ \A i \in DOMAIN s : Length(text, s[i]) \in Int
<1>1. s \in Seq(Part) /\ s # <<>>
  BY DEF Run
<1>2. ASSUME NEW i \in DOMAIN s PROVE Length(text, s[i]) \in Int
  <2>1. /\ s[i].to <= LastWord(s) /\ s[i].from \in Nat \ {0} /\ s[i].to \in Nat \ {0}
        /\ s[i].from <= s[i].to
    BY RunBounds
  <2>2. LastWord(s) \in Nat /\ Len(text) \in Nat
    BY RunEnds
  <2>3. s[i].to <= Len(text) /\ s[i].from <= s[i].to + 1
    BY <2>1, <2>2
  <2> QED
    BY <2>1, <2>3, LengthType
<1> QED
  BY <1>1, <1>2

(* Units of one word are one unit. *)
LEMMA OneWord ==
  ASSUME NEW text \in Seq(Word), NEW s, Run(s), LastWord(s) <= Len(text),
         FirstWord(s) = LastWord(s)
  PROVE  /\ s[1].from = s[1].to
         /\ JoinedLength(text, s) = text[FirstWord(s)].len /\ text[FirstWord(s)].len \in Nat
<1>1. /\ Len(s) \in Nat \ {0} /\ DOMAIN s = 1..Len(s) /\ s \in Seq(Part)
      /\ 1 \in DOMAIN s /\ Len(s) \in DOMAIN s
  BY RunEnds DEF Run
<1>2. Len(s) = 1
  <2>1. s[Len(s)].from <= s[Len(s)].to /\ s[Len(s)].from \in Nat /\ s[Len(s)].to \in Nat
        /\ (Len(s) # 1 => FirstWord(s) < s[Len(s)].from) /\ FirstWord(s) \in Nat
    BY <1>1, RunBounds, RunEnds
  <2> QED
    BY <2>1 DEF LastWord
<1>3. s[1] \in Part /\ FirstWord(s) = s[1].from /\ LastWord(s) = s[1].to
  <2>1. s[1] \in Part
    BY <1>1, RunEnds
  <2> QED
    BY <1>2, <2>1 DEF FirstWord, LastWord
<1>4. Length(text, s[1]) = text[s[1].from].len /\ Length(text, s[1]) \in Nat
  <2>1. s[1].from = s[1].to /\ s[1].to <= Len(text) /\ s[1] \in Part
    BY <1>3
  <2> QED
    BY <2>1, LengthOfWord
<1>5. JoinedLength(text, s) = Length(text, s[1])
  <2>1. s \in Seq(Part) /\ Len(s) = 1 /\ Length(text, s[1]) \in Int
    BY <1>1, <1>2, <1>4
  <2> QED
    BY <2>1, JoinedOfOne
<1> QED
  BY <1>3, <1>4, <1>5

(* One unit is a chunk that is fit. *)
LEMMA TightUnit ==
  ASSUME NEW text, NEW u \in Part, Length(text, u) \in Int,
         Length(text, u) <= MaxChars \/ u.from = u.to
  PROVE  Tight(text, <<u>>)
<1>1. FirstWord(<<u>>) = u.from /\ LastWord(<<u>>) = u.to
  BY DEF FirstWord, LastWord
<1>2. JoinedLength(text, <<u>>) = Length(text, u)
  <2>1. <<u>> \in Seq(Part) /\ Len(<<u>>) = 1 /\ <<u>>[1] = u
    OBVIOUS
  <2> QED
    BY <2>1, JoinedOfOne
<1> QED
  BY <1>1, <1>2 DEF Tight

(* So is a chunk with one more unit that there is room for. *)
LEMMA TightMore ==
  ASSUME NEW text \in Seq(Word), NEW s, Run(s), LastWord(s) <= Len(text),
         NEW u \in Part, Length(text, u) \in Int,
         JoinedLength(text, s) + 1 + Length(text, u) <= MaxChars
  PROVE  Tight(text, Append(s, u))
<1>1. s \in Seq(Part) /\ s # <<>> /\ \A i \in DOMAIN s : Length(text, s[i]) \in Int
  BY UnitLengths
<1>2. /\ <<u>> \in Seq(Part) /\ <<u>> # <<>>
      /\ \A i \in DOMAIN <<u>> : Length(text, <<u>>[i]) \in Int
  OBVIOUS
<1>3. JoinedLength(text, s \o <<u>>) = JoinedLength(text, s) + 1 + JoinedLength(text, <<u>>)
  BY <1>1, <1>2, JoinedOfTwo
<1>4. JoinedLength(text, <<u>>) = Length(text, u)
  <2>1. <<u>> \in Seq(Part) /\ Len(<<u>>) = 1 /\ <<u>>[1] = u
    OBVIOUS
  <2> QED
    BY <2>1, JoinedOfOne
<1>5. Append(s, u) = s \o <<u>>
  BY <1>1
<1> QED
  BY <1>3, <1>4, <1>5 DEF Tight

(* A chunk that is fit and a short tail. *)
LEMMA TailAdded ==
  ASSUME NEW text \in Seq(Word), NEW s, Run(s), Tight(text, s),
         NEW t, Run(t), FirstWord(t) = LastWord(s) + 1, LastWord(t) <= Len(text),
         JoinedLength(text, t) < MinTail
  PROVE  Tailed(text, s \o t)
<1> DEFINE st == s \o t
           word == text[FirstWord(s)].len
           js == JoinedLength(text, s)
           jt == JoinedLength(text, t)
<1>1. LastWord(s) \in Nat /\ LastWord(t) \in Nat /\ FirstWord(t) <= LastWord(t)
  <2>1. 1 \in DOMAIN t /\ FirstWord(t) = t[1].from
    BY RunEnds DEF FirstWord
  <2>2. t[1].from <= t[1].to /\ t[1].to <= LastWord(t) /\ t[1].from \in Nat /\ t[1].to \in Nat
    BY <2>1, RunBounds
  <2>3. LastWord(s) \in Nat /\ LastWord(t) \in Nat
    BY RunEnds
  <2> QED
    BY <2>1, <2>2, <2>3
<1>2. LastWord(s) <= Len(text)
  <2>1. Len(text) \in Nat
    OBVIOUS
  <2> QED
    BY <1>1, <2>1
<1>3. JoinedLength(text, st) = js + 1 + jt /\ js \in Int /\ jt \in Int
  BY <1>2, UnitLengths, JoinedOfTwo
<1>4. FirstWord(st) = FirstWord(s) /\ st[1] = s[1]
  <2>1. s \in Seq(Part) /\ t \in Seq(Part) /\ Len(s) \in Nat \ {0}
    BY RunEnds DEF Run
  <2> QED
    BY <2>1, ConcatRun
<1>5. MinTail \in Nat /\ MaxChars \in Nat
  BY IndexAssumption, ChunkingAssumption
<1>6. CASE js <= MaxChars
  <2>1. js + 1 + jt <= MinTail + MaxChars
    BY <1>3, <1>5, <1>6
  <2>2. CASE s[1].from = s[1].to
    <3>1. FirstWord(s) \in DOMAIN text
      <4>1. 1 \in DOMAIN s /\ FirstWord(s) = s[1].from
        BY RunEnds DEF FirstWord
      <4>2. s[1].to <= LastWord(s) /\ s[1].from \in Nat \ {0} /\ s[1].to \in Nat
        BY <4>1, RunBounds
      <4> QED
        BY <1>1, <1>2, <2>2, <4>1, <4>2
    <3>2. word \in Nat
      <4>1. text[FirstWord(s)] \in Word
        BY <3>1
      <4> QED
        BY <4>1 DEF Word
    <3> HIDE DEF word
    <3>3. Max({MaxChars, word}) \in Int /\ MaxChars <= Max({MaxChars, word})
      <4>1. MaxChars \in Int /\ word \in Int
        BY <1>5, <3>2
      <4> QED
        BY <4>1, MaxOfTwo, Zenon
    <3>4. JoinedLength(text, st) <= MinTail + Max({MaxChars, word})
      BY <1>3, <1>5, <2>1, <3>3
    <3> QED
      BY <1>4, <2>2, <3>4 DEF Tailed, word
  <2>3. CASE s[1].from # s[1].to
    BY <1>3, <1>4, <2>1, <2>3 DEF Tailed
  <2> QED
    BY <2>2, <2>3
<1>7. CASE FirstWord(s) = LastWord(s)
  <2>1. s[1].from = s[1].to /\ js = word /\ word \in Nat
    BY <1>2, <1>7, OneWord
  <2> HIDE DEF word
  <2>2. Max({MaxChars, word}) \in Int /\ word <= Max({MaxChars, word})
    <3>1. MaxChars \in Int /\ word \in Int
      BY <1>5, <2>1
    <3> QED
      BY <3>1, MaxOfTwo, Zenon
  <2>3. JoinedLength(text, st) <= MinTail + Max({MaxChars, word})
    BY <1>3, <1>5, <2>1, <2>2
  <2> QED
    BY <1>4, <2>1, <2>3 DEF Tailed, word
<1> QED
  BY <1>6, <1>7 DEF Tight

(* What begins after the chunk before is not repeated. *)
LEMMA FewRepeated ==
  ASSUME NEW s, Run(s), NEW i \in DOMAIN s, NEW before, LastWord(before) + 1 = s[i].from,
         LastWord(before) \in Nat
  PROVE  /\ Cardinality(Repeated(before, s)) \in Nat
         /\ Cardinality(Repeated(before, s)) <= i - 1
<1>1. Len(s) \in Nat /\ DOMAIN s = 1..Len(s) /\ i \in Nat \ {0}
  BY RunEnds
<1>2. Repeated(before, s) \subseteq 1..(i - 1)
  <2> SUFFICES ASSUME NEW j \in DOMAIN s, j >= i PROVE ~(s[j].to <= LastWord(before))
    BY <1>1 DEF Repeated
  <2>1. /\ s[i].from \in Nat /\ s[j].from \in Nat /\ s[j].to \in Nat /\ s[j].from <= s[j].to
        /\ s[i].from <= s[i].to /\ s[i].to \in Nat
    BY RunBounds
  <2>2. j = i \/ s[i].to < s[j].from
    BY <1>1 DEF Run
  <2> QED
    BY <2>1, <2>2
<1>3. IsFiniteSet(1..(i - 1)) /\ Cardinality(1..(i - 1)) = i - 1
  <2>1. 1 <= (i - 1) + 1 /\ (i - 1) - 1 + 1 = i - 1 /\ i - 1 \in Int
    BY <1>1
  <2> QED
    BY <2>1, IntervalSize
<1> QED
  BY <1>2, <1>3, SubsetSize

(* A tail repeats nothing. *)
LEMMA TailRepeatsNothing ==
  ASSUME NEW s, Run(s), NEW t, Run(t), FirstWord(t) = LastWord(s) + 1,
         NEW before, LastWord(before) \in Nat, LastWord(before) < LastWord(s)
  PROVE  Repeated(before, s \o t) = Repeated(before, s)
<1> DEFINE m == Len(s)
           n == Len(t)
           st == s \o t
<1>1. /\ m \in Nat \ {0} /\ n \in Nat \ {0} /\ DOMAIN s = 1..m /\ DOMAIN t = 1..n
      /\ s \in Seq(Part) /\ t \in Seq(Part)
  BY RunEnds DEF Run
<1>2. /\ DOMAIN st = 1..(m + n)
      /\ \A i \in 1..m : st[i] = s[i]
      /\ \A i \in (m + 1)..(m + n) : st[i] = t[i - m] /\ i - m \in 1..n
  BY <1>1
<1>3. \A i \in 1..n : ~(t[i].to <= LastWord(before))
  <2> SUFFICES ASSUME NEW i \in 1..n PROVE ~(t[i].to <= LastWord(before))
    OBVIOUS
  <2>1. /\ FirstWord(t) <= t[i].from /\ t[i].from <= t[i].to
        /\ t[i].from \in Nat /\ t[i].to \in Nat
    BY <1>1, RunBounds
  <2>2. LastWord(s) \in Nat
    BY RunEnds
  <2> QED
    BY <2>1, <2>2
<1> HIDE DEF st, m, n
<1>4. \A i \in 1..(m + n) : i \in 1..m \/ i \in (m + 1)..(m + n)
  BY <1>1
<1>5. Repeated(before, st) = Repeated(before, s)
  BY <1>1, <1>2, <1>3, <1>4 DEF Repeated
<1> QED
  BY <1>5 DEF st

(* No chunk is there before the first. *)
LEMMA InitFit == IndexInit => FitInv
BY DEF IndexInit, FitInv, ChunksAreFit, TailInv, HasTail

(* A chunk that is added is fit, and so are those before it. *)
LEMMA FitAdded ==
  ASSUME IndexTypes, FitInv, NEW kind \in {"text", "trace"}, NEW units, Run(units),
         Tight(Text, units), HasTail => kind = "trace",
         chunks # <<>> /\ chunks[Len(chunks)].doc = doc
           => Cardinality(Repeated(chunks[Len(chunks)].units, units))
                <= IF kind = "text" THEN OverlapSentences ELSE 0,
         chunks' = Chunked(kind, units), docs' = docs, doc' = doc
  PROVE  ChunksAreFit' /\ ~HasTail'
<1> DEFINE c == [id |-> Len(chunks) + 1, doc |-> doc, kind |-> kind, units |-> units]
           n == Len(chunks)
           text(k) == docs[chunks'[k].doc].text
<1>1. n \in Nat /\ chunks \in Seq(Chunk) /\ DOMAIN chunks = 1..n /\ (chunks # <<>> <=> n > 0)
  BY DocTypes
<1>2. chunks' = Append(chunks, c)
  BY DEF Chunked
<1>3. c \in Chunk /\ c.doc = doc /\ c.kind = kind /\ c.units = units
  <2>1. doc \in Nat \ {0} /\ units \in Seq(Part)
    BY DocTypes DEF Run
  <2> QED
    BY <1>1, <2>1 DEF Chunk
<1> HIDE DEF c
<1>4. /\ Len(chunks') = n + 1 /\ DOMAIN chunks' = 1..(n + 1) /\ chunks'[n + 1] = c
      /\ \A k \in 1..n : chunks'[k] = chunks[k]
  BY <1>1, <1>2, <1>3
<1>5. ASSUME NEW k \in 1..n PROVE Fit(chunks', k, text(k))
  <2>1. chunks'[k] = chunks[k] /\ (k > 1 => chunks'[k - 1] = chunks[k - 1])
    BY <1>1, <1>4
  <2>2. Fit(chunks, k, text(k))
    BY <1>1, <2>1 DEF FitInv, ChunksAreFit
  <2>3. CASE Tight(text(k), chunks[k].units)
    BY <2>1, <2>2, <2>3 DEF Fit
  <2>4. CASE ~Tight(text(k), chunks[k].units) /\ k < n
    <3>1. chunks'[k + 1] = chunks[k + 1] /\ k < n + 1
      BY <1>1, <1>4, <2>4
    <3> QED
      BY <1>4, <2>1, <2>2, <2>4, <3>1 DEF Fit
  <2>5. CASE ~Tight(text(k), chunks[k].units) /\ k = n
    <3>1. chunks[n].doc = doc => kind = "trace"
      BY <1>1, <2>1, <2>5 DEF HasTail
    <3> QED
      BY <1>3, <1>4, <2>1, <2>2, <2>5, <3>1 DEF Fit
  <2>6. k < n \/ k = n
    <3>1. n \in Nat
      BY <1>1
    <3> HIDE DEF n
    <3> QED
      BY <3>1
  <2> QED
    BY <2>3, <2>4, <2>5, <2>6
<1>6. text(n + 1) = Text
  BY <1>3, <1>4 DEF Text
<1>7. Fit(chunks', n + 1, Text)
  <2>1. Tight(Text, chunks'[n + 1].units)
    BY <1>3, <1>4
  <2>2. ASSUME n + 1 > 1, chunks'[(n + 1) - 1].doc = chunks'[n + 1].doc
        PROVE  Cardinality(Repeated(chunks'[(n + 1) - 1].units, chunks'[n + 1].units))
                 <= IF chunks'[n + 1].kind = "text" THEN OverlapSentences ELSE 0
    <3>1. (n + 1) - 1 = n /\ n \in 1..n /\ chunks # <<>>
      BY <1>1, <2>2
    <3>2. chunks[n].doc = doc
      BY <1>3, <1>4, <2>2, <3>1
    <3> QED
      BY <1>3, <1>4, <3>1, <3>2
  <2> QED
    BY <2>1, <2>2 DEF Fit
<1>8. \A k \in DOMAIN chunks' : Fit(chunks', k, docs'[chunks'[k].doc].text)
  <2> SUFFICES ASSUME NEW k \in 1..(n + 1) PROVE Fit(chunks', k, text(k))
    BY <1>4
  <2>1. k \in 1..n \/ k = n + 1
    BY <1>1
  <2> QED
    BY <1>5, <1>6, <1>7, <2>1
<1>9. ~HasTail'
  BY <1>3, <1>4 DEF HasTail, Text
<1> QED
  BY <1>8, <1>9 DEF ChunksAreFit

(* A tail that joins a chunk that has none leaves it fit. *)
LEMMA FitJoined ==
  ASSUME IndexTypes, CutInv, FitInv, chunks # <<>>, chunks[Len(chunks)].doc = doc,
         chunks[Len(chunks)].kind = "text", Tight(Text, chunks[Len(chunks)].units),
         doc <= Len(docs), NEW t, Run(t), LastWord(t) <= Len(Text),
         FirstWord(t) = LastWord(chunks[Len(chunks)].units) + 1,
         JoinedLength(Text, t) < MinTail,
         chunks' = [chunks EXCEPT ![Len(chunks)].units = @ \o t], docs' = docs
  PROVE  ChunksAreFit'
<1> DEFINE n == Len(chunks)
           last == chunks[n]
<1>1. /\ n \in Nat \ {0} /\ chunks \in Seq(Chunk) /\ DOMAIN chunks = 1..n /\ last \in Chunk
      /\ n \in 1..n /\ Text \in Seq(Word)
  BY DocTypes
<1>2. /\ Len(chunks') = n /\ DOMAIN chunks' = 1..n
      /\ \A k \in 1..n : k # n => chunks'[k] = chunks[k]
      /\ chunks'[n].doc = doc /\ chunks'[n].kind = "text"
      /\ chunks'[n].units = last.units \o t
  BY <1>1 DEF Chunk
<1>3. Run(last.units) /\ ChunksOk(chunks, doc)
  BY <1>1 DEF CutInv, ChunksOk
<1> HIDE DEF n, last
<1>4. /\ last.doc = doc /\ last.kind = "text" /\ Tight(Text, last.units)
      /\ FirstWord(t) = LastWord(last.units) + 1 /\ last = chunks[n]
  BY DEF last, n
<1>5. Tailed(Text, last.units \o t)
  BY <1>1, <1>3, <1>4, TailAdded
<1>6. ASSUME NEW k \in 1..n, k # n PROVE Fit(chunks', k, docs[chunks'[k].doc].text)
  <2>1. chunks'[k] = chunks[k] /\ (k > 1 => chunks'[k - 1] = chunks[k - 1])
    BY <1>1, <1>2, <1>6
  <2>2. Fit(chunks, k, docs[chunks[k].doc].text)
    BY <1>1 DEF FitInv, ChunksAreFit
  <2>3. chunks'[k + 1].doc = chunks[k + 1].doc /\ chunks'[k + 1].kind = chunks[k + 1].kind
    <3>1. CASE k + 1 = n
      BY <1>2, <1>4, <3>1
    <3>2. CASE k + 1 # n
      BY <1>1, <1>2, <1>6, <3>2
    <3> QED
      BY <3>1, <3>2
  <2> QED
    BY <1>2, <2>1, <2>2, <2>3 DEF Fit, n
<1>7. Fit(chunks', n, docs[chunks'[n].doc].text)
  <2>1. docs[chunks'[n].doc].text = Text /\ ~(n < Len(chunks'))
    BY <1>1, <1>2 DEF Text
  <2>2. ASSUME n > 1, chunks'[n - 1].doc = chunks'[n].doc
        PROVE  Cardinality(Repeated(chunks'[n - 1].units, chunks'[n].units)) <= OverlapSentences
    <3>1. chunks'[n - 1] = chunks[n - 1] /\ n - 1 \in 1..n
      BY <1>1, <1>2, <2>2
    <3>2. chunks[n - 1].doc = last.doc
      BY <1>2, <1>4, <2>2, <3>1
    <3>3. Fit(chunks, n, docs[last.doc].text)
      BY <1>1, <1>4 DEF FitInv, ChunksAreFit
    <3>4. Cardinality(Repeated(chunks[n - 1].units, last.units)) <= OverlapSentences
      BY <1>4, <2>2, <3>2, <3>3 DEF Fit
    <3>5. LastWord(chunks[n - 1].units) < LastWord(last.units)
      BY <1>1, <1>3, <1>4, <2>2, <3>2 DEF ChunksOk
    <3>6. LastWord(chunks[n - 1].units) \in Nat
      BY <1>1, <1>3, <3>1, RunEnds DEF ChunksOk
    <3>7. Repeated(chunks[n - 1].units, last.units \o t) = Repeated(chunks[n - 1].units, last.units)
      BY <1>3, <1>4, <3>5, <3>6, TailRepeatsNothing
    <3> QED
      BY <1>2, <3>1, <3>4, <3>7
  <2> QED
    BY <1>2, <1>5, <2>1, <2>2 DEF Fit
<1> QED
  BY <1>2, <1>6, <1>7 DEF ChunksAreFit

(* Of one word or no longer than a chunk. *)
LEMMA UnitFits ==
  ASSUME NEW text, NEW p, NEW u, IsUnit(text, p, u)
  PROVE  Length(text, u) <= MaxChars \/ u.from = u.to
BY DEF IsUnit, IsHardPart

(* The overlap is short, and it is dropped when there is no room for it. *)
LEMMA OverlapFits ==
  ASSUME current \in Seq(Part), NEW u
  PROVE  /\ Overlap(u) \in Seq(Part) /\ Len(Overlap(u)) <= OverlapSentences
         /\ Overlap(u) # <<>> => Fits(Overlap(u), u)
<1>1. OverlapSentences \in Nat /\ Len(current) \in Nat
  BY IndexAssumption
<1>2. CASE Overlap(u) = <<>>
  BY <1>1, <1>2
<1>3. CASE Overlap(u) # <<>> /\ OverlapSentences < Len(current)
  <2>1. Overlap(u) = Suffix(current, OverlapSentences) /\ Fits(Overlap(u), u)
    BY <1>3 DEF Overlap
  <2>2. OverlapSentences \in 0..Len(current)
    BY <1>1, <1>3
  <2> QED
    BY <1>1, <2>1, <2>2, SuffixType
<1>4. CASE Overlap(u) # <<>> /\ ~(OverlapSentences < Len(current))
  <2>1. Overlap(u) = current /\ Fits(Overlap(u), u)
    BY <1>4 DEF Overlap
  <2> QED
    BY <1>1, <1>4, <2>1
<1> QED
  BY <1>2, <1>3, <1>4

(* What of the current chunk the last one ends with is the overlap. *)
LEMMA CurrentRepeats ==
  ASSUME IndexTypes, CutInv, FitInv, phase = "prose", current # <<>>,
         chunks # <<>> /\ chunks[Len(chunks)].doc = doc
  PROVE  Cardinality(Repeated(chunks[Len(chunks)].units, current)) <= OverlapSentences
<1> DEFINE last == chunks[Len(chunks)].units
           i == Len(current) - fresh + 1
<1>1. Packing /\ Len(current) - fresh <= OverlapSentences
  BY DEF CutInv, WhereInv, FitInv, TailInv
<1>2. /\ Run(current) /\ fresh \in 1..Len(current) /\ Reaches(chunks, doc, current[i].from)
      /\ current[i].from \in Nat \ {0}
  BY <1>1, FreshWord
<1>3. Len(current) \in Nat /\ DOMAIN current = 1..Len(current)
  BY <1>2, RunEnds
<1>4. i \in DOMAIN current /\ i - 1 = Len(current) - fresh
  BY <1>2, <1>3
<1> HIDE DEF i
<1>5. LastWord(last) + 1 = current[i].from
  BY <1>2 DEF Reaches
<1>6. LastWord(last) \in Nat
  <2>1. Len(chunks) \in DOMAIN chunks
    BY DocTypes
  <2>2. Run(last)
    BY <2>1 DEF CutInv, ChunksOk
  <2> QED
    BY <2>2, RunEnds
<1> HIDE DEF last
<1>7. /\ Cardinality(Repeated(last, current)) \in Nat
      /\ Cardinality(Repeated(last, current)) <= i - 1
  BY <1>2, <1>4, <1>5, <1>6, FewRepeated
<1>8. OverlapSentences \in Nat /\ i - 1 \in Int /\ i - 1 <= OverlapSentences
  BY <1>1, <1>2, <1>3, <1>4, IndexAssumption
<1> QED
  BY <1>7, <1>8 DEF last

(* The current chunk is within its text. *)
LEMMA CurrentWithin ==
  ASSUME IndexTypes, CutInv, phase = "prose", current # <<>>
  PROVE  /\ Run(current) /\ LastWord(current) + 1 = at /\ LastWord(current) \in Nat
         /\ LastWord(current) <= Len(Text) /\ fresh \in 1..Len(current)
<1>1. /\ Packing /\ at <= segment.to + 1 /\ doc <= Len(docs) /\ segment.to <= Len(Text)
  BY DEF CutInv, WhereInv
<1>2. Run(current) /\ LastWord(current) + 1 = at /\ fresh \in 1..Len(current)
  BY <1>1, FreshWord
<1>3. LastWord(current) \in Nat
  BY <1>2, RunEnds
<1> QED
  BY <1>1, <1>2, <1>3, DocTypes DEF Part

(* A unit goes to a chunk with room for it, or begins the next one. *)
LEMMA PackFit ==
  ASSUME IndexTypes, CutInv, FitInv, Pack
  PROVE  FitInv'
<1>1. PICK u \in [from : {at}, to : at .. segment.to] :
        at' = u.to + 1 /\ IsUnit(Text, Rest, u) /\ (PackMore(u) \/ PackFull(u))
  BY PackCases
<1>2. /\ phase = "prose" /\ phase' = "prose" /\ doc' = doc /\ docs' = docs /\ Text' = Text
      /\ segment' = segment
  BY DEF Pack, Text
<1>3. /\ doc <= Len(docs) /\ segment.to <= Len(Text) /\ ~HasTail
      /\ segment.to < Len(Text) => segment.to + 1 \in TraceWords(Text)
      /\ current # <<>> => Tight(Text, current) /\ Len(current) - fresh <= OverlapSentences
      /\ ChunksAreFit
  BY <1>2 DEF CutInv, WhereInv, FitInv, TailInv
<1>4. /\ Text \in Seq(Word) /\ Len(Text) \in Nat /\ current \in Seq(Part) /\ segment.to \in Nat
      /\ OverlapSentences \in Nat
  BY <1>3, DocTypes, IndexAssumption DEF Part
<1>5. u \in Part /\ Length(Text, u) \in Int /\ Tight(Text, <<u>>)
  <2>1. u \in Part /\ u.from = at /\ u.from <= u.to /\ u.to <= segment.to
    BY NextPart DEF IndexTypes
  <2>2. u.from \in Nat \ {0} /\ u.to \in Nat /\ u.to <= Len(Text) /\ u.from <= u.to + 1
    BY <1>3, <1>4, <2>1 DEF Part
  <2>3. Length(Text, u) \in Int
    BY <1>4, <2>2, LengthType
  <2>4. Length(Text, u) <= MaxChars \/ u.from = u.to
    BY <1>1, UnitFits
  <2> QED
    BY <2>1, <2>3, <2>4, TightUnit
<1>6. SUFFICES ChunksAreFit' /\ ~HasTail' /\ Tight(Text, current')
               /\ Len(current') - fresh' <= OverlapSentences
  BY <1>2, <1>3 DEF FitInv, TailInv
<1>7. CASE PackMore(u)
  <2>1. /\ UNCHANGED <<chunks, packed>> /\ current' = Append(current, u) /\ fresh' = fresh + 1
        /\ current = <<>> \/ Fits(current, u)
    BY <1>7 DEF PackMore
  <2>2. ChunksAreFit' /\ ~HasTail'
    BY <1>2, <1>3, <2>1 DEF ChunksAreFit, HasTail
  <2>3. CASE current = <<>>
    <3>1. current' = <<u>> /\ fresh' = 1
      BY <1>5, <2>1, <2>3 DEF IndexTypes, PackTypes
    <3>2. Len(current') = 1
      BY <3>1
    <3> QED
      BY <1>4, <1>5, <2>2, <3>1, <3>2
  <2>4. CASE current # <<>>
    <3>1. Run(current) /\ LastWord(current) <= Len(Text) /\ fresh \in 1..Len(current)
      BY <1>2, <2>4, CurrentWithin
    <3>2. JoinedLength(Text, current) + 1 + Length(Text, u) <= MaxChars
      BY <2>1, <2>4 DEF Fits
    <3>3. Tight(Text, Append(current, u))
      BY <1>4, <1>5, <3>1, <3>2, TightMore
    <3>4. Len(current') = Len(current) + 1 /\ Len(current) \in Nat
      BY <1>4, <1>5, <2>1
    <3>5. Len(current') - fresh' <= OverlapSentences
      BY <1>3, <2>1, <2>4, <3>1, <3>4
    <3> QED
      BY <2>1, <2>2, <3>3, <3>5
  <2> QED
    BY <2>3, <2>4
<1>8. CASE PackFull(u)
  <2>1. /\ current # <<>> /\ chunks' = Chunked("text", current)
        /\ current' = Append(Overlap(u), u) /\ fresh' = 1
    BY <1>8 DEF PackFull
  <2>2. Run(current) /\ LastWord(current) <= Len(Text)
    BY <1>2, <2>1, CurrentWithin
  <2>3. ChunksAreFit' /\ ~HasTail'
    <3>1. chunks # <<>> /\ chunks[Len(chunks)].doc = doc
            => Cardinality(Repeated(chunks[Len(chunks)].units, current)) <= OverlapSentences
      BY <1>2, <2>1, CurrentRepeats
    <3> QED
      BY <1>2, <1>3, <2>1, <2>2, <3>1, FitAdded
  <2>4. /\ Overlap(u) \in Seq(Part) /\ Len(Overlap(u)) <= OverlapSentences
        /\ Overlap(u) # <<>> => Fits(Overlap(u), u)
    BY <1>4, OverlapFits
  <2>5. Len(current') - fresh' <= OverlapSentences
    <3>1. Len(current') = Len(Overlap(u)) + 1 /\ Len(Overlap(u)) \in Nat
      BY <1>5, <2>1, <2>4
    <3> QED
      BY <1>4, <2>1, <2>4, <3>1
  <2>6. Tight(Text, current')
    <3>1. CASE Overlap(u) = <<>>
      <4>1. current' = <<u>>
        BY <1>5, <2>1, <3>1
      <4> QED
        BY <1>5, <4>1
    <3>2. CASE Overlap(u) # <<>>
      <4>1. PICK n \in 0..Len(current) : Overlap(u) = Suffix(current, n)
        BY <1>4, OverlapIsSuffix
      <4>2. n # 0
        BY <1>4, <3>2, <4>1, SuffixType
      <4>3. n \in 1..Len(current)
        BY <1>4, <4>1, <4>2
      <4>4. Run(Overlap(u)) /\ LastWord(Overlap(u)) = LastWord(current)
        BY <2>2, <4>1, <4>3, SuffixRun
      <4>5. JoinedLength(Text, Overlap(u)) + 1 + Length(Text, u) <= MaxChars
        BY <2>4, <3>2 DEF Fits
      <4>6. Tight(Text, Append(Overlap(u), u))
        BY <1>4, <1>5, <2>2, <4>4, <4>5, TightMore
      <4> QED
        BY <2>1, <4>6
    <3> QED
      BY <3>1, <3>2
  <2> QED
    BY <2>3, <2>5, <2>6
<1> QED
  BY <1>1, <1>7, <1>8

(* The last chunk of some prose is added, or its short tail joined. *)
LEMMA EndProseFit ==
  ASSUME IndexTypes, CutInv, KindInv, FitInv, EndProse
  PROVE  FitInv'
<1> DEFINE tail == Suffix(current, fresh)
           last == chunks[Len(chunks)]
           w == current[Len(current) - fresh + 1].from
<1>1. /\ phase = "prose" /\ phase' = "segment" /\ at > segment.to /\ at' = at
      /\ docs' = docs /\ doc' = doc /\ Text' = Text
      /\ chunks' = IF packed > 0 /\ JoinedLength(Text, tail) < MinTail
                   THEN [chunks EXCEPT ![Len(chunks)].units = @ \o tail]
                   ELSE Chunked("text", current)
  BY DEF EndProse, Text
<1>2. /\ Packing /\ at <= segment.to + 1 /\ segment.from <= segment.to
      /\ doc <= Len(docs) /\ ~HasTail
      /\ segment.to < Len(Text) => segment.to + 1 \in TraceWords(Text)
      /\ current # <<>> => Tight(Text, current)
      /\ packed > 0 => last.kind = "text"
  BY <1>1 DEF CutInv, WhereInv, KindInv, SegmentKind, FitInv, TailInv
<1>3. segment.from \in Nat /\ segment.to \in Nat /\ at \in Nat
  BY DocTypes DEF Part
<1>4. current # <<>>
  <2>1. at # segment.from
    BY <1>1, <1>2, <1>3
  <2> QED
    BY <1>2, <2>1 DEF Packing, Run
<1>5. /\ Run(current) /\ LastWord(current) <= Len(Text)
      /\ fresh \in 1..Len(current)
  BY <1>1, <1>4, CurrentWithin
<1>6. ChunksAreFit'
  <2>1. CASE chunks' = Chunked("text", current)
    <3>1. chunks # <<>> /\ last.doc = doc
            => Cardinality(Repeated(last.units, current)) <= OverlapSentences
      BY <1>1, <1>4, CurrentRepeats
    <3> QED
      BY <1>1, <1>2, <1>4, <1>5, <2>1, <3>1, FitAdded
  <2>2. CASE /\ packed > 0 /\ JoinedLength(Text, tail) < MinTail
             /\ chunks' = [chunks EXCEPT ![Len(chunks)].units = @ \o tail]
    <3>1. Reaches(chunks, doc, w) /\ w # 1
      BY <1>2, <1>4, <2>2, FreshWord
    <3>2. chunks # <<>> /\ last.doc = doc /\ LastWord(last.units) + 1 = w
      BY <3>1 DEF Reaches
    <3>3. Run(tail) /\ LastWord(tail) = LastWord(current) /\ FirstWord(tail) = w
      BY <1>5, SuffixRun
    <3>4. Tight(Text, last.units)
      BY <1>2, <3>2 DEF HasTail, Text
    <3>5. last.kind = "text"
      BY <1>2, <2>2
    <3>6. FirstWord(tail) = LastWord(last.units) + 1 /\ LastWord(tail) <= Len(Text)
      BY <1>5, <3>2, <3>3
    <3> HIDE DEF tail
    <3> QED
      BY <1>1, <1>2, <2>2, <3>2, <3>3, <3>4, <3>5, <3>6, FitJoined
  <2> QED
    BY <1>1, <2>1, <2>2
<1>7. at <= Len(Text) => at \in TraceWords(Text)
  <2>1. at = segment.to + 1
    BY <1>1, <1>2, <1>3
  <2>2. Len(Text) \in Nat
    BY <1>2, DocTypes
  <2> QED
    BY <1>2, <1>3, <2>1, <2>2
<1> QED
  BY <1>1, <1>6, <1>7 DEF FitInv, TailInv

(* The chunks of a trace have one unit each. *)
LEMMA CutTraceFit ==
  ASSUME IndexTypes, CutInv, FitInv, CutTrace
  PROVE  FitInv'
<1>1. PICK p \in [from : {at}, to : at .. segment.to] :
        IsHardPart(Text, Rest, p) /\ chunks' = Chunked("trace", <<p>>) /\ at' = p.to + 1
  BY DEF CutTrace
<1>2. /\ p \in Part /\ p.from = at /\ p.from <= p.to /\ p.to <= segment.to
      /\ Run(<<p>>) /\ FirstWord(<<p>>) = at /\ LastWord(<<p>>) = p.to
      /\ p.from \in Nat \ {0} /\ p.to \in Nat
  <2>1. p \in Part /\ p.from = at /\ p.from <= p.to /\ p.to <= segment.to
    BY NextPart DEF IndexTypes
  <2>2. p.from \in Nat \ {0} /\ p.to \in Nat
    BY <2>1 DEF Part
  <2> QED
    BY <2>1, <2>2, RunOfOne
<1>3. phase = "trace" /\ phase' = "trace" /\ docs' = docs /\ doc' = doc
  BY DEF CutTrace
<1>4. Reaches(chunks, doc, at) /\ doc <= Len(docs) /\ segment.to <= Len(Text)
  BY <1>3 DEF CutInv, WhereInv
<1>5. Tight(Text, <<p>>)
  <2>1. Text \in Seq(Word) /\ p.to <= Len(Text) /\ p.from <= p.to + 1
    BY <1>2, <1>4, DocTypes DEF Part
  <2>2. Length(Text, p) \in Int
    BY <1>2, <2>1, LengthType
  <2>3. Length(Text, p) <= MaxChars \/ p.from = p.to
    BY <1>1 DEF IsHardPart
  <2> QED
    BY <1>2, <2>2, <2>3, TightUnit
<1>6. ASSUME chunks # <<>> /\ chunks[Len(chunks)].doc = doc
      PROVE  Cardinality(Repeated(chunks[Len(chunks)].units, <<p>>)) <= 0
  <2> DEFINE last == chunks[Len(chunks)].units
  <2>1. LastWord(last) + 1 = at
    BY <1>4, <1>6 DEF Reaches
  <2>2. LastWord(last) \in Nat
    <3>1. Len(chunks) \in DOMAIN chunks
      BY <1>6, DocTypes
    <3>2. Run(last)
      BY <3>1 DEF CutInv, ChunksOk
    <3> QED
      BY <3>2, RunEnds
  <2> HIDE DEF last
  <2> DEFINE s == <<p>>
  <2>3. 1 \in DOMAIN s /\ s[1].from = at
    BY <1>2
  <2>4. Run(s)
    BY <1>2
  <2> HIDE DEF s
  <2>5. Cardinality(Repeated(last, s)) \in Nat /\ Cardinality(Repeated(last, s)) <= 1 - 1
    BY <2>1, <2>2, <2>3, <2>4, FewRepeated
  <2>6. Cardinality(Repeated(last, s)) <= 0
    BY <2>5
  <2> QED
    BY <2>6 DEF last, s
<1>7. ChunksAreFit' /\ ~HasTail'
  BY <1>1, <1>2, <1>3, <1>5, <1>6, FitAdded
<1> QED
  BY <1>3, <1>7 DEF FitInv, TailInv

(* Every step keeps the chunks fit. *)
LEMMA FitStep ==
  ASSUME IndexTypes, CutInv, KindInv, FitInv, [IndexNext]_<<vars, index_vars>>
  PROVE  FitInv'
<1>1. CASE UNCHANGED index_vars
  BY <1>1 DEF index_vars, pack_vars, FitInv, ChunksAreFit, TailInv, HasTail, Text
<1>2. CASE ListDocuments
  <2>1. chunks' = <<>> /\ phase' = "segment"
    BY <1>2 DEF ListDocuments, CutInv, WhereInv
  <2> QED
    BY <2>1 DEF FitInv, ChunksAreFit, TailInv, HasTail
<1>3. CASE StartSegment
  <2>1. /\ phase = "segment" /\ at <= Len(Text) /\ doc <= Len(docs)
        /\ phase' = IF at \in TraceWords(Text) THEN "trace" ELSE "prose"
        /\ segment' \in Runs(Text, TraceWords(Text)) /\ segment'.from = at
        /\ current' = <<>> /\ UNCHANGED <<docs, doc, at, chunks>>
    BY <1>3 DEF StartSegment
  <2>2. HasTail' = HasTail /\ Text' = Text /\ ChunksAreFit'
    BY <2>1 DEF HasTail, Text, FitInv, ChunksAreFit
  <2>3. HasTail => at \in TraceWords(Text)
    BY <2>1 DEF FitInv, TailInv
  <2>4. ASSUME at \notin TraceWords(Text), segment'.to < Len(Text)
        PROVE  segment'.to + 1 \in TraceWords(Text)
    <3>1. /\ segment'.from <= segment'.to /\ segment'.from \in DOMAIN Text
          /\ segment'.to \in DOMAIN Text
          /\ \/ segment'.from .. segment'.to \subseteq TraceWords(Text)
             \/ segment'.from .. segment'.to \cap TraceWords(Text) = {}
          /\ segment'.to + 1 \in TraceWords(Text) <=> segment'.to \notin TraceWords(Text)
      BY <2>1, <2>4 DEF Runs
    <3>2. segment'.from \in Nat /\ segment'.to \in Nat
      BY <2>1, <3>1, DocTypes
    <3>3. at \in segment'.from .. segment'.to /\ segment'.to \in segment'.from .. segment'.to
      BY <2>1, <3>1, <3>2
    <3> QED
      BY <2>4, <3>1, <3>3
  <2>5. TailInv'
    BY <2>1, <2>2, <2>3, <2>4 DEF TailInv
  <2> QED
    BY <2>2, <2>5 DEF FitInv
<1>4. CASE EndTrace
  <2>1. /\ phase = "trace" /\ at > segment.to /\ phase' = "segment"
        /\ UNCHANGED <<docs, doc, at, chunks>>
    BY <1>4 DEF EndTrace
  <2>2. segment.from <= segment.to /\ (HasTail => at = segment.from)
    BY <2>1 DEF CutInv, WhereInv, FitInv, TailInv
  <2>3. ~HasTail
    BY <2>1, <2>2, DocTypes DEF Part
  <2> QED
    BY <2>1, <2>3 DEF FitInv, ChunksAreFit, TailInv, HasTail
<1>5. CASE NextDocument
  <2>1. phase' = "segment" /\ doc' = doc + 1 /\ UNCHANGED <<docs, chunks>>
    BY <1>5 DEF NextDocument
  <2>2. ASSUME chunks # <<>> PROVE chunks[Len(chunks)].doc # doc + 1
    <3>1. Len(chunks) \in DOMAIN chunks /\ doc \in Nat
      BY <2>2, DocTypes
    <3>2. chunks[Len(chunks)].doc <= doc
      BY <3>1 DEF CutInv, ChunksOk
    <3> QED
      BY <3>1, <3>2
  <2>3. ~HasTail'
    BY <2>1, <2>2 DEF HasTail
  <2> QED
    BY <2>1, <2>3 DEF FitInv, ChunksAreFit, TailInv
<1>6. CASE ChunksBuilt \/ Embed \/ EmbedWrongly \/ Embedded
  <2>1. phase' \notin {"segment", "trace", "prose"} /\ UNCHANGED <<docs, chunks>>
    BY <1>6 DEF ChunksBuilt, Embed, EmbedWrongly, Embedded
  <2> QED
    BY <2>1 DEF FitInv, ChunksAreFit, TailInv
<1> QED
  BY <1>1, <1>2, <1>3, <1>4, <1>5, <1>6, PackFit, EndProseFit, CutTraceFit
     DEF IndexNext, Indexing, IndexDone

(* A fit chunk is as long, and repeats as much, as its kind allows. *)
LEMMA FitsAll == FitInv => ChunksFit
BY DEF FitInv, ChunksAreFit, Fit, Tight, Tailed, Repeated, ChunksFit, TextOf, Continues, Continued

(* However sentences, words and bounds fall, no chunk is too long for what  *)
(* it is made of, and none repeats more than the overlap.                   *)
THEOREM ChunksStayFit == IndexSpec => []ChunksFit
<1>1. IndexSpec => []IInv /\ []TypeOK
  BY IndexImplementsExports, Invariance, TypeCorrect, PTL
<1>2. IndexInit => IndexTypes /\ CutInv /\ KindInv /\ FitInv
  BY InitTypes, InitCut, InitKind, InitFit
<1>3. /\ IInv /\ TypeOK /\ IndexTypes /\ CutInv /\ KindInv /\ FitInv
      /\ [IndexNext]_<<vars, index_vars>>
      => IndexTypes' /\ CutInv' /\ KindInv' /\ FitInv'
  BY TypesStep, CutStep, KindStep, FitStep
<1> QED
  BY <1>1, <1>2, <1>3, FitsAll, PTL DEF IndexSpec
=============================================================================
