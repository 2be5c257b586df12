------------------------------- MODULE Exports -------------------------------
(***************************************************************************)
(* What blast_radius/ingest.py makes of the two exports: the asset file,   *)
(* which lists hosts and their detections, and the vulns file, whose rows  *)
(* explain detections one by one, each with a copy of its host's record.   *)
(* The vulns rows are gone through three times (join, CVEs, QID fields)    *)
(* and each pass may stop at a row; pairs and QIDs follow at once.         *)
(***************************************************************************)
EXTENDS Naturals, Sequences

CONSTANTS Hosts, Bodies,              \* host ids, and what else a record says
          DetectionIds, Qids, Dates,
          Cves, Writeups, Untitled,   \* what a row says of its CVE; no title
          Fields, Broken,             \* what a row says of its QID; no write-up
          Missing, Null,              \* a cve_id that is absent, or null
          None,
          Inputs                      \* pairs of exports

Detection == [id : DetectionIds, qid : Qids, found : Dates]

(* A record that is not sound lacks something that normalising it needs.    *)
Record == [id : Hosts, body : Bodies, detections : Seq(Detection), sound : BOOLEAN]

(* "lacks" is the part of a row that is malformed: what the join compares,  *)
(* what parse_cve reads, or a QID-level field.  Fields that are there may   *)
(* still hold what is no text or number: those are Broken.                  *)
Row == [asset : Record \cup {None}, detection : DetectionIds, qid : Qids,
        found : Dates, cve : Cves \cup {Missing, Null}, writeup : Writeups,
        fields : Fields, lacks : {"nothing", "join", "cve", "fields"}]

ASSUME InputsAssumption ==
    /\ Inputs \subseteq [assets : Seq(Record), vulns : Seq(Row)]
    /\ \A input \in Inputs : \A n \in DOMAIN input.vulns : input.vulns[n].asset # None
ASSUME ValuesAssumption ==
    /\ Missing # Null /\ {Missing, Null} \cap Cves = {}
    /\ Untitled \subseteq Writeups /\ Broken \subseteq Fields
    /\ None \notin Writeups \cup Record

Failure == [error : {"IngestError", "JoinValidationError", "bare"}, row : Nat]

ASSUME FailureAssumption == None \notin Failure

VARIABLES
    input,      \* the two files
    vulns,      \* the vulns rows in memory
    stage,      \* the pass that is running, "written" or "failed"
    row,        \* the vulns row it is at
    hosts,      \* _Inventory.hosts: the id of each record
    detections, \* _Inventory.detections: by record and position in it
    cves,       \* _collect_cves: write-up by CVE
    fields,     \* _collect_qid_fields: fields by QID ...
    warnings,   \* ... and the row at which a QID's rows first disagreed
    pairs,      \* _Corpus.qid_cves
    qids,       \* _Corpus.qids
    failure     \* the exception: [error, row], or None

vars == <<input, vulns, stage, row, hosts, detections, cves, fields, warnings, pairs,
          qids, failure>>

assets == input.assets

(* Where records list detections: record and position. *)
PlacesIn(records) ==
    UNION {{<<i, k>> : k \in DOMAIN records[i].detections} : i \in DOMAIN records}

Places == PlacesIn(assets)

At(p) == assets[p[1]].detections[p[2]]

(* d[k] = v, on a dict *)
With(d, k, v) == [x \in DOMAIN d \cup {k} |-> IF x = k THEN v ELSE d[x]]

Empty == [x \in {} |-> None]

QidRow == [qid : Qids, explained : BOOLEAN, label : Writeups \cup {None}]

TypeOK ==
    /\ input \in Inputs
    /\ vulns \in Seq(Row) /\ Len(vulns) = Len(input.vulns)
    /\ stage \in {"inventory", "join", "cves", "fields", "pairs", "write", "written",
                  "failed"}
    /\ row \in 1..(Len(vulns) + 1)
    /\ hosts = <<>> \/ hosts \in [DOMAIN assets -> Hosts]
    /\ detections = Empty
       \/ detections \in [Places -> [id : DetectionIds, host : Hosts, qid : Qids]]
    /\ DOMAIN cves \subseteq Cves /\ \A c \in DOMAIN cves : cves[c] \in Writeups
    /\ DOMAIN fields \subseteq Qids /\ \A q \in DOMAIN fields : fields[q] \in Fields
    /\ DOMAIN warnings \subseteq DOMAIN fields
    /\ \A q \in DOMAIN warnings : warnings[q] \in DOMAIN vulns
    /\ pairs \subseteq Qids \X (Cves \cup {Null})
    /\ qids \subseteq QidRow
    /\ failure \in Failure \cup {None}
    /\ failure = None <=> stage # "failed"

Init ==
    /\ input \in Inputs
    /\ vulns = input.vulns
    /\ stage = "inventory" /\ row = 1
    /\ hosts = <<>> /\ detections = Empty
    /\ cves = Empty /\ fields = Empty /\ warnings = Empty
    /\ pairs = {} /\ qids = {}
    /\ failure = None

Fail(error, n) == /\ stage' = "failed"
                  /\ failure' = [error |-> error, row |-> n]

-----------------------------------------------------------------------------
(* The asset file *)

ParseInventory ==
    /\ stage = "inventory"
    /\ \A i \in DOMAIN assets : assets[i].sound
    /\ hosts' = [i \in DOMAIN assets |-> assets[i].id]
    /\ detections' = [p \in Places |-> [id |-> At(p).id, host |-> assets[p[1]].id,
                                        qid |-> At(p).qid]]
    /\ stage' = "join"
    /\ UNCHANGED <<input, vulns, row, cves, fields, warnings, pairs, qids, failure>>

MalformedRecord ==
    /\ stage = "inventory"
    /\ \E i \in DOMAIN assets :
         /\ ~assets[i].sound
         /\ \A j \in 1..(i - 1) : assets[j].sound
         /\ Fail("IngestError", i)
    /\ UNCHANGED <<input, vulns, row, hosts, detections, cves, fields, warnings, pairs,
                   qids>>

-----------------------------------------------------------------------------
(* The join.  Both dicts of _validate_join keep the last entry of a key.    *)

(* Mutant: _join_problem does not compare the fields of the detection.      *)
MatchesById(records, r) ==
    \E p \in PlacesIn(records) :
      records[p[1]] = r.asset /\ records[p[1]].detections[p[2]].id = r.detection

Before(p, q) == p[1] < q[1] \/ (p[1] = q[1] /\ p[2] < q[2])

(* _join_problem(row, hosts, detections) is None, for the dicts of records. *)
Matches(records, r) ==
    /\ \E i \in DOMAIN records :
         /\ records[i] = r.asset
         /\ \A j \in DOMAIN records : records[j].id = r.asset.id => j <= i
    /\ LET entry(p) == records[p[1]].detections[p[2]]
           same == {p \in PlacesIn(records) : records[p[1]].id = r.asset.id
                                              /\ entry(p).id = r.detection}
       IN  \E p \in same :
             /\ \A q \in same : q = p \/ Before(q, p)
             /\ entry(p).qid = r.qid
             /\ entry(p).found = r.found

ValidateRow ==
    /\ stage = "join" /\ row <= Len(vulns)
    /\ vulns[row].lacks # "join"
    /\ Matches(assets, vulns[row])
    /\ row' = row + 1
    /\ UNCHANGED <<input, vulns, stage, hosts, detections, cves, fields, warnings, pairs,
                   qids, failure>>

RejectRow ==
    /\ stage = "join" /\ row <= Len(vulns)
    /\ IF vulns[row].lacks = "join"
       THEN Fail("IngestError", row)
       ELSE ~Matches(assets, vulns[row]) /\ Fail("JoinValidationError", row)
    /\ UNCHANGED <<input, vulns, row, hosts, detections, cves, fields, warnings, pairs,
                   qids>>

DropHostCopies ==
    /\ stage = "join" /\ row > Len(vulns)
    /\ vulns' = [n \in DOMAIN vulns |-> [vulns[n] EXCEPT !.asset = None]]
    /\ stage' = "cves" /\ row' = 1
    /\ UNCHANGED <<input, hosts, detections, cves, fields, warnings, pairs, qids, failure>>

-----------------------------------------------------------------------------
(* _collect_cves *)

New(r) == r.cve \in Cves /\ r.cve \notin DOMAIN cves

(* Mutant: a later row of a CVE replaces the first. *)
CollectLastCve ==
    /\ stage = "cves" /\ row <= Len(vulns)
    /\ LET r == vulns[row]
       IN  /\ New(r) => r.lacks # "cve"
           /\ cves' = IF r.cve \in Cves THEN With(cves, r.cve, r.writeup) ELSE cves
    /\ row' = row + 1
    /\ UNCHANGED <<input, vulns, stage, hosts, detections, fields, warnings, pairs, qids,
                   failure>>

CollectCve ==
    /\ stage = "cves" /\ row <= Len(vulns)
    /\ LET r == vulns[row]
       IN  /\ New(r) => r.lacks # "cve"
           /\ cves' = IF New(r) THEN With(cves, r.cve, r.writeup) ELSE cves
    /\ row' = row + 1
    /\ UNCHANGED <<input, vulns, stage, hosts, detections, fields, warnings, pairs, qids,
                   failure>>

MalformedCve ==
    /\ stage = "cves" /\ row <= Len(vulns)
    /\ New(vulns[row]) /\ vulns[row].lacks = "cve"
    /\ Fail("IngestError", row)
    /\ UNCHANGED <<input, vulns, row, hosts, detections, cves, fields, warnings, pairs,
                   qids>>

CvesCollected ==
    /\ stage = "cves" /\ row > Len(vulns)
    /\ stage' = "fields" /\ row' = 1
    /\ UNCHANGED <<input, vulns, hosts, detections, cves, fields, warnings, pairs, qids,
                   failure>>

-----------------------------------------------------------------------------
(* _collect_qid_fields *)

(* Mutants: a QID is reported at every row that disagrees, and keeps the    *)
(* last; rows are counted from 1 where the export's are from 0.             *)
CollectFieldsWarningAgain ==
    /\ stage = "fields" /\ row <= Len(vulns)
    /\ vulns[row].lacks # "fields"
    /\ LET r == vulns[row]
       IN  /\ fields' = IF r.qid \in DOMAIN fields THEN fields
                        ELSE With(fields, r.qid, r.fields)
           /\ warnings' = IF fields'[r.qid] # r.fields
                          THEN With(warnings, r.qid, row)
                          ELSE warnings
    /\ row' = row + 1
    /\ UNCHANGED <<input, vulns, stage, hosts, detections, cves, pairs, qids, failure>>

CollectFieldsNextRow ==
    /\ stage = "fields" /\ row <= Len(vulns)
    /\ vulns[row].lacks # "fields"
    /\ LET r == vulns[row]
       IN  /\ fields' = IF r.qid \in DOMAIN fields THEN fields
                        ELSE With(fields, r.qid, r.fields)
           /\ warnings' = IF fields'[r.qid] # r.fields /\ r.qid \notin DOMAIN warnings
                          THEN With(warnings, r.qid, row + 1)
                          ELSE warnings
    /\ row' = row + 1
    /\ UNCHANGED <<input, vulns, stage, hosts, detections, cves, pairs, qids, failure>>

CollectFields ==
    /\ stage = "fields" /\ row <= Len(vulns)
    /\ vulns[row].lacks # "fields"
    /\ LET r == vulns[row]
       IN  /\ fields' = IF r.qid \in DOMAIN fields THEN fields
                        ELSE With(fields, r.qid, r.fields)
           /\ warnings' = IF fields'[r.qid] # r.fields /\ r.qid \notin DOMAIN warnings
                          THEN With(warnings, r.qid, row)
                          ELSE warnings
    /\ row' = row + 1
    /\ UNCHANGED <<input, vulns, stage, hosts, detections, cves, pairs, qids, failure>>

MalformedFields ==
    /\ stage = "fields" /\ row <= Len(vulns)
    /\ vulns[row].lacks = "fields"
    /\ Fail("IngestError", row)
    /\ UNCHANGED <<input, vulns, row, hosts, detections, cves, fields, warnings, pairs,
                   qids>>

FieldsCollected ==
    /\ stage = "fields" /\ row > Len(vulns)
    /\ stage' = "pairs"
    /\ pairs' = {<<vulns[n].qid, vulns[n].cve>> :
                   n \in {m \in DOMAIN vulns : vulns[m].cve # Missing}}
    /\ UNCHANGED <<input, vulns, row, hosts, detections, cves, fields, warnings, qids,
                   failure>>

-----------------------------------------------------------------------------
(* The rest of _parse_corpus *)

(* Mutant: the titles are counted by row, so that two rows of one pair look *)
(* like two CVEs.                                                           *)
LabelByRows(q) ==
    LET rows == {n \in DOMAIN vulns : vulns[n].qid = q /\ vulns[n].cve # Missing}
    IN  IF \E n \in rows : rows = {n} /\ cves[vulns[n].cve] \notin Untitled
        THEN cves[(CHOOSE pair \in pairs : pair[1] = q)[2]]
        ELSE None

(* qid_label: the title of the one CVE; None stands for one that is made of *)
(* the diagnosis.                                                           *)
Label(q) ==
    LET named == {pair[2] : pair \in {p \in pairs : p[1] = q}}
    IN  IF \E c \in named : named = {c} /\ cves[c] \notin Untitled
        THEN cves[CHOOSE c \in named : TRUE]
        ELSE None

(* titles_by_qid looks every pair's CVE up; a diagnosis has to be a text.   *)
Paired == \A pair \in pairs : pair[2] \in DOMAIN cves
Readable == \A q \in DOMAIN fields : fields[q] \notin Broken

ParseQids ==
    /\ stage = "pairs"
    /\ Paired /\ Readable
    /\ qids' = {[qid |-> q, explained |-> q \in DOMAIN fields,
                 label |-> IF q \in DOMAIN fields THEN Label(q) ELSE None] :
                  q \in {detections[p].qid : p \in DOMAIN detections}}
    /\ stage' = "write"
    /\ UNCHANGED <<input, vulns, row, hosts, detections, cves, fields, warnings, pairs,
                   failure>>

(* KeyError, TypeError or ValidationError: no row is being named here. *)
BareFailure ==
    /\ stage = "pairs"
    /\ ~(Paired /\ Readable)
    /\ Fail("bare", 0)
    /\ UNCHANGED <<input, vulns, row, hosts, detections, cves, fields, warnings, pairs,
                   qids>>

-----------------------------------------------------------------------------
(* _write_tables against the constraints of the schema *)

UniqueHosts == \A i, j \in DOMAIN hosts : hosts[i] = hosts[j] => i = j

UniqueDetections ==
    \A p, q \in DOMAIN detections : detections[p].id = detections[q].id => p = q

QidsHeld == {q.qid : q \in qids}

References ==
    /\ \A p \in DOMAIN detections :
         /\ \E i \in DOMAIN hosts : hosts[i] = detections[p].host
         /\ detections[p].qid \in QidsHeld
    /\ \A pair \in pairs : pair[1] \in QidsHeld /\ pair[2] \in DOMAIN cves

Write ==
    /\ stage = "write"
    /\ UniqueHosts /\ UniqueDetections /\ References
    /\ stage' = "written"
    /\ UNCHANGED <<input, vulns, row, hosts, detections, cves, fields, warnings, pairs,
                   qids, failure>>

BreakConstraint ==
    /\ stage = "write"
    /\ ~(UniqueHosts /\ UniqueDetections /\ References)
    /\ Fail("IngestError", 0)
    /\ UNCHANGED <<input, vulns, row, hosts, detections, cves, fields, warnings, pairs,
                   qids>>

Done == stage \in {"written", "failed"} /\ UNCHANGED vars

Next == \/ ParseInventory \/ MalformedRecord
        \/ ValidateRow \/ RejectRow \/ DropHostCopies
        \/ CollectCve \/ MalformedCve \/ CvesCollected
        \/ CollectFields \/ MalformedFields \/ FieldsCollected
        \/ ParseQids \/ BareFailure
        \/ Write \/ BreakConstraint
        \/ Done

Spec == Init /\ [][Next]_vars

-----------------------------------------------------------------------------
(* Properties *)

Rows == input.vulns

(* Row n is the first that names its CVE, or its QID.                       *)
FirstOfCve(n) == \A m \in 1..(n - 1) : Rows[m].cve # Rows[n].cve
FirstOfQid(n) == \A m \in 1..(n - 1) : Rows[m].qid # Rows[n].qid

(* What the exports have to be for an index to be made of them, said        *)
(* without the order in which the code finds out.                           *)
Sound ==
    /\ \A i, j \in DOMAIN assets : assets[i].sound /\ (assets[i].id = assets[j].id => i = j)
    /\ \A p, q \in Places : At(p).id = At(q).id => p = q
    /\ \A n \in DOMAIN Rows :
         LET r == Rows[n]
         IN  /\ r.lacks \notin {"join", "fields"}
             /\ r.lacks = "cve" => r.cve \notin Cves \/ ~FirstOfCve(n)
             /\ r.cve # Null
             /\ FirstOfQid(n) => r.fields \notin Broken
             /\ \E p \in Places : /\ assets[p[1]] = r.asset
                                  /\ At(p) = [id |-> r.detection, qid |-> r.qid,
                                              found |-> r.found]

(* The exports are refused exactly when they are not sound, in whichever    *)
(* pass that shows and although the join looks at the last of records that  *)
(* share an id only.                                                        *)
SoundExportsAreWritten ==
    /\ stage = "written" => Sound
    /\ stage = "failed" => ~Sound

(* Every reference between tables resolves when they are written: the join  *)
(* and the passes over the corpus leave only two constraints that exports   *)
(* could break, the keys of hosts and detections.                           *)
ReferencesResolve == stage = "write" => References

(* A CVE's write-up and a QID's fields are those of its first row.          *)
FirstRowWins ==
    stage \in {"pairs", "write", "written"} =>
        \A n \in DOMAIN Rows :
          /\ Rows[n].cve \in Cves /\ FirstOfCve(n) =>
               Rows[n].cve \in DOMAIN cves /\ cves[Rows[n].cve] = Rows[n].writeup
          /\ FirstOfQid(n) =>
               Rows[n].qid \in DOMAIN fields /\ fields[Rows[n].qid] = Rows[n].fields

(* A QID is reported exactly if its rows disagree, at the row that is the   *)
(* first to differ from what was kept.                                      *)
DisagreementsAreReported ==
    stage \in {"pairs", "write", "written"} =>
        \A n \in DOMAIN Rows :
          LET q == Rows[n].qid
              differs(m) == Rows[m].qid = q /\ Rows[m].fields # fields[q]
          IN  q \in DOMAIN warnings /\ warnings[q] = n <=>
                differs(n) /\ \A m \in 1..(n - 1) : ~differs(m)

(* A QID is explained exactly if a row explains it, and is called by its    *)
(* CVE's title exactly if its rows name one CVE, however many rows do.      *)
QidsAreTold ==
    stage \in {"write", "written"} =>
        \A q \in qids :
          LET about == {n \in DOMAIN Rows : Rows[n].qid = q.qid}
              named == {Rows[n].cve : n \in about} \ {Missing}
          IN  /\ q.explained <=> about # {}
              /\ \A c \in named :
                   named = {c} /\ cves[c] \notin Untitled => q.label = cves[c]
              /\ q.label # None => \E c \in named : named = {c} /\ q.label = cves[c]

(* What the artifact says of CVEs and QIDs is what the rows say: of several *)
(* that differ the first, with a report of the first to differ; and a QID's *)
(* title counts its CVEs, not its rows.                                     *)
CorpusIsFaithful == FirstRowWins /\ DisagreementsAreReported /\ QidsAreTold

(* A malformed export is refused with an IngestError, never with the bare   *)
(* exception that the row caused.                                           *)
FailuresAreIngestErrors ==
    failure # None => failure.error \in {"IngestError", "JoinValidationError"}
=============================================================================
