------------------------------ MODULE MCExports ------------------------------
(***************************************************************************)
(* Exports over two hosts with two detections, and up to MaxRows rows.     *)
(***************************************************************************)
EXTENDS Exports, SequencesExt

CONSTANTS h1, h2, b1, b2, d1, d2, q1, q2, t1, t2, c1, c2, w1, w2, f1, f2, f3,
          MaxRows

Listed(id, qid, found) == [id |-> id, qid |-> qid, found |-> found]

Host(id, body, list) == [id |-> id, body |-> body, detections |-> list, sound |-> TRUE]

First == Host(h1, b1, <<Listed(d1, q1, t1)>>)
Second == Host(h2, b1, <<Listed(d2, q2, t1)>>)

(* A host with both detections, of one QID or of two.                       *)
Same == Host(h1, b1, <<Listed(d1, q1, t1), Listed(d2, q1, t1)>>)
Both == Host(h1, b1, <<Listed(d1, q1, t1), Listed(d2, q2, t1)>>)

(* The id of First again, the detection of First again, the same detection  *)
(* twice, and a record that is malformed.                                   *)
Again   == Host(h1, b2, <<Listed(d1, q2, t1)>>)
Reused  == Host(h2, b1, <<Listed(d1, q1, t1)>>)
Twice   == Host(h1, b1, <<Listed(d1, q1, t1), Listed(d1, q2, t1)>>)
Unsound == [Second EXCEPT !.sound = FALSE]

Records == {First, Second, Same, Both, Again, Reused, Twice, Unsound}

(* The row that explains a detection of a record.                           *)
Explains(r, d, cve, writeup, qidFields) ==
    [asset |-> r, detection |-> d.id, qid |-> d.qid, found |-> d.found, cve |-> cve,
     writeup |-> writeup, fields |-> qidFields, lacks |-> "nothing"]

(* What a row may say of its CVE. *)
About == {<<Missing, w1>>, <<Null, w1>>, <<c1, w1>>, <<c1, w2>>, <<c2, w1>>}

RowsOf(records) ==
    UNION {{Explains(r, r.detections[k], a[1], a[2], f) :
              k \in DOMAIN r.detections, a \in About, f \in {f1, f2}} : r \in records}

(* Rows that are malformed or do not match, beside the one they are made of. *)
Odd(r) == {r} \cup {[r EXCEPT !.lacks = part] : part \in {"join", "cve", "fields"}}
              \cup {[r EXCEPT !.found = t2], [r EXCEPT !.qid = q2],
                    [r EXCEPT !.asset = Again], [r EXCEPT !.fields = f3]}

Plain(records) == {r \in RowsOf(records) : r.cve = c1 /\ r.fields = f1}

(* Any two rows on a good pair of files, more rows on one detection, two    *)
(* detections on one host, odd rows, and odd asset files.                   *)
MCInputs ==
    [assets : {<<First, Second>>},
     vulns : BoundedSeq(RowsOf({First, Second}), 2)
             \cup BoundedSeq({r \in RowsOf({First}) : r.cve # Null}, MaxRows)]
    \cup [assets : {<<Same>>, <<Both>>},
          vulns : BoundedSeq({r \in RowsOf({Same, Both}) :
                                r.cve # Null /\ r.fields = f1}, 2)]
    \cup [assets : {<<First>>, <<First, Second>>},
          vulns : BoundedSeq(UNION {Odd(r) : r \in Plain({First})}, 2)]
    \cup [assets : BoundedSeq(Records, 2), vulns : BoundedSeq(Plain(Records), 1)]
=============================================================================
