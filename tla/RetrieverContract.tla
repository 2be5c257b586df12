------------------------- MODULE RetrieverContract -------------------------
(***************************************************************************)
(* What Retriever.retrieve promises the pipeline, whatever search finds: a *)
(* resolved identifier decides alone, search only speaks where none        *)
(* resolved, and it either names QIDs that the artifact holds or abstains. *)
(***************************************************************************)
EXTENDS Naturals, Sequences

CONSTANTS Known,      \* the rows of table qids
          QidsFor,    \* per CVE, the QIDs the scanner maps to it, in order
          Owner,      \* per chunk, the document it is cut from
          Pending     \* no answer yet

VARIABLES question,   \* the parsed query: its CVEs, its QIDs, its phrasings
          answer      \* the RetrievalResult, or Pending

Elements(s) == {s[i] : i \in DOMAIN s}

(* The QIDs that the typed identifiers lead to. *)
Resolved(q) == {k \in Known : \/ k \in Elements(q.qids)
                              \/ \E c \in Elements(q.cves) : k \in Elements(QidsFor[c])}

(* The typed identifiers that lead nowhere. *)
Unresolved(q) == {c \in Elements(q.cves) : QidsFor[c] = <<>>}
                 \cup (Elements(q.qids) \ Known)

(* The document is the QID's own diagnosis, or that of a CVE mapped to it. *)
BelongsTo(doc, k) == \/ doc.type = "qid" /\ doc.id = k
                     \/ doc.type = "cve" /\ k \in Elements(QidsFor[doc.id])

(* A QID is matched once, and carries only CVEs and chunks of its own. *)
Coherent(a) ==
    /\ \A i, j \in DOMAIN a.matches : a.matches[i] = a.matches[j] => i = j
    /\ \A k \in Elements(a.matches) :
          /\ \A c \in Elements(a.cves[k]) : k \in Elements(QidsFor[c])
          /\ \A x \in Elements(a.hits[k]) : BelongsTo(Owner[x], k)

ByIdentifier(q, a) ==
    /\ Elements(a.matches) = Resolved(q)
    /\ ~a.abstained
    /\ \A k \in Elements(a.matches) : a.hits[k] = <<>>

BySearch(q, a) ==
    /\ Resolved(q) = {}
    /\ Elements(a.matches) \subseteq Known
    /\ a.abstained <=> q.queries > 0 /\ a.matches = <<>>
    /\ q.queries = 0 => a.matches = <<>>
    /\ \A k \in Elements(a.matches) : a.hits[k] # <<>>

Promised(q, a) ==
    /\ a.unknown = Unresolved(q)
    /\ Coherent(a)
    /\ \/ Resolved(q) # {} /\ ByIdentifier(q, a)
       \/ BySearch(q, a)

Init == answer = Pending

Answer == /\ answer = Pending
          /\ answer' # Pending
          /\ Promised(question, answer')
          /\ UNCHANGED question

Spec == Init /\ [][Answer]_<<question, answer>>
=============================================================================
