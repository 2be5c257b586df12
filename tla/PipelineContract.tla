-------------------------- MODULE PipelineContract --------------------------
(***************************************************************************)
(* What Pipeline.analyze promises, whatever the language model does or     *)
(* fails to do: the hosts follow from the matched QIDs alone, a typed      *)
(* identifier that the artifact knows decides alone about those, and what  *)
(* the response lacks it says.                                             *)
(***************************************************************************)
EXTENDS Naturals, Sequences

CONSTANTS Known, QidsFor,
          Hosts, Running,
          Detected,     \* per host, the QIDs the scanner found on it
          Pending       \* no response yet

VARIABLES query,        \* what the analyst typed
          response      \* the AnalyzeResponse, or Pending

Elements(s) == {s[i] : i \in DOMAIN s}

(* The QIDs that the typed identifiers lead to. *)
Named(q) == {k \in Known : \/ k \in Elements(q.qids)
                           \/ \E c \in Elements(q.cves) : k \in Elements(QidsFor[c])}

(* The typed identifiers that lead nowhere. *)
Strange(q) == {c \in Elements(q.cves) : QidsFor[c] = <<>>} \cup (Elements(q.qids) \ Known)

Affected(ks) == {h \in Hosts : Detected[h] \cap ks # {}}

Promised(q, r) ==
    LET ks == Elements(r.matches) IN
    /\ r.hosts = Affected(ks) \cap Running
    /\ r.inactive = Affected(ks) \ Running
    /\ Named(q) # {} => ks = Named(q)
    /\ r.missing = Strange(q)
    /\ r.matches = <<>> => r.coverage /\ ~r.brief
    /\ r.brief => ~r.excused
    /\ r.matches # <<>> /\ ~r.brief => r.excused

Init == response = Pending

(* A blank query is refused, and there never is a response to it. *)
Answer == /\ response = Pending
          /\ ~query.blank
          /\ response' # Pending
          /\ Promised(query, response')
          /\ UNCHANGED query

Spec == Init /\ [][Answer]_<<query, response>>
=============================================================================
