----------------------------- MODULE MCPipeline -----------------------------
(***************************************************************************)
(* A corpus for Pipeline: QID 1 bundles C1, QID 2 bundles C1 and C2 and    *)
(* says nothing about a fix itself, QID 3 has no write-up.  Chunk 1 is the *)
(* kernel trace and chunk 2 the prose of C1; chunks 3 and 4 are the        *)
(* diagnoses.  Where QID 1 matches, the most urgent host is alone in its   *)
(* unit; where only QID 2 does, it ties with one of the largest unit, of   *)
(* which two hosts share a name that is a plain word.                      *)
(***************************************************************************)
EXTENDS Pipeline, TLC

CONSTANTS C1, C2, CX,   \* CX is not in the corpus
          A             \* an address

Address(a) == [type |-> "address", id |-> a]

MCQids == {1, 2, 3, 9}
MCKnown == {1, 2, 3}
MCCves == {C1, C2, CX}
MCBundle == << <<C1>>, <<C1, C2>>, <<>> >>
MCQidsFor == (C1 :> <<1, 2>>) @@ (C2 :> <<2>>) @@ (CX :> <<>>)
MCSeverity == <<6, 8, Missing>>
MCCvss == (C1 :> 9) @@ (C2 :> Missing) @@ (CX :> Missing)
MCEpss == (C1 :> 12) @@ (C2 :> 4) @@ (CX :> Missing)

MCDetected == << {1}, {1, 2}, {2, 3}, {1}, {2, 3}, {2} >>
MCName == <<2, 2, 1, 3, 4, 0>>
MCUnitOf == <<1, 1, 1, 2, 2, 3>>
MCCriticality == <<1, 2, 2, 5, 5, 4>>

MCOwner == << Cve(C1), Cve(C1), Qid(1), Qid(2) >>
MCProseOf == [d \in Docs |->
    IF d = Cve(C1) THEN <<2>> ELSE IF d = Qid(1) THEN <<3>>
    ELSE IF d = Qid(2) THEN <<4>> ELSE <<>>]

(* The diagnosis of QID 2 speaks of its CVE and of host 4, which QID 2 does *)
(* not affect.  The label of QID 1 is taken from C1, that of QID 2 names a  *)
(* CVE it does not bundle, that of unit 2 happens to be the name of host 5, *)
(* and unit 3 is labelled by its host.                                      *)
MCMentionedIn == << {}, {}, {}, {Cve(C2), Host(3)} >>
MCLabel == << {Cve(C1)}, {Cve(CX)}, {} >>
MCUnitLabel == << {}, {Host(4)}, {Host(0)} >>

MCDiagnosisSays == [k \in Known |-> [x \in QidKinds |-> IF k = 1 THEN 1 ELSE 0]]
MCCveSays == [c \in Cves |-> [x \in CveKinds |->
    CASE c = C1 /\ x = "required_action" -> 1
      [] c = C2 /\ x = "patch_reference" -> 3
      [] OTHER -> 0]]

(* A patch reference of C2 names an address. *)
MCEvidenceNames == [e \in WholeEvidence |->
    IF e.kind = "patch_reference" /\ e.nth = 2 THEN {e.doc, Address(A)} ELSE {e.doc}]

MCReadings == { {}, {Host(3)} }

Ask(c, q, t, l, m) == [blank |-> FALSE, cves |-> c, qids |-> q, text |-> t, long |-> l,
                       mentions |-> {Cve(c[i]) : i \in DOMAIN c} \cup m]

(* Identifiers that resolve, do not, or do both, alone and beside text;     *)
(* short and long text; nothing.  Of a list of QIDs the first is mentioned. *)
(* One query names a host that its QIDs do not affect, one an address.      *)
MCQueries ==
    { [blank |-> TRUE, cves |-> <<>>, qids |-> <<>>, text |-> FALSE, long |-> FALSE,
       mentions |-> {}],
      Ask(<<C1, C2>>, <<>>, FALSE, FALSE, {}),
      Ask(<<CX, C2>>, <<1, 9>>, TRUE, TRUE, {Qid(1)}),
      Ask(<<>>, <<2, 1>>, FALSE, FALSE, {Qid(2)}),
      Ask(<<>>, <<3, 2>>, TRUE, FALSE, {Qid(3), Host(3)}),
      Ask(<<CX>>, <<9>>, FALSE, FALSE, {Qid(9)}),
      Ask(<<>>, <<>>, TRUE, FALSE, {Address(A)}), Ask(<<>>, <<>>, TRUE, TRUE, {}) }

MCMatches == { <<>>, <<2>>, <<1, 2>>, <<2, 1>>, <<3, 2>> }

(* The CVEs and chunks a match may carry: none or some typed CVEs without a *)
(* chunk, or chunks with the CVEs that they describe.                       *)
MCCarried(k) ==
    CASE k = 1 -> { << <<>>, <<>> >>, << <<C1>>, <<>> >>, << <<>>, <<3>> >>,
                    << <<C1>>, <<1>> >>, << <<C1>>, <<3, 2>> >> }
      [] k = 2 -> { << <<>>, <<>> >>, << <<C2>>, <<>> >>, << <<C1, C2>>, <<>> >>,
                    << <<C1>>, <<1, 4>> >>, << <<C1>>, <<2>> >> }

MCResults ==
    { [matches |-> m, cves |-> <<x[1], y[1], <<>> >>, hits |-> <<x[2], y[2], <<>> >>,
       unknown |-> u, abstained |-> a] :
        m \in MCMatches, x \in MCCarried(1), y \in MCCarried(2),
        u \in {{}, {CX, 9}}, a \in BOOLEAN }

MCFixHits == { <<>>, <<2>>, <<3, 2>>, <<2, 3, 4>> }

Cite(s, q) == [source |-> s, quote |-> q]
Claim(c, n) == [cites |-> c, names |-> n]
E(n) == EvidenceItem(n)
Ch(n) == ChunkItem(n)

(* Quotes that hold, are blank, or are from elsewhere; sources that are      *)
(* never shown, evidence the cap may have cut; hosts that are urgent, have a *)
(* plain name, are not running, or are affected by another QID.              *)
MCBriefs ==
    { [claims |-> <<>>, prose |-> {}],
      [claims |-> << Claim(<<Cite(Ch(2), Ch(2))>>, {Cve(C1), Host(3)}),
                     Claim(<<>>, {Qid(1)}) >>, prose |-> {Cve(CX)}],
      [claims |-> << Claim(<<Cite(Ch(4), Ch(4)), Cite(E(1), E(1))>>, {Cve(C2), Qid(9), Host(2)}),
                     Claim(<<Cite(Ch(4), Blank)>>, {}) >>, prose |-> {Host(4)}],
      [claims |-> << Claim(<<Cite(E(2), E(2))>>, {Host(1), Host(0)}),
                     Claim(<<Cite(E(3), E(3))>>, {Address(A)}) >>, prose |-> {}],
      [claims |-> << Claim(<<Cite(Ch(3), Ch(3))>>, {Host(3), Qid(1)}),
                     Claim(<<Cite(Ch(4), Ch(4))>>, {Host(4)}),
                     Claim(<<Cite(Ch(4), Ch(4))>>, {Cve(CX)}) >>, prose |-> {}],
      [claims |-> << Claim(<<Cite(Ch(3), Ch(2))>>, {}),
                     Claim(<<Cite(Ch(1), Ch(1))>>, {Host(4)}) >>, prose |-> {}] }
=============================================================================
