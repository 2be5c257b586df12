---------------------------- MODULE MCRetriever ----------------------------
(***************************************************************************)
(* A corpus of two QIDs and two CVEs for Retriever.  Chunk 1 is the kernel *)
(* trace and chunk 2 the prose of C1, which both QIDs bundle; chunks 3 and *)
(* 4 are the diagnoses of the QIDs.  C2 has no write-up.                   *)
(***************************************************************************)
EXTENDS Retriever, TLC

CONSTANTS C1, C2, CX    \* CX is not in the corpus

MCCves == {C1, C2, CX}
MCQids == {1, 2, 9}
MCQidsFor == (C1 :> <<1, 2>>) @@ (C2 :> <<2>>) @@ (CX :> <<>>)
MCOwner == << [type |-> "cve", id |-> C1], [type |-> "cve", id |-> C1],
              [type |-> "qid", id |-> 1], [type |-> "qid", id |-> 2] >>

Ask(c, q, n, l) == [cves |-> c, qids |-> q, queries |-> n, long |-> l]

(* Identifiers that resolve, do not, or do both, alone and beside text;     *)
(* short and long text in one and in two phrasings; nothing but connectives. *)
MCQuestions ==
    { Ask(<<C1>>, <<>>, 0, FALSE), Ask(<<C2, C1>>, <<>>, 1, FALSE),
      Ask(<<CX, C2>>, <<9, 1>>, 2, TRUE), Ask(<<>>, <<2, 1>>, 0, FALSE),
      Ask(<<CX>>, <<9>>, 0, FALSE), Ask(<<CX>>, <<>>, 1, FALSE),
      Ask(<<>>, <<>>, 0, FALSE), Ask(<<>>, <<>>, 1, TRUE),
      Ask(<<>>, <<>>, 2, FALSE), Ask(<<>>, <<>>, 2, TRUE) }

MCHits == { <<>>, <<1>>, <<1, 2>>, <<3, 1>>, <<4, 1, 3>>, <<2, 3, 4>> }

Similar(a, b, c) == (2 :> a) @@ (3 :> b) @@ (4 :> c)
MCCosines == { Similar(0, 0, 0), Similar(2, 0, 0), Similar(0, 1, 0),
               Similar(1, 2, 2), Similar(2, 1, 1), Similar(0, 1, 2) }
MCRelevances == { <<0, 0, 0, 0>>, <<2, 0, 1, 0>>, <<0, 2, 0, 1>>,
                  <<1, 1, 3, 0>>, <<2, 2, 3, 3>>, <<0, 0, 0, 1>> }
=============================================================================
