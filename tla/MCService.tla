----------------------------- MODULE MCService -----------------------------
(***************************************************************************)
(* Processes for Service.  CVE 1 is under QIDs 1 and 2, CVE 2 under QID 2, *)
(* QID 3 has no CVE and shares no host; QID 9 and CVE 3 are not in the     *)
(* artifact.                                                               *)
(***************************************************************************)
EXTENDS Service, TLC

CONSTANTS m1, m2    \* embedding models

MCQidsFor == << <<1, 2>>, <<2>>, <<>> >>
MCDetected == << {1}, {1, 2}, {3} >>

MCArtifacts == [state : {"readable"}, model : {m1, m2}]
               \cup [state : {"other version", "no artifact"}, model : {m1}]

(* Question sets: one question of every kind, right or wrong; two questions *)
(* with ids of their own, or not.                                           *)
Q(f, n, t, qs, cs) == [fits |-> f, id |-> n, type |-> t, qids |-> qs, cves |-> cs]

MCQuestions ==
    {<<Q(TRUE, 1, t, qs, cs)>> :
        t \in Types,
        qs \in {<<>>, <<1>>, <<2>>, <<1, 2>>, <<1, 2, 3>>, <<2, 1>>, <<9>>},
        cs \in {<<>>, <<1>>, <<2>>, <<1, 2>>, <<2, 2>>, <<3>>}}
    \cup {<<Q(TRUE, 1, "product", <<1, 3>>, <<>>), Q(f, n, "negative", <<>>, <<>>)>> :
            f \in BOOLEAN, n \in {1, 2}}
    \cup {None}

Match(k, cs) == [qid |-> k, cves |-> cs]

(* What a lookup returns, and what a search may: any ranking of two or      *)
(* three documents with the first of them matched, or nothing.              *)
MCResults ==
    {[matches |-> s, candidates |-> <<>>] :
        s \in {<<>>, <<Match(1, <<1>>), Match(2, <<1>>)>>, <<Match(2, <<2>>), Match(1, <<>>)>>,
               <<Match(3, <<>>)>>}}
    \cup {[matches |-> s, candidates |-> c] :
            s \in {<<>>, <<Match(1, <<>>)>>, <<Match(2, <<2>>)>>, <<Match(1, <<1>>), Match(2, <<1>>)>>},
            c \in {c \in UNION {[1..n -> Doc] : n \in 2..3} :
                     \A i, j \in DOMAIN c : c[i] = c[j] => i = j}}

Set(k, d, r, e, l, f) ==
    [valid |-> TRUE, keyword |-> k, dense |-> d, rerank |-> r, embedding |-> e, llm |-> l,
     effort |-> f]

Usual == Set(TRUE, TRUE, TRUE, m1, TRUE, TRUE)

(* The usual ones, and those that differ in one way. *)
MCSettings ==
    {Usual, [Usual EXCEPT !.valid = FALSE], [Usual EXCEPT !.embedding = Malformed],
     [Usual EXCEPT !.effort = FALSE], [Usual EXCEPT !.llm = FALSE, !.effort = FALSE],
     Set(FALSE, FALSE, TRUE, m1, FALSE, TRUE), Set(TRUE, FALSE, FALSE, Malformed, TRUE, TRUE)}

Run(c, s, e, b, q) ==
    [command |-> c, settings |-> s, exports |-> e, blank |-> b, questions |-> q]

MCProcesses ==
    {Run("ingest", s, e, FALSE, None) : s \in MCSettings, e \in BOOLEAN}
    \cup {Run("ask", s, FALSE, b, None) : s \in MCSettings, b \in BOOLEAN}
    \cup {Run("fetch-models", s, FALSE, FALSE, None) : s \in MCSettings}
    \cup {Run("serve", s, FALSE, FALSE, None) :
            s \in {Usual, Set(FALSE, FALSE, TRUE, m1, FALSE, TRUE)}
                  \cup {s \in MCSettings : ~s.valid \/ ~s.effort \/ s.embedding = Malformed}}
    \cup {Run("app", Usual, FALSE, FALSE, None)}
    \cup {Run("eval", Usual, FALSE, FALSE, q) : q \in MCQuestions}
    \cup {Run("eval", [Usual EXCEPT !.embedding = Malformed], FALSE, FALSE,
              <<Q(TRUE, 1, "negative", <<>>, <<>>)>>)}

(* A search asks like an analysis. *)
MCAsked ==
    {a \in Request : a.kind \in {"healthz", "readyz", "search"} => a.usable}

Symmetry == Permutations(Requests) \cup Permutations(FreshIds)
=============================================================================
