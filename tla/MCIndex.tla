------------------------------- MODULE MCIndex -------------------------------
(***************************************************************************)
(* Index over the exports of MCExports without write-ups, and over one     *)
(* sound pair of exports with every short text for a diagnosis.            *)
(***************************************************************************)
EXTENDS Index, MCExports

CONSTANTS MaxWords, MaxTokens

A(len, log, ends, as) == [len |-> len, log |-> log, ends |-> ends, as |-> as]

Short == A(1, FALSE, FALSE, "word")
End   == A(1, FALSE, TRUE, "word")
Ends2 == A(2, FALSE, TRUE, "word")
Long  == A(MaxChars + 1, FALSE, TRUE, "word")
Log   == A(1, TRUE, FALSE, "word")
Tag   == A(1, TRUE, FALSE, "inline")
Block == A(1, FALSE, FALSE, "block")
Opens == A(2, FALSE, TRUE, "opening")

MCWords == {Short, End, Ends2, Long, Log, Tag, Block, Opens}

(* Prose to pack, tokens to tell apart, and what cleaning takes away. *)
Texts == BoundedSeq({Short, End, Ends2, Long}, MaxWords)
         \cup BoundedSeq({Short, Ends2, Log}, MaxTokens)
         \cup BoundedSeq({Short, Log, Tag, Block, Opens}, 3)

(* A CVE with a log between its sentences, one that is its opening only. *)
Fixed == [s \in Sources |-> IF s = w1 THEN <<Opens, Ends2, Log, Log, Tag, Ends2, Ends2>>
                            ELSE IF s = w2 THEN <<Opens>> ELSE <<End>>]

Brief == [s \in Sources |-> <<>>]

One == [assets |-> <<First>>, vulns |-> <<Explains(First, First.detections[1], c1, w1, f1)>>]

MCBuilds ==
    [exports : Inputs, texts : {Brief}, embedder : {"hashing"}]
    \cup [exports : {One}, texts : {[Brief EXCEPT ![f1] = t] : t \in Texts},
          embedder : {"hashing"}]
    \cup [exports : {One}, texts : {[Fixed EXCEPT ![f1] = t] : t \in {<<End>>, <<Long, Long>>}},
          embedder : Embedders]
=============================================================================
