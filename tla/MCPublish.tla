----------------------------- MODULE MCPublish -----------------------------
(* Publish on two builds and two contents of the exports. *)
EXTENDS Publish

CONSTANTS s1, s2

(* Every scan's exports match; the assets of s1 also match s2's write-ups.  *)
MCJoins == {<<s1, s1>>, <<s2, s2>>, <<s1, s2>>}

(* Two hosts of s2 share an id, which the second table's key refuses.       *)
MCBreaks == [s \in {s1, s2} |-> IF s = s2 THEN 2 ELSE 0]
=============================================================================
