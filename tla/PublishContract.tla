--------------------------- MODULE PublishContract ---------------------------
(***************************************************************************)
(* What building an artifact promises to whoever looks at its path: the    *)
(* path changes only when a build installs its own artifact, which it does *)
(* at most once; a build that reports success did, one that failed did not *)
(* and never will.                                                         *)
(***************************************************************************)
CONSTANTS Builds,     \* runs of build_artifact
          Before      \* what was at the path before the first of them

VARIABLES current,    \* the build whose artifact is at the path, or Before
          installed,  \* the builds that have been at the path
          outcome     \* per build: "running", "ok", "failed" or "killed"

vars == <<current, installed, outcome>>

Init == /\ current = Before
        /\ installed = {}
        /\ outcome = [b \in Builds |-> "running"]

Install(b) == /\ outcome[b] = "running"
              /\ b \notin installed
              /\ current' = b
              /\ installed' = installed \cup {b}
              /\ UNCHANGED outcome

(* How a build may end.  The process can be killed before or after it has   *)
(* installed its artifact.                                                  *)
Outcomes(b) == {"killed", IF b \in installed THEN "ok" ELSE "failed"}

End(b) == /\ outcome[b] = "running"
          /\ \E o \in Outcomes(b) : outcome' = [outcome EXCEPT ![b] = o]
          /\ UNCHANGED <<current, installed>>

Next == \E b \in Builds : Install(b) \/ End(b)

Spec == Init /\ [][Next]_vars
=============================================================================
