---------------------------- MODULE StoreContract ----------------------------
(***************************************************************************)
(* What a Store promises to the threads that share it, without the lock,   *)
(* the connections or the order of the checks: a store is opened once and  *)
(* closed for good.  A query that starts on an open store may answer from  *)
(* a build or be cut off by a close; one that starts after close() began   *)
(* is refused with StoreError and nothing else.                            *)
(***************************************************************************)
CONSTANTS Threads,        \* the threads that share the store
          Builds,         \* the builds an artifact may hold
          NoAnswer,       \* no query of this thread has ended yet
          StoreError,     \* the library's own exception
          ProgrammingError \* sqlite3's exception for a closed connection

VARIABLES phase,   \* "unopened", "open", "closing" or "closed"
          call,    \* per thread: "idle", "early" (began while open) or "late"
          answer   \* per thread: how its last query ended

vars == <<phase, call, answer>>

Init == /\ phase = "unopened"
        /\ call = [t \in Threads |-> "idle"]
        /\ answer = [t \in Threads |-> NoAnswer]

Open == /\ phase = "unopened"
        /\ phase' \in {"open", "closed"}
        /\ UNCHANGED <<call, answer>>

Begin(t) == /\ phase # "unopened"
            /\ call[t] = "idle"
            /\ call' = [call EXCEPT ![t] = IF phase = "open" THEN "early" ELSE "late"]
            /\ UNCHANGED <<phase, answer>>

(* How a query may end. *)
Endings(t) ==
    CASE phase = "open"                        -> Builds
      [] phase = "closing" /\ call[t] = "early" -> Builds \cup {StoreError, ProgrammingError}
      [] phase = "closed" /\ call[t] = "early"  -> {StoreError, ProgrammingError}
      [] OTHER                                 -> {StoreError}

End(t) == /\ call[t] # "idle"
          /\ call' = [call EXCEPT ![t] = "idle"]
          /\ \E e \in Endings(t) : answer' = [answer EXCEPT ![t] = e]
          /\ UNCHANGED phase

(* A thread ends and another one takes its place, with no past queries. *)
Renew(t) == /\ call[t] = "idle"
            /\ answer' = [answer EXCEPT ![t] = NoAnswer]
            /\ UNCHANGED <<phase, call>>

BeginClose == /\ phase = "open"
              /\ phase' \in {"closing", "closed"}
              /\ UNCHANGED <<call, answer>>

EndClose == /\ phase = "closing"
            /\ phase' = "closed"
            /\ UNCHANGED <<call, answer>>

Next == \/ Open
        \/ BeginClose
        \/ EndClose
        \/ \E t \in Threads : Begin(t) \/ End(t) \/ Renew(t)

Spec == Init /\ [][Next]_vars
=============================================================================
