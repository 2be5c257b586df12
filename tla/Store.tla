------------------------------- MODULE Store -------------------------------
(***************************************************************************)
(* The read-only artifact store of blast_radius/store.py, at the grain of  *)
(* its unlocked reads.  Threads of a pool query the store; each opens its  *)
(* own SQLite connection on first use, under the store's lock, and close() *)
(* closes every connection from whichever thread calls it.  The artifact   *)
(* at the path can be replaced by a build at any moment (os.replace).      *)
(***************************************************************************)
EXTENDS Naturals, FiniteSets

CONSTANTS Threads,          \* slots of the thread pool, and the thread that opens
          Opener,           \* the thread that runs Store.__init__
          Conns,            \* SQLite connections; their number bounds the run
          Builds,           \* builds that may sit at the artifact's path
          Readable,         \* builds of this build's schema version
          NoThread, NoConn, NoBuild,
          NoAnswer, StoreError, ProgrammingError

ASSUME ThreadsAssumption == /\ Opener \in Threads
                            /\ NoThread \notin Threads
ASSUME ConnsAssumption   == NoConn \notin Conns
ASSUME BuildsAssumption  == /\ Readable \subseteq Builds
                            /\ NoBuild \notin Builds
ASSUME AnswersAssumption ==
    /\ {NoAnswer, StoreError, ProgrammingError} \cap Builds = {}
    /\ NoAnswer # StoreError /\ NoAnswer # ProgrammingError
    /\ StoreError # ProgrammingError

VARIABLES
    file,       \* the build at the artifact's path, or NoBuild
    life,       \* "new", "checking", "refused", "failed" or "open": how far __init__ got
    closed,     \* self._closed
    lock,       \* the holder of self._lock
    registered, \* self._connections
    open,       \* connections whose close() has not run
    build,      \* the file each connection was opened on; NoBuild = not opened yet
    local,      \* self._local.conn of each thread
    pc,         \* what each thread executes next
    conn,       \* the variable conn in each thread's frame of _conn()
    answer,     \* how each thread's last query ended
    late        \* ghost: the query began after close() had set _closed

file_vars   == <<file, build>>
store_vars  == <<closed, lock, registered, open>>
thread_vars == <<local, pc, conn, answer, late>>
vars == <<file, life, closed, lock, registered, open, build,
          local, pc, conn, answer, late>>

(* The steps a thread is at while it holds self._lock. *)
Guarded == {"guard", "connect", "register", "close_flag", "close_each"}

Steps == Guarded \cup {"idle", "lookup", "acquire", "keep", "recheck",
                       "execute", "fetch", "close_acquire"}

Free == {c \in Conns : build[c] = NoBuild}

Answers == Builds \cup {NoAnswer, StoreError, ProgrammingError}

TypeOK ==
    /\ file \in Builds \cup {NoBuild}
    /\ life \in {"new", "checking", "refused", "failed", "open"}
    /\ closed \in BOOLEAN
    /\ lock \in Threads \cup {NoThread}
    /\ registered \in SUBSET Conns
    /\ open \in SUBSET Conns
    /\ build \in [Conns -> Builds \cup {NoBuild}]
    /\ local \in [Threads -> Conns \cup {NoConn}]
    /\ pc \in [Threads -> Steps]
    /\ conn \in [Threads -> Conns \cup {NoConn}]
    /\ answer \in [Threads -> Answers]
    /\ late \in [Threads -> BOOLEAN]

Init ==
    /\ file \in Builds \cup {NoBuild}
    /\ life = "new"
    /\ closed = FALSE
    /\ lock = NoThread
    /\ registered = {}
    /\ open = {}
    /\ build = [c \in Conns |-> NoBuild]
    /\ local = [t \in Threads |-> NoConn]
    /\ pc = [t \in Threads |-> "idle"]
    /\ conn = [t \in Threads |-> NoConn]
    /\ answer = [t \in Threads |-> NoAnswer]
    /\ late = [t \in Threads |-> FALSE]

-----------------------------------------------------------------------------
(* The environment: builds are installed over the path, threads come and go. *)

(* ingest moves a finished artifact over the path. *)
Replace == \E b \in Builds \ {file} :
    /\ file' = b
    /\ UNCHANGED <<life, build, store_vars, thread_vars>>

(* An idle pool thread ends and another takes its slot.  threading.local    *)
(* gives the newcomer no connection; the old one stays registered and open. *)
(* The bound: enough unopened connections remain for every thread.          *)
ThreadExit(t) ==
    /\ pc[t] = "idle"
    /\ life = "open"
    /\ local[t] # NoConn
    /\ Cardinality(Free) > Cardinality({u \in Threads : local[u] = NoConn})
    /\ local' = [local EXCEPT ![t] = NoConn]
    /\ conn' = [conn EXCEPT ![t] = NoConn]
    /\ answer' = [answer EXCEPT ![t] = NoAnswer]
    /\ UNCHANGED <<file_vars, life, store_vars, pc, late>>

-----------------------------------------------------------------------------
(* Store.__init__ *)

(* The path holds a file: the fields are set and the schema version is      *)
(* queried, on a connection like any other.                                 *)
Construct ==
    /\ life = "new"
    /\ file # NoBuild
    /\ life' = "checking"
    /\ pc' = [pc EXCEPT ![Opener] = "lookup"]
    /\ UNCHANGED <<file_vars, store_vars, local, conn, answer, late>>

(* ArtifactNotFoundError, raised before there is anything to close. *)
ConstructMissing ==
    /\ life = "new"
    /\ file = NoBuild
    /\ life' = "failed"
    /\ UNCHANGED <<file_vars, store_vars, thread_vars>>

(* Mutant: __init__ raises without closing. *)
CheckedNoClose(t, b) ==
    /\ life' = IF b \in Readable THEN "open" ELSE "failed"
    /\ pc' = [pc EXCEPT ![t] = "idle"]

(* _check_schema_version has its row: the store is open, or __init__ closes *)
(* it and raises again.                                                     *)
Checked(t, b) ==
    IF b \in Readable
    THEN /\ life' = "open"
         /\ pc' = [pc EXCEPT ![t] = "idle"]
    ELSE /\ life' = "refused"
         /\ pc' = [pc EXCEPT ![t] = "close_acquire"]

-----------------------------------------------------------------------------
(* A query: _conn(), then execute and fetch on the connection it returned.  *)

Query(t) ==
    /\ life = "open"
    /\ pc[t] = "idle"
    /\ pc' = [pc EXCEPT ![t] = "lookup"]
    /\ late' = [late EXCEPT ![t] = closed]
    /\ UNCHANGED <<file_vars, life, store_vars, local, conn, answer>>

Raise(t, error) ==
    /\ pc' = [pc EXCEPT ![t] = "idle"]
    /\ answer' = [answer EXCEPT ![t] = error]

(* Mutant: the thread-local connection is ignored, every query connects. *)
LookupNoReuse(t) ==
    /\ pc[t] = "lookup"
    /\ conn' = [conn EXCEPT ![t] = local[t]]
    /\ pc' = [pc EXCEPT ![t] = "acquire"]
    /\ UNCHANGED <<file_vars, life, store_vars, local, answer, late>>

Lookup(t) ==
    /\ pc[t] = "lookup"
    /\ conn' = [conn EXCEPT ![t] = local[t]]
    /\ pc' = [pc EXCEPT ![t] = IF local[t] = NoConn THEN "acquire" ELSE "recheck"]
    /\ UNCHANGED <<file_vars, life, store_vars, local, answer, late>>

Acquire(t) ==
    /\ pc[t] = "acquire"
    /\ lock = NoThread
    /\ lock' = t
    /\ pc' = [pc EXCEPT ![t] = "guard"]
    /\ UNCHANGED <<file_vars, life, closed, registered, open,
                   local, conn, answer, late>>

(* Mutants of the locked check: the lock is released before connecting; it  *)
(* is kept when the check raises; the connection is appended before it is   *)
(* opened.                                                                  *)
GuardEarlyRelease(t) ==
    /\ pc[t] = "guard"
    /\ \/ closed /\ Raise(t, StoreError)
       \/ ~closed /\ pc' = [pc EXCEPT ![t] = "connect"] /\ UNCHANGED answer
    /\ lock' = NoThread
    /\ UNCHANGED <<file_vars, life, closed, registered, open, local, conn, late>>

GuardKeepsLock(t) ==
    /\ pc[t] = "guard"
    /\ \/ closed /\ Raise(t, StoreError)
       \/ ~closed /\ pc' = [pc EXCEPT ![t] = "connect"] /\ UNCHANGED answer
    /\ UNCHANGED <<file_vars, life, store_vars, local, conn, late>>

GuardRegistersFirst(t) ==
    /\ pc[t] = "guard"
    /\ pc' = [pc EXCEPT ![t] = "register"]
    /\ UNCHANGED <<file_vars, life, store_vars, local, conn, answer, late>>

(* _check_open() under the lock; raising leaves the with block. *)
Guard(t) ==
    /\ pc[t] = "guard"
    /\ \/ /\ closed
          /\ Raise(t, StoreError)
          /\ lock' = NoThread
       \/ /\ ~closed
          /\ pc' = [pc EXCEPT ![t] = "connect"]
          /\ UNCHANGED <<lock, answer>>
    /\ UNCHANGED <<file_vars, life, closed, registered, open, local, conn, late>>

(* sqlite3.connect: the connection reads the file that is at the path now. *)
(* Connections are interchangeable, so which unopened one it is is CHOOSEn. *)
Connect(t) ==
    /\ pc[t] = "connect"
    /\ Free # {}
    /\ LET c == CHOOSE c \in Free : TRUE
       IN  /\ build' = [build EXCEPT ![c] = file]
           /\ open' = open \cup {c}
           /\ conn' = [conn EXCEPT ![t] = c]
    /\ pc' = [pc EXCEPT ![t] = "register"]
    /\ UNCHANGED <<file, life, closed, lock, registered, local, answer, late>>

(* self._connections.append(conn), and the with block ends. *)
Register(t) ==
    /\ pc[t] = "register"
    /\ registered' = registered \cup {conn[t]}
    /\ lock' = NoThread
    /\ pc' = [pc EXCEPT ![t] = "keep"]
    /\ UNCHANGED <<file_vars, life, closed, open, local, conn, answer, late>>

(* Mutant: the connection is kept in a plain attribute all threads read. *)
KeepForAll(t) ==
    /\ pc[t] = "keep"
    /\ local' = [u \in Threads |-> conn[t]]
    /\ pc' = [pc EXCEPT ![t] = "recheck"]
    /\ UNCHANGED <<file_vars, life, store_vars, conn, answer, late>>

(* self._local.conn = conn *)
Keep(t) ==
    /\ pc[t] = "keep"
    /\ local' = [local EXCEPT ![t] = conn[t]]
    /\ pc' = [pc EXCEPT ![t] = "recheck"]
    /\ UNCHANGED <<file_vars, life, store_vars, conn, answer, late>>

(* Mutant: a thread that has a connection is not checked again. *)
RecheckSkipped(t) ==
    /\ pc[t] = "recheck"
    /\ pc' = [pc EXCEPT ![t] = "execute"]
    /\ UNCHANGED <<file_vars, life, store_vars, local, conn, answer, late>>

(* The second _check_open(), outside the lock. *)
Recheck(t) ==
    /\ pc[t] = "recheck"
    /\ \/ /\ closed
          /\ Raise(t, StoreError)
       \/ /\ ~closed
          /\ pc' = [pc EXCEPT ![t] = "execute"]
          /\ UNCHANGED answer
    /\ UNCHANGED <<file_vars, life, store_vars, local, conn, late>>

Execute(t) ==
    /\ pc[t] = "execute"
    /\ \/ /\ conn[t] \in open
          /\ pc' = [pc EXCEPT ![t] = "fetch"]
          /\ UNCHANGED answer
       \/ /\ conn[t] \notin open
          /\ Raise(t, ProgrammingError)
    /\ UNCHANGED <<file_vars, life, store_vars, local, conn, late>>

Fetch(t) ==
    /\ pc[t] = "fetch"
    /\ \/ /\ conn[t] \in open
          /\ life = "checking"
          /\ Checked(t, build[conn[t]])
          /\ UNCHANGED answer
       \/ /\ conn[t] \in open
          /\ life # "checking"
          /\ pc' = [pc EXCEPT ![t] = "idle"]
          /\ answer' = [answer EXCEPT ![t] = build[conn[t]]]
          /\ UNCHANGED life
       \/ /\ conn[t] \notin open
          /\ Raise(t, ProgrammingError)
          /\ UNCHANGED life
    /\ UNCHANGED <<file_vars, store_vars, local, conn, late>>

-----------------------------------------------------------------------------
(* close() *)

CloseCall(t) ==
    /\ life = "open"
    /\ pc[t] = "idle"
    /\ pc' = [pc EXCEPT ![t] = "close_acquire"]
    /\ UNCHANGED <<file_vars, life, store_vars, local, conn, answer, late>>

CloseAcquire(t) ==
    /\ pc[t] = "close_acquire"
    /\ lock = NoThread
    /\ lock' = t
    /\ pc' = [pc EXCEPT ![t] = "close_flag"]
    /\ UNCHANGED <<file_vars, life, closed, registered, open,
                   local, conn, answer, late>>

CloseFlag(t) ==
    /\ pc[t] = "close_flag"
    /\ closed' = TRUE
    /\ pc' = [pc EXCEPT ![t] = "close_each"]
    /\ UNCHANGED <<file_vars, life, lock, registered, open,
                   local, conn, answer, late>>

(* One conn.close() of the loop. *)
CloseEach(t) ==
    /\ pc[t] = "close_each"
    /\ \E c \in registered \cap open : open' = open \ {c}
    /\ UNCHANGED <<file_vars, life, closed, lock, registered, thread_vars>>

(* The loop is over: the list is cleared and the lock released. *)
CloseDone(t) ==
    /\ pc[t] = "close_each"
    /\ registered \cap open = {}
    /\ registered' = {}
    /\ lock' = NoThread
    /\ pc' = [pc EXCEPT ![t] = "idle"]
    /\ life' = IF life = "refused" THEN "failed" ELSE life
    /\ UNCHANGED <<file_vars, closed, open, local, conn, answer, late>>

-----------------------------------------------------------------------------
Step(t) ==
    \/ Lookup(t) \/ Acquire(t) \/ Guard(t) \/ Connect(t) \/ Register(t)
    \/ Keep(t) \/ Recheck(t) \/ Execute(t) \/ Fetch(t)
    \/ CloseAcquire(t) \/ CloseFlag(t) \/ CloseEach(t) \/ CloseDone(t)

Next ==
    \/ Replace
    \/ Construct
    \/ ConstructMissing
    \/ \E t \in Threads : Query(t) \/ CloseCall(t) \/ ThreadExit(t) \/ Step(t)

Spec == Init /\ [][Next]_vars

(* A thread that has started keeps running.  A lock that is free again and  *)
(* again is eventually granted: threading.Lock is not fair by contract, and *)
(* this is the one assumption about the scheduler beyond progress.          *)
Fairness == \A t \in Threads : /\ WF_vars(Step(t))
                               /\ SF_vars(Acquire(t))
                               /\ SF_vars(CloseAcquire(t))

FairSpec == Spec /\ Fairness

-----------------------------------------------------------------------------
(* Properties *)

(* Once close() has set the flag and released the lock no connection is     *)
(* open: close() cannot miss one that another thread is just opening.       *)
NoConnectionOutlivesClose == closed /\ lock = NoThread => open = {}

(* No two threads ever hold the same connection, although any thread may    *)
(* close all of them.                                                       *)
ConnectionsAreNotShared ==
    \A t, u \in Threads : t # u /\ local[t] # NoConn => local[t] # conn[u]

(* A constructor that raises leaves no connection open behind it.           *)
FailedOpenLeavesNothing == life = "failed" => open = {}

(* Neither close() nor a constructor that raises leaves one behind.         *)
NoConnectionIsLeft == NoConnectionOutlivesClose /\ FailedOpenLeavesNothing

(* While one thread lives, everything it reads comes from one build, no     *)
(* matter how often the artifact is replaced meanwhile.                     *)
OneBuildPerThread ==
    [][\A t \in Threads :
          answer[t] \in Builds /\ answer'[t] \in Builds => answer'[t] = answer[t]]_vars

(* Every query and every close() returns.                                   *)
EveryCallReturns == \A t \in Threads : pc[t] # "idle" ~> pc[t] = "idle"

(* The promise of StoreContract, kept: queries and close() are ordered as   *)
(* the contract says.  A close is over once the last connection is closed.  *)
Phase == CASE life \in {"new", "checking", "refused"} -> "unopened"
           [] life = "failed"                         -> "closed"
           [] life = "open" /\ ~closed                -> "open"
           [] life = "open" /\ closed /\ open # {}    -> "closing"
           [] OTHER                                   -> "closed"

InQuery == {"lookup", "acquire", "guard", "connect", "register", "keep",
            "recheck", "execute", "fetch"}

CallOf(t) == IF life = "open" /\ pc[t] \in InQuery
             THEN IF late[t] THEN "late" ELSE "early"
             ELSE "idle"

Contract == INSTANCE StoreContract
              WITH phase <- Phase, call <- [t \in Threads |-> CallOf(t)]

(* Every behaviour of the store is one the contract allows: a query that    *)
(* starts after close() began is refused with StoreError, an earlier one    *)
(* answers or is cut off, and a closed store stays closed.                  *)
KeepsContract == Contract!Spec

(* Whatever a query on a closed store raises is StoreError (the Raises      *)
(* section of _conn).                                                       *)
OnlyStoreErrorIsRaised == \A t \in Threads : answer[t] # ProgrammingError
=============================================================================
