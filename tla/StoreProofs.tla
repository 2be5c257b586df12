---------------------------- MODULE StoreProofs ----------------------------
(***************************************************************************)
(* Theorems of Store: its invariants hold for every set of threads,        *)
(* connections and builds.  They follow from one inductive invariant,      *)
(* IInv, which says who holds the lock, where an open connection is        *)
(* recorded, whose each connection is, and what __init__ still has to do.  *)
(***************************************************************************)
EXTENDS Store, TLAPS

(* The lock is held exactly by the thread inside a with block. *)
LockInv == \A t \in Threads : lock = t <=> pc[t] \in Guarded

(* What the flag is known to be at each guarded step. *)
FlagInv == \A t \in Threads :
    /\ pc[t] \in {"connect", "register"} => ~closed
    /\ pc[t] = "close_each" => closed

(* An open connection is registered, or about to be by the lock's holder. *)
KnownInv == \A c \in open :
    c \in registered \/ \E t \in Threads : pc[t] = "register" /\ conn[t] = c

(* When the flag is set and no close() is in its loop, nothing is open. *)
ClosedInv == closed /\ (\A t \in Threads : pc[t] # "close_each") => open = {}

(* How far __init__ got, and where its thread is; the others have not begun. *)
LifeInv ==
    /\ life # "open" => \A t \in Threads \ {Opener} : pc[t] = "idle"
    /\ life \in {"new", "failed"} => pc[Opener] = "idle" /\ open = {}
    /\ life = "checking" => pc[Opener] \notin {"close_acquire", "close_flag", "close_each"}
    /\ life = "refused" => pc[Opener] \in {"close_acquire", "close_flag", "close_each"}
    /\ life \in {"checking", "refused", "open"} => file # NoBuild

(* A thread keeps the one connection it opened. *)
OwnInv == \A t \in Threads :
    /\ conn[t] # NoConn => build[conn[t]] # NoBuild
    /\ pc[t] \in {"acquire", "guard", "connect", "register", "keep"} => local[t] = NoConn
    /\ pc[t] \notin {"register", "keep"} => conn[t] = local[t]
    /\ pc[t] \in {"register", "keep", "recheck", "execute", "fetch"} => conn[t] # NoConn

(* No connection is held by two threads. *)
DisjointInv == \A t, u \in Threads :
    t # u /\ conn[t] # NoConn => conn[t] # conn[u]

(* A thread's last answer is the build of the connection it keeps. *)
PinnedInv == \A t \in Threads :
    answer[t] \in Builds => local[t] # NoConn /\ build[local[t]] = answer[t]

(* Until close() sets the flag every connection made is open, and __init__ *)
(* sets it only when it refuses the artifact.                               *)
OpenInv == /\ ~closed => \A c \in Conns : build[c] # NoBuild => c \in open
           /\ life \in {"new", "checking"} => ~closed

(* A query that began after the flag was set gets no further than a check.  *)
LateInv == \A t \in Threads : late[t] =>
    /\ closed
    /\ pc[t] \notin {"connect", "register", "keep", "execute", "fetch"}

IInv == /\ TypeOK /\ LockInv /\ FlagInv /\ KnownInv /\ ClosedInv /\ LifeInv
        /\ OwnInv /\ DisjointInv /\ PinnedInv /\ OpenInv /\ LateInv

(* The strengthened invariant holds when no store exists yet. *)
LEMMA InitIInv == Init => IInv
<1> SUFFICES ASSUME Init PROVE IInv
  OBVIOUS
<1> USE ThreadsAssumption, ConnsAssumption, BuildsAssumption, AnswersAssumption DEF Init
<1>1. TypeOK
  BY DEF TypeOK, Steps, Answers
<1>2. LockInv /\ FlagInv /\ KnownInv /\ ClosedInv /\ LifeInv
  BY DEF LockInv, FlagInv, KnownInv, ClosedInv, LifeInv, Guarded
<1>3. OwnInv /\ DisjointInv /\ PinnedInv /\ OpenInv /\ LateInv
  BY DEF OwnInv, DisjointInv, PinnedInv, OpenInv, LateInv
<1> QED
  BY <1>1, <1>2, <1>3 DEF IInv

(* Every step of a thread, or of the environment, preserves it. *)
LEMMA NextIInv == IInv /\ [Next]_vars => IInv'
<1> SUFFICES ASSUME IInv, [Next]_vars PROVE IInv'
  OBVIOUS
<1> USE ThreadsAssumption, ConnsAssumption, BuildsAssumption, AnswersAssumption
    DEF IInv, file_vars, store_vars, thread_vars, Guarded
<1>1. CASE Replace
  <2>1. TypeOK'
    BY <1>1 DEF Replace, TypeOK, Steps, Answers, Free, OwnInv
  <2>2. LifeInv'
    BY <1>1 DEF Replace, TypeOK, LockInv, LifeInv, OwnInv, KnownInv,
        ClosedInv, Steps
  <2>3. LockInv' /\ FlagInv' /\ KnownInv' /\ ClosedInv' /\ OwnInv' /\ DisjointInv' /\ PinnedInv' /\ OpenInv' /\ LateInv'
    BY <1>1 DEF Replace, LockInv, FlagInv, KnownInv, ClosedInv, OwnInv,
        DisjointInv, PinnedInv, OpenInv, LateInv
  <2> QED
    BY <2>1, <2>2, <2>3
<1>2. CASE Construct
  <2>1. TypeOK'
    BY <1>2 DEF Construct, TypeOK, Steps, Answers, Free, OwnInv
  <2>2. LockInv'
    BY <1>2 DEF Construct, TypeOK, LockInv, LifeInv, OwnInv
  <2>3. FlagInv'
    BY <1>2 DEF Construct, TypeOK, LockInv, LifeInv, OwnInv, FlagInv
  <2>4. KnownInv'
    BY <1>2 DEF Construct, TypeOK, LockInv, LifeInv, OwnInv, KnownInv
  <2>5. ClosedInv'
    BY <1>2 DEF Construct, TypeOK, LockInv, LifeInv, OwnInv, ClosedInv,
        FlagInv, KnownInv
  <2>6. LifeInv'
    BY <1>2 DEF Construct, TypeOK, LockInv, LifeInv, OwnInv, KnownInv,
        ClosedInv, Steps
  <2>7. OwnInv'
    BY <1>2 DEF Construct, TypeOK, LockInv, LifeInv, OwnInv
  <2>8. OpenInv'
    BY <1>2 DEF Construct, TypeOK, LockInv, LifeInv, OwnInv, OpenInv,
        FlagInv
  <2>9. LateInv'
    BY <1>2 DEF Construct, TypeOK, LockInv, LifeInv, OwnInv, LateInv,
        FlagInv
  <2>10. DisjointInv' /\ PinnedInv'
    BY <1>2 DEF Construct, DisjointInv, PinnedInv
  <2> QED
    BY <2>1, <2>2, <2>3, <2>4, <2>5, <2>6, <2>7, <2>8, <2>9, <2>10
<1>3. CASE ConstructMissing
  <2>1. TypeOK'
    BY <1>3 DEF ConstructMissing, TypeOK, Steps, Answers, Free, OwnInv
  <2>2. LifeInv'
    BY <1>3 DEF ConstructMissing, TypeOK, LockInv, LifeInv, OwnInv,
        KnownInv, ClosedInv, Steps
  <2>3. OpenInv'
    BY <1>3 DEF ConstructMissing, TypeOK, LockInv, LifeInv, OwnInv, OpenInv,
        FlagInv
  <2>4. LockInv' /\ FlagInv' /\ KnownInv' /\ ClosedInv' /\ OwnInv' /\ DisjointInv' /\ PinnedInv' /\ LateInv'
    BY <1>3 DEF ConstructMissing, LockInv, FlagInv, KnownInv, ClosedInv,
        OwnInv, DisjointInv, PinnedInv, LateInv
  <2> QED
    BY <2>1, <2>2, <2>3, <2>4
<1>4. ASSUME NEW t \in Threads, Query(t) PROVE IInv'
  <2>1. TypeOK'
    BY <1>4 DEF Query, TypeOK, Steps, Answers, Free, OwnInv
  <2>2. LockInv'
    BY <1>4 DEF Query, TypeOK, LockInv, LifeInv, OwnInv
  <2>3. FlagInv'
    BY <1>4 DEF Query, TypeOK, LockInv, LifeInv, OwnInv, FlagInv
  <2>4. KnownInv'
    BY <1>4 DEF Query, TypeOK, LockInv, LifeInv, OwnInv, KnownInv
  <2>5. ClosedInv'
    BY <1>4 DEF Query, TypeOK, LockInv, LifeInv, OwnInv, ClosedInv, FlagInv,
        KnownInv
  <2>6. LifeInv'
    BY <1>4 DEF Query, TypeOK, LockInv, LifeInv, OwnInv, KnownInv,
        ClosedInv, Steps
  <2>7. OwnInv'
    BY <1>4 DEF Query, TypeOK, LockInv, LifeInv, OwnInv
  <2>8. LateInv'
    BY <1>4 DEF Query, TypeOK, LockInv, LifeInv, OwnInv, LateInv, FlagInv
  <2>9. DisjointInv' /\ PinnedInv' /\ OpenInv'
    BY <1>4 DEF Query, DisjointInv, PinnedInv, OpenInv
  <2> QED
    BY <2>1, <2>2, <2>3, <2>4, <2>5, <2>6, <2>7, <2>8, <2>9
<1>5. ASSUME NEW t \in Threads, CloseCall(t) PROVE IInv'
  <2>1. TypeOK'
    BY <1>5 DEF CloseCall, TypeOK, Steps, Answers, Free, OwnInv
  <2>2. LockInv'
    BY <1>5 DEF CloseCall, TypeOK, LockInv, LifeInv, OwnInv
  <2>3. FlagInv'
    BY <1>5 DEF CloseCall, TypeOK, LockInv, LifeInv, OwnInv, FlagInv
  <2>4. KnownInv'
    BY <1>5 DEF CloseCall, TypeOK, LockInv, LifeInv, OwnInv, KnownInv
  <2>5. ClosedInv'
    BY <1>5 DEF CloseCall, TypeOK, LockInv, LifeInv, OwnInv, ClosedInv,
        FlagInv, KnownInv
  <2>6. LifeInv'
    BY <1>5 DEF CloseCall, TypeOK, LockInv, LifeInv, OwnInv, KnownInv,
        ClosedInv, Steps
  <2>7. OwnInv'
    BY <1>5 DEF CloseCall, TypeOK, LockInv, LifeInv, OwnInv
  <2>8. LateInv'
    BY <1>5 DEF CloseCall, TypeOK, LockInv, LifeInv, OwnInv, LateInv,
        FlagInv
  <2>9. DisjointInv' /\ PinnedInv' /\ OpenInv'
    BY <1>5 DEF CloseCall, DisjointInv, PinnedInv, OpenInv
  <2> QED
    BY <2>1, <2>2, <2>3, <2>4, <2>5, <2>6, <2>7, <2>8, <2>9
<1>6. ASSUME NEW t \in Threads, ThreadExit(t) PROVE IInv'
  <2>1. TypeOK'
    BY <1>6 DEF ThreadExit, TypeOK, Steps, Answers, Free, OwnInv
  <2>2. KnownInv'
    BY <1>6 DEF ThreadExit, TypeOK, LockInv, LifeInv, OwnInv, KnownInv
  <2>3. OwnInv'
    BY <1>6 DEF ThreadExit, TypeOK, LockInv, LifeInv, OwnInv
  <2>4. DisjointInv'
    BY <1>6 DEF ThreadExit, TypeOK, LockInv, LifeInv, OwnInv, DisjointInv
  <2>5. PinnedInv'
    BY <1>6 DEF ThreadExit, TypeOK, LockInv, LifeInv, OwnInv, PinnedInv,
        Answers
  <2>6. LockInv' /\ FlagInv' /\ ClosedInv' /\ LifeInv' /\ OpenInv' /\ LateInv'
    BY <1>6 DEF ThreadExit, LockInv, FlagInv, ClosedInv, LifeInv, OpenInv,
        LateInv
  <2> QED
    BY <2>1, <2>2, <2>3, <2>4, <2>5, <2>6
<1>7. ASSUME NEW t \in Threads, Lookup(t) PROVE IInv'
  <2>1. TypeOK'
    BY <1>7 DEF Lookup, TypeOK, Steps, Answers, Free, OwnInv
  <2>2. LockInv'
    BY <1>7 DEF Lookup, TypeOK, LockInv, LifeInv, OwnInv
  <2>3. FlagInv'
    BY <1>7 DEF Lookup, TypeOK, LockInv, LifeInv, OwnInv, FlagInv
  <2>4. KnownInv'
    BY <1>7 DEF Lookup, TypeOK, LockInv, LifeInv, OwnInv, KnownInv
  <2>5. ClosedInv'
    BY <1>7 DEF Lookup, TypeOK, LockInv, LifeInv, OwnInv, ClosedInv,
        FlagInv, KnownInv
  <2>6. LifeInv'
    BY <1>7 DEF Lookup, TypeOK, LockInv, LifeInv, OwnInv, KnownInv,
        ClosedInv, Steps
  <2>7. OwnInv'
    BY <1>7 DEF Lookup, TypeOK, LockInv, LifeInv, OwnInv
  <2>8. DisjointInv'
    BY <1>7 DEF Lookup, TypeOK, LockInv, LifeInv, OwnInv, DisjointInv
  <2>9. LateInv'
    BY <1>7 DEF Lookup, TypeOK, LockInv, LifeInv, OwnInv, LateInv, FlagInv
  <2>10. PinnedInv' /\ OpenInv'
    BY <1>7 DEF Lookup, PinnedInv, OpenInv
  <2> QED
    BY <2>1, <2>2, <2>3, <2>4, <2>5, <2>6, <2>7, <2>8, <2>9, <2>10
<1>8. ASSUME NEW t \in Threads, Acquire(t) PROVE IInv'
  <2>1. TypeOK'
    BY <1>8 DEF Acquire, TypeOK, Steps, Answers, Free, OwnInv
  <2>2. LockInv'
    BY <1>8 DEF Acquire, TypeOK, LockInv, LifeInv, OwnInv
  <2>3. FlagInv'
    BY <1>8 DEF Acquire, TypeOK, LockInv, LifeInv, OwnInv, FlagInv
  <2>4. KnownInv'
    BY <1>8 DEF Acquire, TypeOK, LockInv, LifeInv, OwnInv, KnownInv
  <2>5. ClosedInv'
    BY <1>8 DEF Acquire, TypeOK, LockInv, LifeInv, OwnInv, ClosedInv,
        FlagInv, KnownInv
  <2>6. LifeInv'
    BY <1>8 DEF Acquire, TypeOK, LockInv, LifeInv, OwnInv, KnownInv,
        ClosedInv, Steps
  <2>7. OwnInv'
    BY <1>8 DEF Acquire, TypeOK, LockInv, LifeInv, OwnInv
  <2>8. LateInv'
    BY <1>8 DEF Acquire, TypeOK, LockInv, LifeInv, OwnInv, LateInv, FlagInv
  <2>9. DisjointInv' /\ PinnedInv' /\ OpenInv'
    BY <1>8 DEF Acquire, DisjointInv, PinnedInv, OpenInv
  <2> QED
    BY <2>1, <2>2, <2>3, <2>4, <2>5, <2>6, <2>7, <2>8, <2>9
<1>9. ASSUME NEW t \in Threads, Guard(t) PROVE IInv'
  <2>1. TypeOK'
    BY <1>9 DEF Guard, Raise, TypeOK, Steps, Answers, Free, OwnInv
  <2>2. LockInv'
    BY <1>9 DEF Guard, Raise, TypeOK, LockInv, LifeInv, OwnInv
  <2>3. FlagInv'
    BY <1>9 DEF Guard, Raise, TypeOK, LockInv, LifeInv, OwnInv, FlagInv
  <2>4. KnownInv'
    BY <1>9 DEF Guard, Raise, TypeOK, LockInv, LifeInv, OwnInv, KnownInv
  <2>5. ClosedInv'
    BY <1>9 DEF Guard, Raise, TypeOK, LockInv, LifeInv, OwnInv, ClosedInv,
        FlagInv, KnownInv
  <2>6. LifeInv'
    BY <1>9 DEF Guard, Raise, TypeOK, LockInv, LifeInv, OwnInv, KnownInv,
        ClosedInv, Steps
  <2>7. OwnInv'
    BY <1>9 DEF Guard, Raise, TypeOK, LockInv, LifeInv, OwnInv
  <2>8. PinnedInv'
    BY <1>9 DEF Guard, Raise, TypeOK, LockInv, LifeInv, OwnInv, PinnedInv,
        Answers
  <2>9. LateInv'
    BY <1>9 DEF Guard, Raise, TypeOK, LockInv, LifeInv, OwnInv, LateInv,
        FlagInv
  <2>10. DisjointInv' /\ OpenInv'
    BY <1>9 DEF Guard, Raise, DisjointInv, OpenInv
  <2> QED
    BY <2>1, <2>2, <2>3, <2>4, <2>5, <2>6, <2>7, <2>8, <2>9, <2>10
<1>10. ASSUME NEW t \in Threads, Connect(t) PROVE IInv'
  <2>1. TypeOK'
    BY <1>10 DEF Connect, TypeOK, Steps, Answers, Free, OwnInv, FlagInv
  <2>2. LockInv'
    BY <1>10 DEF Connect, TypeOK, LockInv, LifeInv, OwnInv, Free, FlagInv
  <2>3. FlagInv'
    BY <1>10 DEF Connect, TypeOK, LockInv, LifeInv, OwnInv, FlagInv, Free
  <2>4. KnownInv'
    BY <1>10 DEF Connect, TypeOK, LockInv, LifeInv, OwnInv, KnownInv, Free,
        FlagInv
  <2>5. ClosedInv'
    BY <1>10 DEF Connect, TypeOK, LockInv, LifeInv, OwnInv, ClosedInv, Free,
        FlagInv, KnownInv
  <2>6. LifeInv'
    BY <1>10 DEF Connect, TypeOK, LockInv, LifeInv, OwnInv, Free, FlagInv,
        KnownInv, ClosedInv, Steps
  <2>7. OwnInv'
    BY <1>10 DEF Connect, TypeOK, LockInv, LifeInv, OwnInv, Free, FlagInv
  <2>8. DisjointInv'
    BY <1>10 DEF Connect, TypeOK, LockInv, LifeInv, OwnInv, DisjointInv,
        Free, FlagInv
  <2>9. PinnedInv'
    BY <1>10 DEF Connect, TypeOK, LockInv, LifeInv, OwnInv, PinnedInv, Free,
        FlagInv, Answers
  <2>10. OpenInv'
    BY <1>10 DEF Connect, TypeOK, LockInv, LifeInv, OwnInv, OpenInv, Free,
        FlagInv
  <2>11. LateInv'
    BY <1>10 DEF Connect, TypeOK, LockInv, LifeInv, OwnInv, LateInv, Free,
        FlagInv
  <2> QED
    BY <2>1, <2>2, <2>3, <2>4, <2>5, <2>6, <2>7, <2>8, <2>9, <2>10, <2>11
<1>11. ASSUME NEW t \in Threads, Register(t) PROVE IInv'
  <2>1. TypeOK'
    BY <1>11 DEF Register, TypeOK, Steps, Answers, Free, OwnInv
  <2>2. LockInv'
    BY <1>11 DEF Register, TypeOK, LockInv, LifeInv, OwnInv
  <2>3. FlagInv'
    BY <1>11 DEF Register, TypeOK, LockInv, LifeInv, OwnInv, FlagInv
  <2>4. KnownInv'
    BY <1>11 DEF Register, TypeOK, LockInv, LifeInv, OwnInv, KnownInv
  <2>5. ClosedInv'
    BY <1>11 DEF Register, TypeOK, LockInv, LifeInv, OwnInv, ClosedInv,
        FlagInv, KnownInv
  <2>6. LifeInv'
    BY <1>11 DEF Register, TypeOK, LockInv, LifeInv, OwnInv, KnownInv,
        ClosedInv, Steps
  <2>7. OwnInv'
    BY <1>11 DEF Register, TypeOK, LockInv, LifeInv, OwnInv
  <2>8. LateInv'
    BY <1>11 DEF Register, TypeOK, LockInv, LifeInv, OwnInv, LateInv,
        FlagInv
  <2>9. DisjointInv' /\ PinnedInv' /\ OpenInv'
    BY <1>11 DEF Register, DisjointInv, PinnedInv, OpenInv
  <2> QED
    BY <2>1, <2>2, <2>3, <2>4, <2>5, <2>6, <2>7, <2>8, <2>9
<1>12. ASSUME NEW t \in Threads, Keep(t) PROVE IInv'
  <2>1. TypeOK'
    BY <1>12 DEF Keep, TypeOK, Steps, Answers, Free, OwnInv
  <2>2. LockInv'
    BY <1>12 DEF Keep, TypeOK, LockInv, LifeInv, OwnInv
  <2>3. FlagInv'
    BY <1>12 DEF Keep, TypeOK, LockInv, LifeInv, OwnInv, FlagInv
  <2>4. KnownInv'
    BY <1>12 DEF Keep, TypeOK, LockInv, LifeInv, OwnInv, KnownInv
  <2>5. ClosedInv'
    BY <1>12 DEF Keep, TypeOK, LockInv, LifeInv, OwnInv, ClosedInv, FlagInv,
        KnownInv
  <2>6. LifeInv'
    BY <1>12 DEF Keep, TypeOK, LockInv, LifeInv, OwnInv, KnownInv,
        ClosedInv, Steps
  <2>7. OwnInv'
    BY <1>12 DEF Keep, TypeOK, LockInv, LifeInv, OwnInv
  <2>8. PinnedInv'
    BY <1>12 DEF Keep, TypeOK, LockInv, LifeInv, OwnInv, PinnedInv, Answers
  <2>9. LateInv'
    BY <1>12 DEF Keep, TypeOK, LockInv, LifeInv, OwnInv, LateInv, FlagInv
  <2>10. DisjointInv' /\ OpenInv'
    BY <1>12 DEF Keep, DisjointInv, OpenInv
  <2> QED
    BY <2>1, <2>2, <2>3, <2>4, <2>5, <2>6, <2>7, <2>8, <2>9, <2>10
<1>13. ASSUME NEW t \in Threads, Recheck(t) PROVE IInv'
  <2>1. TypeOK'
    BY <1>13 DEF Recheck, Raise, TypeOK, Steps, Answers, Free, OwnInv
  <2>2. LockInv'
    BY <1>13 DEF Recheck, Raise, TypeOK, LockInv, LifeInv, OwnInv
  <2>3. FlagInv'
    BY <1>13 DEF Recheck, Raise, TypeOK, LockInv, LifeInv, OwnInv, FlagInv
  <2>4. KnownInv'
    BY <1>13 DEF Recheck, Raise, TypeOK, LockInv, LifeInv, OwnInv, KnownInv
  <2>5. ClosedInv'
    BY <1>13 DEF Recheck, Raise, TypeOK, LockInv, LifeInv, OwnInv,
        ClosedInv, FlagInv, KnownInv
  <2>6. LifeInv'
    BY <1>13 DEF Recheck, Raise, TypeOK, LockInv, LifeInv, OwnInv, KnownInv,
        ClosedInv, Steps
  <2>7. OwnInv'
    BY <1>13 DEF Recheck, Raise, TypeOK, LockInv, LifeInv, OwnInv
  <2>8. PinnedInv'
    BY <1>13 DEF Recheck, Raise, TypeOK, LockInv, LifeInv, OwnInv,
        PinnedInv, Answers
  <2>9. LateInv'
    BY <1>13 DEF Recheck, Raise, TypeOK, LockInv, LifeInv, OwnInv, LateInv,
        FlagInv
  <2>10. DisjointInv' /\ OpenInv'
    BY <1>13 DEF Recheck, Raise, DisjointInv, OpenInv
  <2> QED
    BY <2>1, <2>2, <2>3, <2>4, <2>5, <2>6, <2>7, <2>8, <2>9, <2>10
<1>14. ASSUME NEW t \in Threads, Execute(t) PROVE IInv'
  <2>1. TypeOK'
    BY <1>14 DEF Execute, Raise, TypeOK, Steps, Answers, Free, OwnInv
  <2>2. LockInv'
    BY <1>14 DEF Execute, Raise, TypeOK, LockInv, LifeInv, OwnInv
  <2>3. FlagInv'
    BY <1>14 DEF Execute, Raise, TypeOK, LockInv, LifeInv, OwnInv, FlagInv
  <2>4. KnownInv'
    BY <1>14 DEF Execute, Raise, TypeOK, LockInv, LifeInv, OwnInv, KnownInv
  <2>5. ClosedInv'
    BY <1>14 DEF Execute, Raise, TypeOK, LockInv, LifeInv, OwnInv,
        ClosedInv, FlagInv, KnownInv
  <2>6. LifeInv'
    BY <1>14 DEF Execute, Raise, TypeOK, LockInv, LifeInv, OwnInv, KnownInv,
        ClosedInv, Steps
  <2>7. OwnInv'
    BY <1>14 DEF Execute, Raise, TypeOK, LockInv, LifeInv, OwnInv
  <2>8. PinnedInv'
    BY <1>14 DEF Execute, Raise, TypeOK, LockInv, LifeInv, OwnInv,
        PinnedInv, Answers
  <2>9. LateInv'
    BY <1>14 DEF Execute, Raise, TypeOK, LockInv, LifeInv, OwnInv, LateInv,
        FlagInv
  <2>10. DisjointInv' /\ OpenInv'
    BY <1>14 DEF Execute, Raise, DisjointInv, OpenInv
  <2> QED
    BY <2>1, <2>2, <2>3, <2>4, <2>5, <2>6, <2>7, <2>8, <2>9, <2>10
<1>15. ASSUME NEW t \in Threads, Fetch(t) PROVE IInv'
  <2>1. TypeOK'
    BY <1>15 DEF Fetch, Raise, Checked, TypeOK, Steps, Answers, Free, OwnInv
  <2>2. LockInv'
    BY <1>15 DEF Fetch, Raise, Checked, TypeOK, LockInv, LifeInv, OwnInv
  <2>3. FlagInv'
    BY <1>15 DEF Fetch, Raise, Checked, TypeOK, LockInv, LifeInv, OwnInv,
        FlagInv
  <2>4. KnownInv'
    BY <1>15 DEF Fetch, Raise, Checked, TypeOK, LockInv, LifeInv, OwnInv,
        KnownInv
  <2>5. ClosedInv'
    BY <1>15 DEF Fetch, Raise, Checked, TypeOK, LockInv, LifeInv, OwnInv,
        ClosedInv, FlagInv, KnownInv
  <2>6. LifeInv'
    BY <1>15 DEF Fetch, Raise, Checked, TypeOK, LockInv, LifeInv, OwnInv,
        KnownInv, ClosedInv, Steps
  <2>7. OwnInv'
    BY <1>15 DEF Fetch, Raise, Checked, TypeOK, LockInv, LifeInv, OwnInv
  <2>8. PinnedInv'
    BY <1>15 DEF Fetch, Raise, Checked, TypeOK, LockInv, LifeInv, OwnInv,
        PinnedInv, Answers
  <2>9. OpenInv'
    BY <1>15 DEF Fetch, Raise, Checked, TypeOK, LockInv, LifeInv, OwnInv,
        OpenInv, FlagInv
  <2>10. LateInv'
    BY <1>15 DEF Fetch, Raise, Checked, TypeOK, LockInv, LifeInv, OwnInv,
        LateInv, FlagInv
  <2>11. DisjointInv'
    BY <1>15 DEF Fetch, Raise, Checked, DisjointInv
  <2> QED
    BY <2>1, <2>2, <2>3, <2>4, <2>5, <2>6, <2>7, <2>8, <2>9, <2>10, <2>11
<1>16. ASSUME NEW t \in Threads, CloseAcquire(t) PROVE IInv'
  <2>1. TypeOK'
    BY <1>16 DEF CloseAcquire, TypeOK, Steps, Answers, Free, OwnInv
  <2>2. LockInv'
    BY <1>16 DEF CloseAcquire, TypeOK, LockInv, LifeInv, OwnInv
  <2>3. FlagInv'
    BY <1>16 DEF CloseAcquire, TypeOK, LockInv, LifeInv, OwnInv, FlagInv
  <2>4. KnownInv'
    BY <1>16 DEF CloseAcquire, TypeOK, LockInv, LifeInv, OwnInv, KnownInv
  <2>5. ClosedInv'
    BY <1>16 DEF CloseAcquire, TypeOK, LockInv, LifeInv, OwnInv, ClosedInv,
        FlagInv, KnownInv
  <2>6. LifeInv'
    BY <1>16 DEF CloseAcquire, TypeOK, LockInv, LifeInv, OwnInv, KnownInv,
        ClosedInv, Steps
  <2>7. OwnInv'
    BY <1>16 DEF CloseAcquire, TypeOK, LockInv, LifeInv, OwnInv
  <2>8. LateInv'
    BY <1>16 DEF CloseAcquire, TypeOK, LockInv, LifeInv, OwnInv, LateInv,
        FlagInv
  <2>9. DisjointInv' /\ PinnedInv' /\ OpenInv'
    BY <1>16 DEF CloseAcquire, DisjointInv, PinnedInv, OpenInv
  <2> QED
    BY <2>1, <2>2, <2>3, <2>4, <2>5, <2>6, <2>7, <2>8, <2>9
<1>17. ASSUME NEW t \in Threads, CloseFlag(t) PROVE IInv'
  <2>1. TypeOK'
    BY <1>17 DEF CloseFlag, TypeOK, Steps, Answers, Free, OwnInv
  <2>2. LockInv'
    BY <1>17 DEF CloseFlag, TypeOK, LockInv, LifeInv, OwnInv
  <2>3. FlagInv'
    BY <1>17 DEF CloseFlag, TypeOK, LockInv, LifeInv, OwnInv, FlagInv
  <2>4. KnownInv'
    BY <1>17 DEF CloseFlag, TypeOK, LockInv, LifeInv, OwnInv, KnownInv
  <2>5. ClosedInv'
    BY <1>17 DEF CloseFlag, TypeOK, LockInv, LifeInv, OwnInv, ClosedInv,
        FlagInv, KnownInv
  <2>6. LifeInv'
    BY <1>17 DEF CloseFlag, TypeOK, LockInv, LifeInv, OwnInv, KnownInv,
        ClosedInv, Steps
  <2>7. OwnInv'
    BY <1>17 DEF CloseFlag, TypeOK, LockInv, LifeInv, OwnInv
  <2>8. OpenInv'
    BY <1>17 DEF CloseFlag, TypeOK, LockInv, LifeInv, OwnInv, OpenInv,
        FlagInv
  <2>9. LateInv'
    BY <1>17 DEF CloseFlag, TypeOK, LockInv, LifeInv, OwnInv, LateInv,
        FlagInv
  <2>10. DisjointInv' /\ PinnedInv'
    BY <1>17 DEF CloseFlag, DisjointInv, PinnedInv
  <2> QED
    BY <2>1, <2>2, <2>3, <2>4, <2>5, <2>6, <2>7, <2>8, <2>9, <2>10
<1>18. ASSUME NEW t \in Threads, CloseEach(t) PROVE IInv'
  <2>1. TypeOK'
    BY <1>18 DEF CloseEach, TypeOK, Steps, Answers, Free, OwnInv
  <2>2. KnownInv'
    BY <1>18 DEF CloseEach, TypeOK, LockInv, LifeInv, OwnInv, KnownInv
  <2>3. ClosedInv'
    BY <1>18 DEF CloseEach, TypeOK, LockInv, LifeInv, OwnInv, ClosedInv,
        FlagInv, KnownInv
  <2>4. LifeInv'
    BY <1>18 DEF CloseEach, TypeOK, LockInv, LifeInv, OwnInv, KnownInv,
        ClosedInv, Steps
  <2>5. OpenInv'
    BY <1>18 DEF CloseEach, TypeOK, LockInv, LifeInv, OwnInv, OpenInv,
        FlagInv
  <2>6. LockInv' /\ FlagInv' /\ OwnInv' /\ DisjointInv' /\ PinnedInv' /\ LateInv'
    BY <1>18 DEF CloseEach, LockInv, FlagInv, OwnInv, DisjointInv,
        PinnedInv, LateInv
  <2> QED
    BY <2>1, <2>2, <2>3, <2>4, <2>5, <2>6
<1>19. ASSUME NEW t \in Threads, CloseDone(t) PROVE IInv'
  <2>1. TypeOK'
    BY <1>19 DEF CloseDone, TypeOK, Steps, Answers, Free, OwnInv
  <2>2. LockInv'
    BY <1>19 DEF CloseDone, TypeOK, LockInv, LifeInv, OwnInv
  <2>3. FlagInv'
    BY <1>19 DEF CloseDone, TypeOK, LockInv, LifeInv, OwnInv, FlagInv
  <2>4. KnownInv'
    BY <1>19 DEF CloseDone, TypeOK, LockInv, LifeInv, OwnInv, KnownInv
  <2>5. ClosedInv'
    BY <1>19 DEF CloseDone, TypeOK, LockInv, LifeInv, OwnInv, ClosedInv,
        FlagInv, KnownInv
  <2>6. LifeInv'
    BY <1>19 DEF CloseDone, TypeOK, LockInv, LifeInv, OwnInv, KnownInv,
        ClosedInv, Steps
  <2>7. OwnInv'
    BY <1>19 DEF CloseDone, TypeOK, LockInv, LifeInv, OwnInv
  <2>8. OpenInv'
    BY <1>19 DEF CloseDone, TypeOK, LockInv, LifeInv, OwnInv, OpenInv,
        FlagInv
  <2>9. LateInv'
    BY <1>19 DEF CloseDone, TypeOK, LockInv, LifeInv, OwnInv, LateInv,
        FlagInv
  <2>10. DisjointInv' /\ PinnedInv'
    BY <1>19 DEF CloseDone, DisjointInv, PinnedInv
  <2> QED
    BY <2>1, <2>2, <2>3, <2>4, <2>5, <2>6, <2>7, <2>8, <2>9, <2>10
<1>20. CASE UNCHANGED vars
  BY <1>20 DEF vars, TypeOK, LockInv, FlagInv, KnownInv, ClosedInv, LifeInv,
        OwnInv, DisjointInv, PinnedInv, OpenInv, LateInv
<1> QED
  BY <1>1, <1>2, <1>3, <1>4, <1>5, <1>6, <1>7, <1>8, <1>9, <1>10, <1>11,
        <1>12, <1>13, <1>14, <1>15, <1>16, <1>17, <1>18, <1>19, <1>20 DEF Next, Step

-----------------------------------------------------------------------------
(* The strengthened invariant holds in every state the store reaches.       *)
THEOREM Invariance == Spec => []IInv
BY InitIInv, NextIInv, PTL DEF Spec

(* Every variable keeps its type. *)
THEOREM TypeCorrect == Spec => []TypeOK
<1>1. IInv => TypeOK
  BY DEF IInv
<1> QED
  BY <1>1, Invariance, PTL

(* close() misses no connection, for any number of threads. *)
THEOREM CloseIsComplete == Spec => []NoConnectionOutlivesClose
<1>1. IInv => NoConnectionOutlivesClose
  BY ThreadsAssumption
     DEF IInv, NoConnectionOutlivesClose, ClosedInv, LockInv, TypeOK, Guarded
<1> QED
  BY <1>1, Invariance, PTL

(* Two threads never hold one connection. *)
THEOREM ConnectionsArePrivate == Spec => []ConnectionsAreNotShared
<1>1. IInv => ConnectionsAreNotShared
  BY DEF IInv, ConnectionsAreNotShared, OwnInv, DisjointInv
<1> QED
  BY <1>1, Invariance, PTL

(* An __init__ that raises has closed what it opened. *)
THEOREM FailedOpenIsClean == Spec => []FailedOpenLeavesNothing
<1>1. IInv => FailedOpenLeavesNothing
  BY DEF IInv, FailedOpenLeavesNothing, LifeInv
<1> QED
  BY <1>1, Invariance, PTL

(* However often a store is opened, queried by any threads and closed, no   *)
(* connection stays open behind it.                                         *)
THEOREM EveryConnectionIsClosed == Spec => []NoConnectionIsLeft
BY CloseIsComplete, FailedOpenIsClean, PTL DEF NoConnectionIsLeft

(* A thread reads one build for as long as it lives. *)
THEOREM BuildIsPinned == Spec => OneBuildPerThread
<1> DEFINE Pinned == \A t \in Threads :
      answer[t] \in Builds /\ answer'[t] \in Builds => answer'[t] = answer[t]
<1>1. ASSUME IInv, IInv', [Next]_vars PROVE Pinned
  <2> SUFFICES ASSUME NEW t \in Threads, answer[t] \in Builds, answer'[t] \in Builds
               PROVE answer'[t] = answer[t]
    OBVIOUS
  <2>1. /\ local[t] # NoConn /\ build[local[t]] = answer[t]
        /\ local'[t] # NoConn /\ build'[local'[t]] = answer'[t]
    BY <1>1 DEF IInv, PinnedInv
  <2>2. local'[t] = local[t]
    <3>1. ASSUME NEW u \in Threads, ThreadExit(u) PROVE local'[t] = local[t]
      BY <3>1, <2>1, AnswersAssumption DEF IInv, TypeOK, ThreadExit
    <3>2. ASSUME NEW u \in Threads, Keep(u) PROVE local'[t] = local[t]
      BY <1>1, <3>2, <2>1 DEF IInv, TypeOK, OwnInv, Keep
    <3>3. ASSUME NEW u \in Threads, Step(u), ~Keep(u) PROVE UNCHANGED local
      BY <3>3 DEF Step, Lookup, Acquire, Guard, Connect, Register, Recheck, Execute,
                  Fetch, CloseAcquire, CloseFlag, CloseEach, CloseDone, thread_vars
    <3>4. ASSUME NEW u \in Threads, Query(u) \/ CloseCall(u) PROVE UNCHANGED local
      BY <3>4 DEF Query, CloseCall
    <3>5. CASE Replace \/ Construct \/ ConstructMissing \/ UNCHANGED vars
      BY <3>5 DEF Replace, Construct, ConstructMissing, vars, thread_vars
    <3> QED
      BY <1>1, <3>1, <3>2, <3>3, <3>4, <3>5 DEF Next
  <2>3. build'[local[t]] = build[local[t]]
    BY <1>1, <2>1, BuildsAssumption
       DEF IInv, TypeOK, OwnInv, Next, Step, vars, Replace, Construct, ConstructMissing,
           Query, CloseCall, ThreadExit, Lookup, Acquire, Guard, Connect, Register,
           Keep, Recheck, Execute, Fetch, CloseAcquire, CloseFlag, CloseEach,
           CloseDone, Checked, Raise, file_vars, store_vars, thread_vars, Free
  <2> QED
    BY <2>1, <2>2, <2>3
<1>2. IInv /\ IInv' /\ [Next]_vars => [Pinned]_vars
  BY <1>1
<1> QED
  BY <1>2, Invariance, PTL DEF Spec, OneBuildPerThread

-----------------------------------------------------------------------------
(* The refinement of StoreContract.                                          *)

Calls == [t \in Threads |-> CallOf(t)]

(* A store that is not constructed yet is an unopened one. *)
LEMMA RefinesInit == Init => Contract!Init
BY DEF Init, Contract!Init, Phase, CallOf

(* Steps that no client of the store can see: neither the phase, nor a      *)
(* query's standing, nor an answer changes.                                 *)
LEMMA SilentSteps ==
    ASSUME IInv, NEW t \in Threads,
           \/ Replace
           \/ Construct
           \/ CloseCall(t)
           \/ Lookup(t) \/ Acquire(t) \/ Connect(t) \/ Register(t) \/ Keep(t)
           \/ CloseAcquire(t)
    PROVE  UNCHANGED <<Phase, Calls, answer>>
<1> USE DEF IInv, TypeOK, file_vars, store_vars, thread_vars
<1>1. UNCHANGED answer /\ UNCHANGED late /\ UNCHANGED closed
  BY DEF Replace, Construct, CloseCall, Lookup, Acquire, Connect, Register, Keep,
         CloseAcquire
<1>2. UNCHANGED Phase
  BY DEF Replace, Construct, CloseCall, Lookup, Acquire, Connect, Register, Keep,
         CloseAcquire, Phase, FlagInv
<1>3. ASSUME NEW u \in Threads PROVE CallOf(u)' = CallOf(u)
  BY <1>1 DEF Replace, Construct, CloseCall, Lookup, Acquire, Connect, Register, Keep,
         CloseAcquire, CallOf, InQuery, LifeInv
<1> QED
  BY <1>1, <1>2, <1>3 DEF Calls

(* A query's last step ends it in the contract too.                         *)
LEMMA QueryEnds ==
    ASSUME IInv, NEW t \in Threads, life = "open", pc[t] \in InQuery,
           NEW e \in Contract!Endings(t),
           pc' = [pc EXCEPT ![t] = "idle"], answer' = [answer EXCEPT ![t] = e],
           UNCHANGED <<life, closed, open, late>>
    PROVE  Contract!End(t)
<1> USE DEF IInv, TypeOK
<1>1. CallOf(t) # "idle" /\ CallOf(t)' = "idle"
  BY DEF CallOf, InQuery
<1>2. ASSUME NEW u \in Threads, u # t PROVE CallOf(u)' = CallOf(u)
  BY <1>2 DEF CallOf
<1>3. Calls' = [Calls EXCEPT ![t] = "idle"]
  BY <1>1, <1>2 DEF Calls
<1>4. UNCHANGED Phase
  BY DEF Phase
<1> QED
  BY <1>1, <1>3, <1>4 DEF Contract!End, Calls

(* The checks and the reads: a step in the contract ends the query, or      *)
(* nothing is visible.                                                      *)
LEMMA ChecksRefine ==
    ASSUME IInv, NEW t \in Threads, Guard(t) \/ Recheck(t) \/ Execute(t)
    PROVE  Contract!End(t) \/ UNCHANGED <<Phase, Calls, answer>>
<1> USE DEF IInv, TypeOK, file_vars, store_vars, thread_vars
<1>1. UNCHANGED <<life, closed, open, late>>
  BY DEF Guard, Recheck, Execute
<1>2. CASE pc'[t] # "idle"
  <2>1. UNCHANGED answer
    BY <1>2 DEF Guard, Recheck, Execute, Raise
  <2>2. ASSUME NEW u \in Threads PROVE CallOf(u)' = CallOf(u)
    BY <1>1, <1>2 DEF Guard, Recheck, Execute, Raise, CallOf, InQuery
  <2> QED
    BY <1>1, <2>1, <2>2 DEF Phase, Calls
<1>3. CASE pc'[t] = "idle"
  <2>1. life = "open" /\ pc[t] \in InQuery
    BY <1>3, ThreadsAssumption
       DEF Guard, Recheck, Execute, Raise, InQuery, LifeInv, OpenInv, OwnInv
  <2>2. /\ pc' = [pc EXCEPT ![t] = "idle"]
        /\ \/ closed /\ answer' = [answer EXCEPT ![t] = StoreError]
           \/ /\ pc[t] = "execute" /\ conn[t] \notin open
              /\ answer' = [answer EXCEPT ![t] = ProgrammingError]
    BY <1>3 DEF Guard, Recheck, Execute, Raise
  <2>3. CASE closed /\ answer' = [answer EXCEPT ![t] = StoreError]
    <3>1. StoreError \in Contract!Endings(t)
      BY <2>1, <2>3 DEF Contract!Endings, Phase, CallOf
    <3> QED
      BY <1>1, <2>1, <2>2, <2>3, <3>1, QueryEnds
  <2>4. CASE pc[t] = "execute" /\ conn[t] \notin open
             /\ answer' = [answer EXCEPT ![t] = ProgrammingError]
    <3>1. closed /\ ~late[t]
      BY <2>4 DEF OpenInv, OwnInv, LateInv
    <3>2. ProgrammingError \in Contract!Endings(t)
      BY <2>1, <2>4, <3>1 DEF Contract!Endings, Phase, CallOf, InQuery
    <3> QED
      BY <1>1, <2>1, <2>2, <2>4, <3>2, QueryEnds
  <2> QED
    BY <2>2, <2>3, <2>4
<1> QED
  BY <1>2, <1>3

(* The last read of a query: it opens the store, or ends the query. *)
LEMMA FetchRefines ==
    ASSUME IInv, NEW t \in Threads, Fetch(t)
    PROVE  Contract!End(t) \/ Contract!Open \/ UNCHANGED <<Phase, Calls, answer>>
<1> USE DEF IInv, TypeOK, file_vars, store_vars, thread_vars
<1>1. pc[t] = "fetch" /\ ~late[t] /\ conn[t] \in Conns /\ build[conn[t]] \in Builds
  BY DEF Fetch, LateInv, OwnInv
<1>2. CASE life = "checking"
  <2>1. t = Opener /\ conn[t] \in open /\ ~closed
    BY <1>1, <1>2 DEF LifeInv, OpenInv, OwnInv
  <2>2. Checked(t, build[conn[t]]) /\ UNCHANGED answer
    BY <1>2, <2>1 DEF Fetch
  <2>3. ASSUME NEW u \in Threads PROVE CallOf(u) = "idle" /\ CallOf(u)' = "idle"
    BY <1>2, <2>1, <2>2, ThreadsAssumption DEF CallOf, InQuery, Checked, LifeInv
  <2>4. UNCHANGED Calls
    BY <2>3 DEF Calls
  <2>5. Phase = "unopened" /\ Phase' \in {"unopened", "open"}
    BY <1>2, <2>1, <2>2 DEF Phase, Checked, Fetch
  <2> QED
    BY <2>2, <2>4, <2>5 DEF Contract!Open, Calls
<1>3. CASE life # "checking"
  <2>1. life = "open"
    BY <1>1, <1>3 DEF LifeInv
  <2>2. /\ pc[t] \in InQuery /\ pc' = [pc EXCEPT ![t] = "idle"]
        /\ UNCHANGED <<life, closed, open, late>>
    BY <1>1, <1>3 DEF Fetch, InQuery, Raise
  <2>3. CASE conn[t] \in open /\ answer' = [answer EXCEPT ![t] = build[conn[t]]]
    <3>1. build[conn[t]] \in Contract!Endings(t)
      BY <1>1, <2>1, <2>2, <2>3 DEF Contract!Endings, Phase, CallOf
    <3> QED
      BY <2>1, <2>2, <2>3, <3>1, QueryEnds
  <2>4. CASE conn[t] \notin open /\ answer' = [answer EXCEPT ![t] = ProgrammingError]
    <3>1. closed
      BY <1>1, <2>4 DEF OpenInv, OwnInv
    <3>2. ProgrammingError \in Contract!Endings(t)
      BY <1>1, <2>1, <2>2, <3>1 DEF Contract!Endings, Phase, CallOf
    <3> QED
      BY <2>1, <2>2, <2>4, <3>2, QueryEnds
  <2> QED
    BY <1>3, <2>3, <2>4 DEF Fetch, Raise
<1> QED
  BY <1>2, <1>3

(* close(): the flag begins a close, the last connection ends it.           *)
LEMMA CloseRefines ==
    ASSUME IInv, NEW t \in Threads, CloseFlag(t) \/ CloseEach(t) \/ CloseDone(t)
    PROVE  Contract!Open \/ Contract!BeginClose \/ Contract!EndClose
           \/ UNCHANGED <<Phase, Calls, answer>>
<1> USE DEF IInv, TypeOK, file_vars, store_vars, thread_vars
<1>1. UNCHANGED <<answer, late>>
  BY DEF CloseFlag, CloseEach, CloseDone
<1>2. life \in {"refused", "open"}
  BY DEF CloseFlag, CloseEach, CloseDone, LifeInv
<1>3. ASSUME NEW u \in Threads PROVE CallOf(u)' = CallOf(u)
  BY <1>1, <1>2 DEF CloseFlag, CloseEach, CloseDone, CallOf, InQuery
<1>4. UNCHANGED Calls
  BY <1>3 DEF Calls
<1>5. CASE CloseFlag(t)
  <2>1. Phase' = Phase \/ (Phase = "open" /\ Phase' \in {"closing", "closed"})
    BY <1>2, <1>5 DEF CloseFlag, Phase
  <2> QED
    BY <1>1, <1>4, <2>1 DEF Contract!BeginClose, Calls
<1>6. CASE CloseEach(t)
  <2>1. Phase' = Phase \/ (Phase = "closing" /\ Phase' = "closed")
    BY <1>2, <1>6 DEF CloseEach, Phase, FlagInv
  <2> QED
    BY <1>1, <1>4, <2>1 DEF Contract!EndClose, Calls
<1>7. CASE CloseDone(t)
  <2>1. Phase' = Phase \/ (Phase = "unopened" /\ Phase' = "closed")
    BY <1>2, <1>7 DEF CloseDone, Phase
  <2> QED
    BY <1>1, <1>4, <2>1 DEF Contract!Open, Calls
<1> QED
  BY <1>5, <1>6, <1>7

(* Every step of the store is one the contract allows, or a silent one. *)
LEMMA RefinesNext == IInv /\ [Next]_vars => [Contract!Next]_(Contract!vars)
<1> SUFFICES ASSUME IInv, [Next]_vars
             PROVE  Contract!Next \/ UNCHANGED <<Phase, Calls, answer>>
  BY DEF Contract!vars, Calls
<1>1. CASE Replace \/ Construct
  BY <1>1, SilentSteps, ThreadsAssumption
<1>2. CASE ConstructMissing
  <2>1. Phase = "unopened" /\ Phase' = "closed" /\ UNCHANGED answer
    BY <1>2 DEF ConstructMissing, Phase, thread_vars
  <2>2. ASSUME NEW u \in Threads PROVE CallOf(u)' = CallOf(u)
    BY <1>2 DEF ConstructMissing, CallOf, thread_vars
  <2> QED
    BY <2>1, <2>2 DEF Contract!Next, Contract!Open, Calls
<1>3. ASSUME NEW t \in Threads, Query(t) PROVE Contract!Begin(t)
  <2>1. Phase \in {"open", "closing", "closed"} /\ UNCHANGED <<Phase, answer>>
        /\ (Phase = "open" <=> ~closed)
    BY <1>3 DEF Query, Phase, store_vars, IInv, TypeOK
  <2>2. CallOf(t) = "idle" /\ CallOf(t)' = IF closed THEN "late" ELSE "early"
    BY <1>3 DEF Query, CallOf, InQuery, IInv, TypeOK
  <2>3. ASSUME NEW u \in Threads, u # t PROVE CallOf(u)' = CallOf(u)
    BY <1>3, <2>3 DEF Query, CallOf, IInv, TypeOK
  <2> QED
    BY <2>1, <2>2, <2>3 DEF Contract!Begin
<1>4. ASSUME NEW t \in Threads, ThreadExit(t) PROVE Contract!Renew(t)
  <2>1. UNCHANGED Phase /\ answer' = [answer EXCEPT ![t] = NoAnswer]
    BY <1>4 DEF ThreadExit, Phase, store_vars
  <2>2. ASSUME NEW u \in Threads PROVE CallOf(u)' = CallOf(u)
    BY <1>4 DEF ThreadExit, CallOf
  <2>3. CallOf(t) = "idle"
    BY <1>4 DEF ThreadExit, CallOf, InQuery
  <2> QED
    BY <2>1, <2>2, <2>3 DEF Contract!Renew
<1>5. ASSUME NEW t \in Threads, CloseCall(t) PROVE UNCHANGED <<Phase, Calls, answer>>
  BY <1>5, SilentSteps
<1>6. ASSUME NEW t \in Threads, Step(t)
      PROVE  Contract!Next \/ UNCHANGED <<Phase, Calls, answer>>
  BY <1>6, SilentSteps, ChecksRefine, FetchRefines, CloseRefines DEF Step, Contract!Next
<1>7. CASE UNCHANGED vars
  <2>1. UNCHANGED <<Phase, answer>>
    BY <1>7 DEF vars, Phase
  <2>2. ASSUME NEW u \in Threads PROVE CallOf(u)' = CallOf(u)
    BY <1>7 DEF vars, CallOf
  <2> QED
    BY <2>1, <2>2 DEF Calls
<1> QED
  BY <1>1, <1>2, <1>3, <1>4, <1>5, <1>6, <1>7 DEF Next, Contract!Next

(* The store implements its contract.                                       *)
THEOREM StoreKeepsContract == Spec => KeepsContract
BY RefinesInit, RefinesNext, Invariance, PTL DEF Spec, KeepsContract, Contract!Spec
=============================================================================
