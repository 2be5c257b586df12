--------------------------- MODULE PublishProofs ---------------------------
(***************************************************************************)
(* Theorems of Publish, for any number of builds, tables and contents.     *)
(* The inductive invariant follows one build at a time: what is known of   *)
(* its exports, its database and its directory at each step, and from      *)
(* that, of what it moved to the path.                                     *)
(***************************************************************************)
EXTENDS Publish, TLAPS

Early == {"hash_assets", "load_assets", "hash_vulns", "load_vulns", "validate", "mkdir"}

(* Past validation a build's exports match. *)
JoinedInv(b) == pc[b] \in {"mkdir", "create", "write", "close", "replace"} => Joined(b)

(* A build that moves its database has filled every table of it. *)
RowsInv(b) ==
    /\ pc[b] # "write" => pending[b] = 0
    /\ pc[b] = "write" => Breaks[data[b]["assets"]] = 0 \/ pending[b] < Breaks[data[b]["assets"]]
    /\ pc[b] \in {"close", "replace"} /\ ~raised[b] =>
          db[b] = Tables /\ Breaks[data[b]["assets"]] = 0

(* An exception is unwinding only after something was begun, and never at the move. *)
RaisedInv(b) ==
    /\ raised[b] => pc[b] \in {"close", "cleanup", "failed", "killed"}
    /\ pc[b] \in Early => b \notin dir
    /\ pc[b] \in {"ok", "failed"} => b \notin dir

(* A build has been at the path if and only if it got past the move. *)
InstalledInv(b) ==
    /\ b \in installed => pc[b] \in {"cleanup", "ok", "killed"} /\ ~raised[b]
    /\ pc[b] \in {"cleanup", "ok"} /\ ~raised[b] => b \in installed

IInv == /\ TypeOK
        /\ TargetIsWhole
        /\ \A b \in Builds : JoinedInv(b) /\ RowsInv(b) /\ RaisedInv(b) /\ InstalledInv(b)

(* A file nobody writes into holds what was hashed when it is parsed. *)
DigestInv(b) == b \notin rewritten =>
    /\ pc[b] = "load_assets" => held[b] = digest[b]["assets"]
    /\ pc[b] = "load_vulns" => held[b] = digest[b]["vulns"]
    /\ pc[b] \in {"hash_vulns", "load_vulns"} => data[b]["assets"] = digest[b]["assets"]
    /\ pc[b] \in {"validate", "mkdir", "create", "write", "close", "replace"} =>
          data[b] = digest[b]

(* Once a build is at the path it reads no more, so nothing is rewritten under it. *)
DInv == /\ DigestsAreOfTheRows
        /\ target # NoArtifact => target.by \in installed
        /\ \A b \in Builds : DigestInv(b)

USE TablesAssumption, JoinsAssumption, BreaksAssumption, NoneAssumption
USE DEF Kinds, Steps, Ended, Contents, Artifacts, Early, HashStep, LoadStep, NextRead,
        Reading, CloseFile, file_vars, read_vars, write_vars, target_vars

(* Before any build has begun, all of it holds. *)
LEMMA InitIInv == Init => IInv /\ DInv
<1> SUFFICES ASSUME Init PROVE IInv /\ DInv
  OBVIOUS
<1> USE DEF Init
<1>1. TypeOK
  BY DEF TypeOK, NoData
<1>2. TargetIsWhole /\ DigestsAreOfTheRows
  BY DEF TargetIsWhole, DigestsAreOfTheRows
<1>3. ASSUME NEW b \in Builds
      PROVE JoinedInv(b) /\ RowsInv(b) /\ RaisedInv(b) /\ InstalledInv(b) /\ DigestInv(b)
  BY DEF JoinedInv, RowsInv, RaisedInv, InstalledInv, DigestInv
<1> QED
  BY <1>1, <1>2, <1>3 DEF IInv, DInv

(* Every step of a build, of the scanner, or of whoever kills a build.      *)
LEMMA NextIInv == IInv /\ [Next]_vars => IInv'
<1> SUFFICES ASSUME IInv, [Next]_vars PROVE IInv'
  OBVIOUS
<1> USE DEF IInv
<1>1. ASSUME NEW k \in Kinds, Deliver(k) PROVE IInv'
  <2>1. TypeOK'
    BY <1>1 DEF Deliver, TypeOK
  <2>2. TargetIsWhole'
    BY <1>1 DEF Deliver, TargetIsWhole
  <2>3. ASSUME NEW c \in Builds
        PROVE (JoinedInv(c) /\ RowsInv(c) /\ RaisedInv(c) /\ InstalledInv(c))'
    BY <1>1 DEF Deliver, TypeOK, JoinedInv, RowsInv, RaisedInv, InstalledInv, Joined
  <2> QED
    BY <2>1, <2>2, <2>3
<1>2. ASSUME NEW k \in Kinds, Overwrite(k) PROVE IInv'
  <2>1. TypeOK'
    BY <1>2 DEF Overwrite, TypeOK
  <2>2. TargetIsWhole'
    BY <1>2 DEF Overwrite, TargetIsWhole
  <2>3. ASSUME NEW c \in Builds
        PROVE (JoinedInv(c) /\ RowsInv(c) /\ RaisedInv(c) /\ InstalledInv(c))'
    BY <1>2 DEF Overwrite, TypeOK, JoinedInv, RowsInv, RaisedInv, InstalledInv, Joined
  <2> QED
    BY <2>1, <2>2, <2>3
<1>3. ASSUME NEW b \in Builds, NEW k \in Kinds, Hash(b, k) PROVE IInv'
  <2>1. TypeOK'
    BY <1>3 DEF Hash, TypeOK
  <2>2. TargetIsWhole'
    BY <1>3 DEF Hash, TargetIsWhole
  <2>3. ASSUME NEW c \in Builds
        PROVE (JoinedInv(c) /\ RowsInv(c) /\ RaisedInv(c) /\ InstalledInv(c))'
    BY <1>3 DEF Hash, TypeOK, JoinedInv, RowsInv, RaisedInv, InstalledInv, Joined
  <2> QED
    BY <2>1, <2>2, <2>3
<1>4. ASSUME NEW b \in Builds, NEW k \in Kinds, Load(b, k) PROVE IInv'
  <2>1. TypeOK'
    BY <1>4 DEF Load, TypeOK
  <2>2. TargetIsWhole'
    BY <1>4 DEF Load, TargetIsWhole
  <2>3. ASSUME NEW c \in Builds
        PROVE (JoinedInv(c) /\ RowsInv(c) /\ RaisedInv(c) /\ InstalledInv(c))'
    BY <1>4 DEF Load, TypeOK, JoinedInv, RowsInv, RaisedInv, InstalledInv, Joined
  <2> QED
    BY <2>1, <2>2, <2>3
<1>5. ASSUME NEW b \in Builds, Validate(b) PROVE IInv'
  <2>1. TypeOK'
    BY <1>5 DEF Validate, TypeOK
  <2>2. TargetIsWhole'
    BY <1>5 DEF Validate, TargetIsWhole
  <2>3. ASSUME NEW c \in Builds
        PROVE (JoinedInv(c) /\ RowsInv(c) /\ RaisedInv(c) /\ InstalledInv(c))'
    BY <1>5 DEF Validate, TypeOK, JoinedInv, RowsInv, RaisedInv, InstalledInv, Joined
  <2> QED
    BY <2>1, <2>2, <2>3
<1>6. ASSUME NEW b \in Builds, Reject(b) PROVE IInv'
  <2>1. TypeOK'
    BY <1>6 DEF Reject, TypeOK
  <2>2. TargetIsWhole'
    BY <1>6 DEF Reject, TargetIsWhole
  <2>3. ASSUME NEW c \in Builds
        PROVE (JoinedInv(c) /\ RowsInv(c) /\ RaisedInv(c) /\ InstalledInv(c))'
    BY <1>6 DEF Reject, TypeOK, JoinedInv, RowsInv, RaisedInv, InstalledInv, Joined
  <2> QED
    BY <2>1, <2>2, <2>3
<1>7. ASSUME NEW b \in Builds, MakeDir(b) PROVE IInv'
  <2>1. TypeOK'
    BY <1>7 DEF MakeDir, TypeOK
  <2>2. TargetIsWhole'
    BY <1>7 DEF MakeDir, TargetIsWhole
  <2>3. ASSUME NEW c \in Builds
        PROVE (JoinedInv(c) /\ RowsInv(c) /\ RaisedInv(c) /\ InstalledInv(c))'
    BY <1>7 DEF MakeDir, TypeOK, JoinedInv, RowsInv, RaisedInv, InstalledInv, Joined
  <2> QED
    BY <2>1, <2>2, <2>3
<1>8. ASSUME NEW b \in Builds, Create(b) PROVE IInv'
  <2>1. TypeOK'
    BY <1>8 DEF Create, TypeOK
  <2>2. TargetIsWhole'
    BY <1>8 DEF Create, TargetIsWhole
  <2>3. ASSUME NEW c \in Builds
        PROVE (JoinedInv(c) /\ RowsInv(c) /\ RaisedInv(c) /\ InstalledInv(c))'
    BY <1>8 DEF Create, TypeOK, JoinedInv, RowsInv, RaisedInv, InstalledInv, Joined
  <2> QED
    BY <2>1, <2>2, <2>3
<1>9. ASSUME NEW b \in Builds, Write(b) PROVE IInv'
  <2> DEFINE breaks == Breaks[data[b]["assets"]]
  <2>1. /\ pc[b] = "write"
        /\ breaks \in 0..Tables
        /\ breaks = 0 \/ pending[b] < breaks
        /\ pending[b] \in 0..Tables
    BY ZenonT(30), <1>9 DEF Write, TypeOK, JoinedInv, Joined, RowsInv
  <2>2. CASE /\ pending[b] < Tables
             /\ breaks # pending[b] + 1
             /\ pending' = [pending EXCEPT ![b] = @ + 1]
             /\ UNCHANGED <<db, pc>>
    <3>1. breaks = 0 \/ pending[b] + 1 < breaks
      BY <2>1, <2>2
    <3>2. TypeOK'
      BY <1>9, <2>1, <2>2 DEF Write, TypeOK
    <3>3. TargetIsWhole'
      BY <1>9 DEF Write, TargetIsWhole
    <3>4. ASSUME NEW c \in Builds
          PROVE (JoinedInv(c) /\ RowsInv(c) /\ RaisedInv(c) /\ InstalledInv(c))'
      BY <1>9, <2>1, <2>2, <3>1 DEF Write, TypeOK, JoinedInv, RowsInv, RaisedInv, InstalledInv, Joined
    <3> QED
      BY <3>2, <3>3, <3>4
  <2>3. CASE /\ pending[b] = Tables
             /\ db' = [db EXCEPT ![b] = pending[b]]
             /\ pending' = [pending EXCEPT ![b] = 0]
             /\ pc' = [pc EXCEPT ![b] = "close"]
    <3>1. breaks = 0
      BY <2>1, <2>3
    <3>2. TypeOK'
      BY <1>9, <2>1, <2>3 DEF Write, TypeOK
    <3>3. TargetIsWhole'
      BY <1>9 DEF Write, TargetIsWhole
    <3>4. ASSUME NEW c \in Builds
          PROVE (JoinedInv(c) /\ RowsInv(c) /\ RaisedInv(c) /\ InstalledInv(c))'
      BY <1>9, <2>1, <2>3, <3>1 DEF Write, TypeOK, JoinedInv, RowsInv, RaisedInv, InstalledInv, Joined
    <3> QED
      BY <3>2, <3>3, <3>4
  <2> QED
    BY <1>9, <2>2, <2>3 DEF Write
<1>10. ASSUME NEW b \in Builds, Rollback(b) PROVE IInv'
  <2>1. TypeOK'
    BY <1>10 DEF Rollback, TypeOK
  <2>2. TargetIsWhole'
    BY <1>10 DEF Rollback, TargetIsWhole
  <2>3. ASSUME NEW c \in Builds
        PROVE (JoinedInv(c) /\ RowsInv(c) /\ RaisedInv(c) /\ InstalledInv(c))'
    BY <1>10 DEF Rollback, TypeOK, JoinedInv, RowsInv, RaisedInv, InstalledInv, Joined
  <2> QED
    BY <2>1, <2>2, <2>3
<1>11. ASSUME NEW b \in Builds, Close(b) PROVE IInv'
  <2>1. TypeOK'
    BY <1>11 DEF Close, TypeOK
  <2>2. TargetIsWhole'
    BY <1>11 DEF Close, TargetIsWhole
  <2>3. ASSUME NEW c \in Builds
        PROVE (JoinedInv(c) /\ RowsInv(c) /\ RaisedInv(c) /\ InstalledInv(c))'
    BY <1>11 DEF Close, TypeOK, JoinedInv, RowsInv, RaisedInv, InstalledInv, Joined
  <2> QED
    BY <2>1, <2>2, <2>3
<1>12. ASSUME NEW b \in Builds, Replace(b) PROVE IInv'
  <2>1. TypeOK'
    BY <1>12 DEF Replace, TypeOK, RowsInv, RaisedInv
  <2>2. TargetIsWhole'
    BY <1>12 DEF Replace, TypeOK, TargetIsWhole, JoinedInv, RowsInv, RaisedInv, Joined
  <2>3. ASSUME NEW c \in Builds
        PROVE (JoinedInv(c) /\ RowsInv(c) /\ RaisedInv(c) /\ InstalledInv(c))'
    BY <1>12 DEF Replace, TypeOK, JoinedInv, RowsInv, RaisedInv, InstalledInv, Joined
  <2> QED
    BY <2>1, <2>2, <2>3
<1>13. ASSUME NEW b \in Builds, Raise(b) PROVE IInv'
  <2>1. TypeOK'
    BY <1>13 DEF Raise, TypeOK
  <2>2. TargetIsWhole'
    BY <1>13 DEF Raise, TargetIsWhole
  <2>3. ASSUME NEW c \in Builds
        PROVE (JoinedInv(c) /\ RowsInv(c) /\ RaisedInv(c) /\ InstalledInv(c))'
    BY <1>13 DEF Raise, TypeOK, JoinedInv, RowsInv, RaisedInv, InstalledInv, Joined
  <2> QED
    BY <2>1, <2>2, <2>3
<1>14. ASSUME NEW b \in Builds, Cleanup(b) PROVE IInv'
  <2>1. TypeOK'
    BY <1>14 DEF Cleanup, TypeOK
  <2>2. TargetIsWhole'
    BY <1>14 DEF Cleanup, TargetIsWhole
  <2>3. ASSUME NEW c \in Builds
        PROVE (JoinedInv(c) /\ RowsInv(c) /\ RaisedInv(c) /\ InstalledInv(c))'
    BY <1>14 DEF Cleanup, TypeOK, JoinedInv, RowsInv, RaisedInv, InstalledInv, Joined
  <2> QED
    BY <2>1, <2>2, <2>3
<1>15. ASSUME NEW b \in Builds, Kill(b) PROVE IInv'
  <2>1. TypeOK'
    BY <1>15 DEF Kill, TypeOK
  <2>2. TargetIsWhole'
    BY <1>15 DEF Kill, TargetIsWhole
  <2>3. ASSUME NEW c \in Builds
        PROVE (JoinedInv(c) /\ RowsInv(c) /\ RaisedInv(c) /\ InstalledInv(c))'
    BY <1>15 DEF Kill, TypeOK, JoinedInv, RowsInv, RaisedInv, InstalledInv, Joined
  <2> QED
    BY <2>1, <2>2, <2>3
<1>16. CASE UNCHANGED vars
  BY <1>16 DEF vars, TypeOK, TargetIsWhole, JoinedInv, RowsInv, RaisedInv, InstalledInv, Joined
<1> QED
  BY <1>1, <1>2, <1>3, <1>4, <1>5, <1>6, <1>7, <1>8, <1>9, <1>10, <1>11, <1>12, <1>13, <1>14, <1>15, <1>16 DEF Next, Build

-----------------------------------------------------------------------------
(* The strengthened invariant holds in every reachable state.               *)
THEOREM Invariance == Spec => []IInv
BY InitIInv, NextIInv, PTL DEF Spec

(* Every variable keeps its type.                                           *)
THEOREM TypeCorrect == Spec => []TypeOK
<1>1. IInv => TypeOK
  BY DEF IInv
<1> QED
  BY <1>1, Invariance, PTL

(* No reader ever finds a partial or mismatched index at the path.          *)
THEOREM ArtifactIsWhole == Spec => []TargetIsWhole
<1>1. IInv => TargetIsWhole
  BY DEF IInv
<1> QED
  BY <1>1, Invariance, PTL

(* A build that returns or raises has removed its temporary directory.      *)
THEOREM LitterIsFromKills == Spec => []OnlyKillsLeaveLitter
<1>1. IInv => OnlyKillsLeaveLitter
  BY DEF IInv, OnlyKillsLeaveLitter, RaisedInv
<1> QED
  BY <1>1, Invariance, PTL

(* Every step keeps hashes and rows together, except writing into a file.   *)
LEMMA NextDInv == IInv /\ DInv /\ [Next]_vars => DInv'
<1> SUFFICES ASSUME IInv, DInv, [Next]_vars PROVE DInv'
  OBVIOUS
<1> USE DEF IInv, DInv
<1>1. ASSUME NEW k \in Kinds, Deliver(k) PROVE DInv'
  BY <1>1 DEF Deliver, TypeOK, DigestInv, DigestsAreOfTheRows
<1>2. ASSUME NEW k \in Kinds, Overwrite(k) PROVE DInv'
  BY <1>2 DEF Overwrite, TypeOK, DigestInv, DigestsAreOfTheRows, InstalledInv
<1>3. ASSUME NEW b \in Builds, NEW k \in Kinds, Hash(b, k) PROVE DInv'
  BY <1>3 DEF Hash, TypeOK, DigestInv, DigestsAreOfTheRows
<1>4. ASSUME NEW b \in Builds, NEW k \in Kinds, Load(b, k) PROVE DInv'
  <2>1. /\ DigestsAreOfTheRows'
        /\ (target # NoArtifact => target.by \in installed)'
    BY <1>4 DEF Load, DigestsAreOfTheRows
  <2>2. ASSUME NEW c \in Builds PROVE DigestInv(c)'
    <3>1. CASE k = "assets"
      BY <1>4, <3>1 DEF Load, TypeOK, DigestInv
    <3>2. CASE k = "vulns"
      BY <1>4, <3>2 DEF Load, TypeOK, DigestInv
    <3> QED
      BY <3>1, <3>2
  <2> QED
    BY <2>1, <2>2
<1>5. ASSUME NEW b \in Builds, Replace(b) PROVE DInv'
  BY <1>5 DEF Replace, TypeOK, DigestInv, DigestsAreOfTheRows
<1>6. ASSUME NEW b \in Builds, Validate(b) \/ Reject(b) \/ MakeDir(b) \/ Create(b)
      PROVE DInv'
  BY <1>6 DEF Validate, Reject, MakeDir, Create, TypeOK, DigestInv, DigestsAreOfTheRows
<1>7. ASSUME NEW b \in Builds, Write(b) \/ Rollback(b) \/ Close(b) PROVE DInv'
  BY <1>7 DEF Write, Rollback, Close, TypeOK, DigestInv, DigestsAreOfTheRows
<1>8. ASSUME NEW b \in Builds, Raise(b) \/ Cleanup(b) \/ Kill(b) PROVE DInv'
  BY <1>8 DEF Raise, Cleanup, Kill, TypeOK, DigestInv, DigestsAreOfTheRows
<1>9. CASE UNCHANGED vars
  BY <1>9 DEF vars, DigestInv, DigestsAreOfTheRows
<1> QED
  BY <1>1, <1>2, <1>3, <1>4, <1>5, <1>6, <1>7, <1>8, <1>9 DEF Next, Build

(* Unless someone writes into an export while a build reads it, the digests *)
(* an artifact records are those of what was parsed into it.                *)
THEOREM DigestsAreTrue == Spec => []DigestsAreOfTheRows
<1>1. Init => IInv /\ DInv
  BY InitIInv
<1>2. IInv /\ DInv /\ [Next]_vars => IInv' /\ DInv'
  BY NextIInv, NextDInv
<1>3. DInv => DigestsAreOfTheRows
  BY DEF DInv
<1> QED
  BY <1>1, <1>2, <1>3, PTL DEF Spec

-----------------------------------------------------------------------------
(* A build that has not begun is running, and nothing is at the path.       *)
LEMMA RefinesInit == Init => Contract!Init
BY DEF Init, Contract!Init

(* A step of a build installs, ends the build, or is invisible.             *)
LEMMA RefinesNext == IInv /\ [Next]_vars => [Contract!Next]_(Contract!vars)
<1> SUFFICES ASSUME IInv, [Next]_vars PROVE [Contract!Next]_(Contract!vars)
  OBVIOUS
<1> DEFINE outcome == [b \in Builds |-> IF pc[b] \in Ended THEN pc[b] ELSE "running"]
<1> USE DEF IInv, Contract!vars, Contract!Next
<1>1. CASE \E k \in Kinds : Deliver(k) \/ Overwrite(k)
  BY <1>1 DEF Deliver, Overwrite
<1>2. ASSUME NEW b \in Builds, NEW k \in Kinds, Hash(b, k) \/ Load(b, k)
      PROVE UNCHANGED Contract!vars
  BY <1>2 DEF Hash, Load, TypeOK
<1>3. ASSUME NEW b \in Builds, Validate(b) \/ MakeDir(b) \/ Create(b) \/ Raise(b)
      PROVE UNCHANGED Contract!vars
  BY <1>3 DEF Validate, MakeDir, Create, Raise, TypeOK
<1>4. ASSUME NEW b \in Builds, Write(b) \/ Rollback(b) \/ Close(b)
      PROVE UNCHANGED Contract!vars
  BY <1>4 DEF Write, Rollback, Close, TypeOK
<1>5. ASSUME NEW b \in Builds, Replace(b) PROVE Contract!Install(b)
  <2>1. outcome[b] = "running" /\ outcome' = outcome /\ b \notin installed
    BY <1>5 DEF Replace, TypeOK, InstalledInv
  <2>2. target' \in Artifacts /\ target'.by = b
    <3>1. digest[b] \in Contents /\ data[b] \in Contents
      BY DEF TypeOK
    <3>2. db[b] \in 0..Tables
      BY <1>5 DEF Replace, RowsInv, RaisedInv
    <3>3. target' = [by |-> b, digest |-> digest[b], data |-> data[b], rows |-> db[b]]
      BY <1>5 DEF Replace
    <3> HIDE DEF Contents
    <3> QED
      BY <3>1, <3>2, <3>3
  <2> QED
    BY <1>5, <2>1, <2>2, NoArtifactAssumption DEF Replace, Contract!Install
<1>6. ASSUME NEW b \in Builds, Reject(b) \/ Cleanup(b) \/ Kill(b)
      PROVE Contract!End(b)
  <2>1. UNCHANGED target_vars
    BY <1>6 DEF Reject, Cleanup, Kill
  <2>2. outcome[b] = "running"
    BY <1>6 DEF Reject, Cleanup, Kill
  <2>3. PICK o \in Ended : /\ pc' = [pc EXCEPT ![b] = o]
                           /\ o = "ok" => b \in installed
                           /\ o = "failed" => b \notin installed
    BY <1>6 DEF Reject, Cleanup, Kill, InstalledInv
  <2>4. outcome' = [outcome EXCEPT ![b] = o]
    BY <2>3 DEF TypeOK
  <2>5. o \in Contract!Outcomes(b)
    BY <2>3 DEF Contract!Outcomes
  <2> QED
    BY <2>1, <2>2, <2>4, <2>5 DEF Contract!End
<1>7. CASE UNCHANGED vars
  BY <1>7 DEF vars
<1> QED
  BY <1>1, <1>2, <1>3, <1>4, <1>5, <1>6, <1>7 DEF Next, Build

(* Building implements its contract: the path changes only by a build       *)
(* installing its own artifact, and a failed build never did.               *)
THEOREM PublishKeepsContract == Spec => KeepsContract
<1> QED
  BY InitIInv, RefinesInit, RefinesNext, Invariance, PTL
  DEF Spec, KeepsContract, Contract!Spec
=============================================================================
