----------------------------- MODULE PageProofs -----------------------------
(***************************************************************************)
(* Theorems of Page, for any queries and hosts.  The properties of what is *)
(* on screen are almost inductive together; what is missing is whose       *)
(* request may still write into the drawer.                                *)
(***************************************************************************)
EXTENDS Page, TLAPS

(* A host request that is not aborted is that of the host in the drawer.    *)
LiveInv == \A f \in waiting : ~f.aborted => subject = f.host

IInv == /\ TypeOK
        /\ OneAnalysisAtATime
        /\ ScreenIsCoherent
        /\ StartShowsTheStatus
        /\ KeepsAsking
        /\ LiveInv

USE PageAssumption
USE DEF Services, Replies, KindOf, FailureKinds, ReadinessOf, Statuses, AllReplies,
        form_vars, result_vars, drawer_vars, watcher_vars

(* Aborting requests makes no new ones, and leaves none that may still write. *)
LEMMA ReleasedRequests ==
  ASSUME NEW requests \in SUBSET HostRequests
  PROVE  /\ Released(requests) \in SUBSET HostRequests
         /\ \A f \in Released(requests) : f.aborted
BY DEF Released, HostRequests

(* A host's or a citation's view is a content of the drawer.                *)
LEMMA ContentsOf ==
  ASSUME NEW x \in Hosts \cup {Source}, NEW as \in {"loading", "detail"} \cup FailureKinds
  PROVE  /\ [of |-> x, as |-> as] \in Contents
         /\ [of |-> x, as |-> as] # None => [of |-> x, as |-> as].of = x
BY DEF Contents

(* A drawer that has just been opened on a host.                            *)
LEMMA HostShown ==
  ASSUME NEW h \in Hosts, DrawerTypes, ShowHost(h)
  PROVE  DrawerTypes'
<1>1. [host |-> h, aborted |-> FALSE] \in HostRequests
  BY DEF HostRequests
<1>2. waiting' \in SUBSET HostRequests
  BY <1>1, ReleasedRequests DEF ShowHost, DrawerTypes
<1>3. content' \in Contents /\ subject' \in Hosts
  BY ContentsOf DEF ShowHost
<1> QED
  BY <1>2, <1>3 DEF DrawerTypes

(* The page as main() leaves it. *)
LEMMA InitIInv == Init => IInv
BY DEF Init, IInv, TypeOK, FormTypes, ResultTypes, DrawerTypes, WatcherTypes,
   OneAnalysisAtATime, ScreenIsCoherent, StartShowsTheStatus,
       KeepsAsking, LiveInv

(* Every handler, answer and restart preserves the invariant. *)
LEMMA NextIInv == IInv /\ [Next]_vars => IInv'
<1> SUFFICES ASSUME IInv, [Next]_vars PROVE IInv'
  OBVIOUS
<1> USE DEF IInv
<1>1. CASE Restart
  <2>1. (service \in Services /\ FormTypes /\ WatcherTypes)'
    BY <1>1 DEF Restart, TypeOK, FormTypes, WatcherTypes
  <2>2. ResultTypes'
    BY <1>1 DEF Restart, TypeOK, FormTypes, ResultTypes, WatcherTypes
  <2>3. DrawerTypes'
    BY <1>1 DEF Restart, TypeOK, DrawerTypes
  <2>4. (OneAnalysisAtATime /\ StartShowsTheStatus /\ KeepsAsking)'
    BY <1>1 DEF Restart, TypeOK, FormTypes, ResultTypes, DrawerTypes,
       WatcherTypes, OneAnalysisAtATime, ScreenIsCoherent, StartShowsTheStatus,
       KeepsAsking
  <2>5. (ScreenIsCoherent /\ LiveInv)'
    BY <1>1 DEF Restart, TypeOK, FormTypes, ResultTypes, DrawerTypes,
       WatcherTypes, OneAnalysisAtATime, ScreenIsCoherent, LiveInv
  <2> QED
    BY <2>1, <2>2, <2>3, <2>4, <2>5 DEF TypeOK
<1>2. CASE ServeAnalysis
  <2>1. (service \in Services /\ FormTypes /\ WatcherTypes)'
    BY <1>2 DEF ServeAnalysis, TypeOK, FormTypes, WatcherTypes
  <2>2. ResultTypes'
    BY <1>2 DEF ServeAnalysis, TypeOK, FormTypes, ResultTypes, WatcherTypes
  <2>3. DrawerTypes'
    BY <1>2 DEF ServeAnalysis, TypeOK, DrawerTypes
  <2>4. (OneAnalysisAtATime /\ StartShowsTheStatus /\ KeepsAsking)'
    BY <1>2 DEF ServeAnalysis, TypeOK, FormTypes, ResultTypes, DrawerTypes,
       WatcherTypes, OneAnalysisAtATime, ScreenIsCoherent, StartShowsTheStatus,
       KeepsAsking
  <2>5. (ScreenIsCoherent /\ LiveInv)'
    BY <1>2 DEF ServeAnalysis, TypeOK, FormTypes, ResultTypes, DrawerTypes,
       WatcherTypes, OneAnalysisAtATime, ScreenIsCoherent, LiveInv
  <2> QED
    BY <2>1, <2>2, <2>3, <2>4, <2>5 DEF TypeOK
<1>3. CASE ServeReadiness
  <2>1. (service \in Services /\ FormTypes /\ WatcherTypes)'
    BY <1>3 DEF ServeReadiness, TypeOK, FormTypes, WatcherTypes
  <2>2. ResultTypes'
    BY <1>3 DEF ServeReadiness, TypeOK, FormTypes, ResultTypes, WatcherTypes
  <2>3. DrawerTypes'
    BY <1>3 DEF ServeReadiness, TypeOK, DrawerTypes
  <2>4. (OneAnalysisAtATime /\ StartShowsTheStatus /\ KeepsAsking)'
    BY <1>3 DEF ServeReadiness, TypeOK, FormTypes, ResultTypes, DrawerTypes,
       WatcherTypes, OneAnalysisAtATime, ScreenIsCoherent, StartShowsTheStatus,
       KeepsAsking
  <2>5. (ScreenIsCoherent /\ LiveInv)'
    BY <1>3 DEF ServeReadiness, TypeOK, FormTypes, ResultTypes, DrawerTypes,
       WatcherTypes, OneAnalysisAtATime, ScreenIsCoherent, LiveInv
  <2> QED
    BY <2>1, <2>2, <2>3, <2>4, <2>5 DEF TypeOK
<1>4. ASSUME NEW q \in Queries, Submit(q) PROVE IInv'
  <2>1. (service \in Services /\ FormTypes /\ WatcherTypes)'
    BY <1>4 DEF Submit, Run, CloseDrawer, TypeOK, FormTypes, WatcherTypes
  <2>2. ResultTypes'
    BY <1>4 DEF Submit, Run, CloseDrawer, TypeOK, FormTypes, ResultTypes,
       WatcherTypes
  <2>3. DrawerTypes'
    BY <1>4, ReleasedRequests, ContentsOf DEF Submit, Run, CloseDrawer, TypeOK,
       DrawerTypes
  <2>4. (OneAnalysisAtATime /\ StartShowsTheStatus /\ KeepsAsking)'
    BY <1>4, ReleasedRequests, ContentsOf DEF Submit, Run, CloseDrawer, TypeOK,
       FormTypes, ResultTypes, DrawerTypes, WatcherTypes, OneAnalysisAtATime,
       ScreenIsCoherent, StartShowsTheStatus, KeepsAsking
  <2>5. (ScreenIsCoherent /\ LiveInv)'
    BY <1>4, ReleasedRequests, ContentsOf DEF Submit, Run, CloseDrawer, TypeOK,
       FormTypes, ResultTypes, DrawerTypes, WatcherTypes, OneAnalysisAtATime,
       ScreenIsCoherent, LiveInv
  <2> QED
    BY <2>1, <2>2, <2>3, <2>4, <2>5 DEF TypeOK
<1>5. CASE Retry
  <2>1. (service \in Services /\ FormTypes /\ WatcherTypes)'
    BY <1>5 DEF Retry, Run, CloseDrawer, TypeOK, FormTypes, ResultTypes,
       WatcherTypes
  <2>2. ResultTypes'
    BY <1>5 DEF Retry, Run, CloseDrawer, TypeOK, FormTypes, ResultTypes,
       WatcherTypes
  <2>3. DrawerTypes'
    BY <1>5, ReleasedRequests, ContentsOf DEF Retry, Run, CloseDrawer, TypeOK,
       DrawerTypes
  <2>4. (OneAnalysisAtATime /\ StartShowsTheStatus /\ KeepsAsking)'
    BY <1>5, ReleasedRequests, ContentsOf DEF Retry, Run, CloseDrawer, TypeOK,
       FormTypes, ResultTypes, DrawerTypes, WatcherTypes, OneAnalysisAtATime,
       ScreenIsCoherent, StartShowsTheStatus, KeepsAsking
  <2>5. (ScreenIsCoherent /\ LiveInv)'
    BY <1>5, ReleasedRequests, ContentsOf DEF Retry, Run, CloseDrawer, TypeOK,
       FormTypes, ResultTypes, DrawerTypes, WatcherTypes, OneAnalysisAtATime,
       ScreenIsCoherent, LiveInv
  <2> QED
    BY <2>1, <2>2, <2>3, <2>4, <2>5 DEF TypeOK
<1>6. CASE Cancel
  <2>1. (service \in Services /\ FormTypes /\ WatcherTypes)'
    BY <1>6 DEF Cancel, TypeOK, FormTypes, WatcherTypes
  <2>2. ResultTypes'
    BY <1>6 DEF Cancel, TypeOK, FormTypes, ResultTypes, WatcherTypes
  <2>3. DrawerTypes'
    BY <1>6 DEF Cancel, TypeOK, DrawerTypes
  <2>4. (OneAnalysisAtATime /\ StartShowsTheStatus /\ KeepsAsking)'
    BY <1>6 DEF Cancel, TypeOK, FormTypes, ResultTypes, DrawerTypes,
       WatcherTypes, OneAnalysisAtATime, ScreenIsCoherent, StartShowsTheStatus,
       KeepsAsking
  <2>5. (ScreenIsCoherent /\ LiveInv)'
    BY <1>6 DEF Cancel, TypeOK, FormTypes, ResultTypes, DrawerTypes,
       WatcherTypes, OneAnalysisAtATime, ScreenIsCoherent, LiveInv
  <2> QED
    BY <2>1, <2>2, <2>3, <2>4, <2>5 DEF TypeOK
<1>7. CASE OpenSource
  <2>1. (service \in Services /\ FormTypes /\ WatcherTypes)'
    BY <1>7 DEF OpenSource, TypeOK, FormTypes, WatcherTypes
  <2>2. ResultTypes'
    BY <1>7 DEF OpenSource, TypeOK, FormTypes, ResultTypes, WatcherTypes
  <2>3. DrawerTypes'
    BY <1>7, ReleasedRequests, ContentsOf DEF OpenSource, TypeOK, DrawerTypes
  <2>4. (OneAnalysisAtATime /\ StartShowsTheStatus /\ KeepsAsking)'
    BY <1>7, ReleasedRequests, ContentsOf DEF OpenSource, TypeOK, FormTypes,
       ResultTypes, DrawerTypes, WatcherTypes, OneAnalysisAtATime, ScreenIsCoherent,
       StartShowsTheStatus, KeepsAsking
  <2>5. (ScreenIsCoherent /\ LiveInv)'
    BY <1>7, ReleasedRequests, ContentsOf DEF OpenSource, TypeOK, FormTypes,
       ResultTypes, DrawerTypes, WatcherTypes, OneAnalysisAtATime, ScreenIsCoherent,
       LiveInv
  <2> QED
    BY <2>1, <2>2, <2>3, <2>4, <2>5 DEF TypeOK
<1>8. CASE RetryHost
  <2>1. (service \in Services /\ FormTypes /\ WatcherTypes)'
    BY <1>8 DEF RetryHost, ShowHost, TypeOK, FormTypes, WatcherTypes
  <2>2. ResultTypes'
    BY <1>8 DEF RetryHost, ShowHost, TypeOK, FormTypes, ResultTypes, WatcherTypes
  <2>3. DrawerTypes'
    BY <1>8, HostShown DEF RetryHost, TypeOK
  <2>4. (OneAnalysisAtATime /\ StartShowsTheStatus /\ KeepsAsking)'
    BY <1>8, ReleasedRequests, ContentsOf DEF RetryHost, ShowHost, TypeOK,
       FormTypes, ResultTypes, DrawerTypes, WatcherTypes, OneAnalysisAtATime,
       ScreenIsCoherent, StartShowsTheStatus, KeepsAsking
  <2>5. (ScreenIsCoherent /\ LiveInv)'
    BY <1>8, ReleasedRequests, ContentsOf DEF RetryHost, ShowHost, TypeOK,
       FormTypes, ResultTypes, DrawerTypes, WatcherTypes, OneAnalysisAtATime,
       ScreenIsCoherent, LiveInv
  <2> QED
    BY <2>1, <2>2, <2>3, <2>4, <2>5 DEF TypeOK
<1>9. CASE Close
  <2>1. (service \in Services /\ FormTypes /\ WatcherTypes)'
    BY <1>9 DEF Close, CloseDrawer, TypeOK, FormTypes, WatcherTypes
  <2>2. ResultTypes'
    BY <1>9 DEF Close, CloseDrawer, TypeOK, FormTypes, ResultTypes, WatcherTypes
  <2>3. DrawerTypes'
    BY <1>9, ReleasedRequests, ContentsOf DEF Close, CloseDrawer, TypeOK,
       DrawerTypes
  <2>4. (OneAnalysisAtATime /\ StartShowsTheStatus /\ KeepsAsking)'
    BY <1>9, ReleasedRequests, ContentsOf DEF Close, CloseDrawer, TypeOK,
       FormTypes, ResultTypes, DrawerTypes, WatcherTypes, OneAnalysisAtATime,
       ScreenIsCoherent, StartShowsTheStatus, KeepsAsking
  <2>5. (ScreenIsCoherent /\ LiveInv)'
    BY <1>9, ReleasedRequests, ContentsOf DEF Close, CloseDrawer, TypeOK,
       FormTypes, ResultTypes, DrawerTypes, WatcherTypes, OneAnalysisAtATime,
       ScreenIsCoherent, LiveInv
  <2> QED
    BY <2>1, <2>2, <2>3, <2>4, <2>5 DEF TypeOK
<1>10. ASSUME NEW h \in Hosts, OpenHost(h) PROVE IInv'
  <2>1. (service \in Services /\ FormTypes /\ WatcherTypes)'
    BY <1>10 DEF OpenHost, ShowHost, TypeOK, FormTypes, WatcherTypes
  <2>2. ResultTypes'
    BY <1>10 DEF OpenHost, ShowHost, TypeOK, FormTypes, ResultTypes, WatcherTypes
  <2>3. DrawerTypes'
    BY <1>10, HostShown DEF OpenHost, TypeOK
  <2>4. (OneAnalysisAtATime /\ StartShowsTheStatus /\ KeepsAsking)'
    BY <1>10, ReleasedRequests, ContentsOf DEF OpenHost, ShowHost, TypeOK,
       FormTypes, ResultTypes, DrawerTypes, WatcherTypes, OneAnalysisAtATime,
       ScreenIsCoherent, StartShowsTheStatus, KeepsAsking
  <2>5. (ScreenIsCoherent /\ LiveInv)'
    BY <1>10, ReleasedRequests, ContentsOf DEF OpenHost, ShowHost, TypeOK,
       FormTypes, ResultTypes, DrawerTypes, WatcherTypes, OneAnalysisAtATime,
       ScreenIsCoherent, LiveInv
  <2> QED
    BY <2>1, <2>2, <2>3, <2>4, <2>5 DEF TypeOK
<1>11. CASE Responded
  <2>1. (service \in Services /\ FormTypes /\ WatcherTypes)'
    BY <1>11 DEF Responded, ShowReport, ShowFailure, Finish, TypeOK, FormTypes,
       WatcherTypes
  <2>2. ResultTypes'
    BY <1>11 DEF Responded, ShowReport, ShowFailure, Finish, TypeOK, FormTypes,
       ResultTypes, WatcherTypes
  <2>3. DrawerTypes'
    BY <1>11 DEF Responded, ShowReport, ShowFailure, Finish, TypeOK, DrawerTypes
  <2>4. (OneAnalysisAtATime /\ StartShowsTheStatus /\ KeepsAsking)'
    BY <1>11 DEF Responded, ShowReport, ShowFailure, Finish, TypeOK, FormTypes,
       ResultTypes, DrawerTypes, WatcherTypes, OneAnalysisAtATime, ScreenIsCoherent,
       StartShowsTheStatus, KeepsAsking
  <2>5. (ScreenIsCoherent /\ LiveInv)'
    BY <1>11 DEF Responded, ShowReport, ShowFailure, Finish, TypeOK, FormTypes,
       ResultTypes, DrawerTypes, WatcherTypes, OneAnalysisAtATime, ScreenIsCoherent,
       LiveInv
  <2> QED
    BY <2>1, <2>2, <2>3, <2>4, <2>5 DEF TypeOK
<1>12. CASE Failed
  <2>1. (service \in Services /\ FormTypes /\ WatcherTypes)'
    BY <1>12 DEF Failed, ShowFailure, Watch, Finish, TypeOK, FormTypes, WatcherTypes
  <2>2. ResultTypes'
    BY <1>12 DEF Failed, ShowFailure, Watch, Finish, TypeOK, FormTypes,
       ResultTypes, WatcherTypes
  <2>3. DrawerTypes'
    BY <1>12 DEF Failed, ShowFailure, Watch, Finish, TypeOK, DrawerTypes
  <2>4. (OneAnalysisAtATime /\ StartShowsTheStatus /\ KeepsAsking)'
    BY <1>12 DEF Failed, ShowFailure, Watch, Finish, TypeOK, FormTypes,
       ResultTypes, DrawerTypes, WatcherTypes, OneAnalysisAtATime, ScreenIsCoherent,
       StartShowsTheStatus, KeepsAsking
  <2>5. (ScreenIsCoherent /\ LiveInv)'
    BY <1>12 DEF Failed, ShowFailure, Watch, Finish, TypeOK, FormTypes,
       ResultTypes, DrawerTypes, WatcherTypes, OneAnalysisAtATime, ScreenIsCoherent,
       LiveInv
  <2> QED
    BY <2>1, <2>2, <2>3, <2>4, <2>5 DEF TypeOK
<1>13. CASE Cancelled
  <2>1. (service \in Services /\ FormTypes /\ WatcherTypes)'
    BY <1>13 DEF Cancelled, ShowReport, ShowFailure, ShowStart, Finish, TypeOK,
       FormTypes, WatcherTypes
  <2>2. ResultTypes'
    BY <1>13 DEF Cancelled, ShowReport, ShowFailure, ShowStart, Finish, TypeOK,
       FormTypes, ResultTypes, WatcherTypes
  <2>3. DrawerTypes'
    BY <1>13 DEF Cancelled, ShowReport, ShowFailure, ShowStart, Finish, TypeOK,
       DrawerTypes
  <2>4. (OneAnalysisAtATime /\ StartShowsTheStatus /\ KeepsAsking)'
    BY <1>13 DEF Cancelled, ShowReport, ShowFailure, ShowStart, Finish, TypeOK,
       FormTypes, ResultTypes, DrawerTypes, WatcherTypes, OneAnalysisAtATime,
       ScreenIsCoherent, StartShowsTheStatus, KeepsAsking
  <2>5. (ScreenIsCoherent /\ LiveInv)'
    BY <1>13 DEF Cancelled, ShowReport, ShowFailure, ShowStart, Finish, TypeOK,
       FormTypes, ResultTypes, DrawerTypes, WatcherTypes, OneAnalysisAtATime,
       ScreenIsCoherent, LiveInv
  <2> QED
    BY <2>1, <2>2, <2>3, <2>4, <2>5 DEF TypeOK
<1>14. ASSUME NEW f \in HostRequests, HostArrives(f) PROVE IInv'
  <2>1. (service \in Services /\ FormTypes /\ WatcherTypes)'
    BY <1>14 DEF HostArrives, HostRequests, TypeOK, FormTypes, WatcherTypes
  <2>2. ResultTypes'
    BY <1>14 DEF HostArrives, HostRequests, TypeOK, FormTypes, ResultTypes,
       WatcherTypes
  <2>3. DrawerTypes'
    <3>1. f.host \in Hosts /\ waiting' \in SUBSET HostRequests /\ subject' = subject
      BY <1>14 DEF HostArrives, HostRequests, TypeOK, DrawerTypes
    <3>2. content' = content \/ \E as \in {"detail"} \cup FailureKinds :
                                   content' = [of |-> f.host, as |-> as]
      BY <1>14 DEF HostArrives, TypeOK
    <3>3. content' \in Contents \cup {None}
      BY <3>1, <3>2 DEF TypeOK, DrawerTypes, Contents
    <3> QED
      BY <3>1, <3>3 DEF TypeOK, DrawerTypes
  <2>4. (OneAnalysisAtATime /\ StartShowsTheStatus /\ KeepsAsking)'
    BY <1>14, ContentsOf DEF HostArrives, HostRequests, TypeOK, FormTypes,
       ResultTypes, DrawerTypes, WatcherTypes, OneAnalysisAtATime, ScreenIsCoherent,
       StartShowsTheStatus, KeepsAsking
  <2>5. (ScreenIsCoherent /\ LiveInv)'
    BY <1>14, ContentsOf DEF HostArrives, HostRequests, TypeOK, FormTypes,
       ResultTypes, DrawerTypes, WatcherTypes, OneAnalysisAtATime, ScreenIsCoherent,
       LiveInv
  <2> QED
    BY <2>1, <2>2, <2>3, <2>4, <2>5 DEF TypeOK
<1>15. CASE Hear
  <2>1. (service \in Services /\ FormTypes /\ WatcherTypes)'
    BY <1>15 DEF Hear, TypeOK, FormTypes, WatcherTypes
  <2>2. ResultTypes'
    BY <1>15 DEF Hear, TypeOK, FormTypes, ResultTypes, WatcherTypes
  <2>3. DrawerTypes'
    BY <1>15 DEF Hear, TypeOK, DrawerTypes
  <2>4. (OneAnalysisAtATime /\ StartShowsTheStatus /\ KeepsAsking)'
    BY <1>15 DEF Hear, TypeOK, FormTypes, ResultTypes, DrawerTypes, WatcherTypes,
       OneAnalysisAtATime, ScreenIsCoherent, StartShowsTheStatus, KeepsAsking
  <2>5. (ScreenIsCoherent /\ LiveInv)'
    BY <1>15 DEF Hear, TypeOK, FormTypes, ResultTypes, DrawerTypes, WatcherTypes,
       OneAnalysisAtATime, ScreenIsCoherent, LiveInv
  <2> QED
    BY <2>1, <2>2, <2>3, <2>4, <2>5 DEF TypeOK
<1>16. CASE Wake
  <2>1. (service \in Services /\ FormTypes /\ WatcherTypes)'
    BY <1>16 DEF Wake, TypeOK, FormTypes, WatcherTypes
  <2>2. ResultTypes'
    BY <1>16 DEF Wake, TypeOK, FormTypes, ResultTypes, WatcherTypes
  <2>3. DrawerTypes'
    BY <1>16 DEF Wake, TypeOK, DrawerTypes
  <2>4. (OneAnalysisAtATime /\ StartShowsTheStatus /\ KeepsAsking)'
    BY <1>16 DEF Wake, TypeOK, FormTypes, ResultTypes, DrawerTypes, WatcherTypes,
       OneAnalysisAtATime, ScreenIsCoherent, StartShowsTheStatus, KeepsAsking
  <2>5. (ScreenIsCoherent /\ LiveInv)'
    BY <1>16 DEF Wake, TypeOK, FormTypes, ResultTypes, DrawerTypes, WatcherTypes,
       OneAnalysisAtATime, ScreenIsCoherent, LiveInv
  <2> QED
    BY <2>1, <2>2, <2>3, <2>4, <2>5 DEF TypeOK
<1>17. CASE UNCHANGED vars
  BY <1>17 DEF vars, TypeOK, FormTypes, ResultTypes, DrawerTypes, WatcherTypes,
     OneAnalysisAtATime, ScreenIsCoherent, StartShowsTheStatus, KeepsAsking, LiveInv
<1> QED
  BY <1>1, <1>2, <1>3, <1>4, <1>5, <1>6, <1>7, <1>8, <1>9, <1>10, <1>11, <1>12,
     <1>13, <1>14, <1>15, <1>16, <1>17 DEF Next, User, Settle

(* The strengthened invariant holds in every reachable state. *)
THEOREM Invariance == Spec => []IInv
BY InitIInv, NextIInv, PTL DEF Spec

(* Every variable of the page keeps its type. *)
THEOREM TypeCorrect == Spec => []TypeOK
<1>1. IInv => TypeOK
  BY DEF IInv
<1> QED
  BY <1>1, Invariance, PTL

(* No sequence of clicks, answers and restarts starts a second analysis, or *)
(* leaves the page busy without one.                                        *)
THEOREM AnalysesAreSequential == Spec => []OneAnalysisAtATime
<1>1. IInv => OneAnalysisAtATime
  BY DEF IInv
<1> QED
  BY <1>1, Invariance, PTL

(* Report and drawer belong together, whatever arrives late, and the start  *)
(* view shows the last status.                                              *)
THEOREM ScreenStaysTrue == Spec => []ScreenIsTrue
<1>1. IInv => ScreenIsTrue
  BY DEF IInv, ScreenIsTrue
<1> QED
  BY <1>1, Invariance, PTL

(* The start view shows the last status, and the watcher stops only at ready. *)
THEOREM StatusIsWatched == Spec => [](StartShowsTheStatus /\ KeepsAsking)
<1>1. IInv => StartShowsTheStatus /\ KeepsAsking
  BY DEF IInv
<1> QED
  BY <1>1, Invariance, PTL

(* The response of a cancelled request is never taken. *)
THEOREM CancelledIsCancelled == Spec => CancelIsFinal
<1>1. [Next]_vars => [aborted => current' = current]_vars
  BY DEF Next, User, Settle, Restart, ServeAnalysis, ServeReadiness, Submit, Run,
     Retry,
         Cancel, OpenSource, RetryHost, ShowHost, Close, OpenHost, Responded, Failed,
         Cancelled, HostArrives, Hear, Wake, vars
<1> QED
  BY <1>1, PTL DEF Spec, CancelIsFinal
=============================================================================
