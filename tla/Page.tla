-------------------------------- MODULE Page --------------------------------
(***************************************************************************)
(* The controllers of blast_radius/static/app.js: one analysis at a time,  *)
(* a drawer whose host may still be loading, and a watcher that asks       *)
(* /readyz until the service is ready.  The page runs on one thread, so a  *)
(* handler is one step; between two steps answers arrive in any order, the *)
(* user clicks, and the service restarts.                                  *)
(***************************************************************************)
CONSTANTS Queries,      \* queries the form accepts
          Unrenderable, \* queries whose report renderReport throws on
          Hosts,        \* hosts a report links to
          Source,       \* what the drawer shows for a citation
          None

ASSUME PageAssumption == /\ Unrenderable \subseteq Queries
                         /\ None \notin Queries \cup Hosts \cup {Source}
                         /\ Source \notin Hosts

VARIABLES
    service,   \* what the server is: "ready", "not_ready" or "down"
    inflight,  \* the query of the request in flight, or None
    aborted,   \* whether cancel has fired that request's signal
    reply,     \* the server's reply to it, on its way to the page, or None
    busy,      \* setBusy
    view,      \* results.dataset.view
    current,   \* the query of the last response, or None
    shown,     \* the query whose report is on screen, or that a retry repeats
    failure,   \* the kind of the failure on screen, or None
    subject,   \* what the drawer's title names; None = the drawer is hidden
    content,   \* what its body shows: [of, as]
    waiting,   \* host requests whose promise has not settled
    watcher,   \* "idle", "asking", "answered" or "sleeping"
    answer,    \* the readiness on its way to the page
    readiness, \* the last one that arrived
    painted,   \* the one the start view was painted with; None in other views
    followed   \* ghost: /readyz was asked after the last 503 for a host

form_vars    == <<inflight, aborted, reply, busy>>
result_vars  == <<view, current, shown, failure, painted>>
drawer_vars  == <<subject, content, waiting>>
watcher_vars == <<watcher, answer, readiness, followed>>
vars == <<service, inflight, aborted, reply, busy, view, current, shown, failure,
          painted, subject, content, waiting, watcher, answer, readiness, followed>>

Services == {"ready", "not_ready", "down"}

(* The replies a service can give to /v1/analyze; "network" is none at all. *)
Replies(s) == CASE s = "ready"     -> {"report", "unreadable", "422", "500"}
                [] s = "not_ready" -> {"503"}
                [] s = "down"      -> {"network"}

AllReplies == {"report", "unreadable", "422", "500", "503", "network"}

(* Mutant: failureFrom without its fallback for other statuses. *)
KindOfListed(r) == CASE r = "unreadable" -> "unexpected"
                     [] r = "422"        -> "invalid"
                     [] r = "503"        -> "not_ready"
                     [] r = "network"    -> "network"
                     [] OTHER            -> "undefined"

(* failureFrom, and what analyse throws: how a reply that is no report is shown. *)
KindOf(r) == CASE r = "unreadable" -> "unexpected"
               [] r = "422"        -> "invalid"
               [] r = "500"        -> "server"
               [] r = "503"        -> "not_ready"
               [] r = "network"    -> "network"

FailureKinds == {"unexpected", "invalid", "server", "not_ready", "network"}

(* fetchReadiness *)
ReadinessOf(s) == IF s = "down" THEN "unreachable" ELSE s

Statuses == {"ready", "not_ready", "unreachable"}

HostRequests == [host : Hosts, aborted : BOOLEAN]

Contents == [of : Hosts \cup {Source}, as : {"loading", "detail"} \cup FailureKinds]

FormTypes == /\ inflight \in Queries \cup {None}
             /\ aborted \in BOOLEAN
             /\ reply \in AllReplies \cup {None}
             /\ busy \in BOOLEAN

ResultTypes == /\ view \in {"start", "loading", "report", "failure"}
               /\ current \in Queries \cup {None}
               /\ shown \in Queries \cup {None}
               /\ failure \in FailureKinds \cup {None}
               /\ painted \in Statuses \cup {None}

DrawerTypes == /\ subject \in Hosts \cup {Source, None}
               /\ content \in Contents \cup {None}
               /\ waiting \in SUBSET HostRequests

WatcherTypes == /\ watcher \in {"idle", "asking", "answered", "sleeping"}
                /\ answer \in Statuses \cup {None}
                /\ readiness \in Statuses \cup {None}
                /\ followed \in BOOLEAN

TypeOK == service \in Services /\ FormTypes /\ ResultTypes /\ DrawerTypes /\ WatcherTypes

(* main: the start view is painted and the watcher started. *)
Init ==
    /\ service \in Services
    /\ inflight = None /\ aborted = FALSE /\ reply = None /\ busy = FALSE
    /\ view = "start" /\ current = None /\ shown = None /\ failure = None
    /\ painted = None
    /\ subject = None /\ content = None /\ waiting = {}
    /\ watcher = "asking" /\ answer = None /\ readiness = None
    /\ followed = TRUE

-----------------------------------------------------------------------------
(* The server: it restarts, and answers what reaches it as what it is then. *)

Restart ==
    /\ service' \in Services \ {service}
    /\ UNCHANGED <<form_vars, result_vars, drawer_vars, watcher_vars>>

ServeAnalysis ==
    /\ inflight # None
    /\ reply = None
    /\ reply' \in Replies(service)
    /\ UNCHANGED <<service, inflight, aborted, busy, result_vars, drawer_vars,
                   watcher_vars>>

ServeReadiness ==
    /\ watcher = "asking"
    /\ watcher' = "answered"
    /\ answer' = ReadinessOf(service)
    /\ UNCHANGED <<service, form_vars, result_vars, drawer_vars, readiness, followed>>

-----------------------------------------------------------------------------
(* What handlers share. *)

(* Mutant: release() does not abort the request of the last view. *)
ReleasedWithoutAbort(requests) == requests

(* release: the request of the view that the drawer shows is aborted. *)
Released(requests) == {[f EXCEPT !.aborted = TRUE] : f \in requests}

CloseDrawer == /\ subject' = None
               /\ content' = None
               /\ waiting' = Released(waiting)

ShowStart == /\ view' = "start"
             /\ shown' = None
             /\ failure' = None
             /\ painted' = readiness

ShowFailure(kind, retry) == /\ view' = "failure"
                            /\ failure' = kind
                            /\ shown' = retry
                            /\ painted' = None

(* showReport: a report that cannot be rendered becomes a failure. *)
ShowReport(q) ==
    IF q \in Unrenderable
    THEN ShowFailure("unexpected", None)
    ELSE /\ view' = "report"
         /\ failure' = None
         /\ shown' = q
         /\ painted' = None

-----------------------------------------------------------------------------
(* run(query) *)

(* Its first half, up to the await. *)
Run(q) ==
    /\ inflight' = q
    /\ aborted' = FALSE
    /\ reply' = None
    /\ busy' = TRUE
    /\ CloseDrawer
    /\ view' = "loading" /\ shown' = None /\ failure' = None /\ painted' = None
    /\ UNCHANGED <<service, current, watcher_vars>>

(* The form's submit, which the chips and the shortcut request too. *)
Submit(q) == inflight = None /\ Run(q)

(* The "Try again" of a failed analysis: nothing but its being on screen    *)
(* keeps it from starting a second request.                                 *)
Retry == view = "failure" /\ shown # None /\ Run(shown)

Cancel ==
    /\ busy
    /\ inflight # None
    /\ aborted' = TRUE
    /\ UNCHANGED <<service, inflight, reply, busy, result_vars, drawer_vars,
                   watcher_vars>>

(* The finally block. *)
Finish == /\ inflight' = None
          /\ busy' = FALSE
          /\ aborted' = FALSE
          /\ reply' = None

(* watchReadiness: does nothing while it is asking already. *)
Watch == /\ watcher' = IF watcher = "idle" THEN "asking" ELSE watcher
         /\ followed' = (followed \/ watcher = "idle")
         /\ UNCHANGED <<answer, readiness>>

(* Mutant: the request is sent without the signal, so cancel does not stop  *)
(* its response.                                                            *)
RespondedAnyway ==
    /\ inflight # None
    /\ reply = "report"
    /\ current' = inflight
    /\ ShowReport(inflight)
    /\ Finish
    /\ UNCHANGED <<service, drawer_vars, watcher_vars>>

Responded ==
    /\ inflight # None
    /\ reply = "report"
    /\ ~aborted
    /\ current' = inflight
    /\ ShowReport(inflight)
    /\ Finish
    /\ UNCHANGED <<service, drawer_vars, watcher_vars>>

Failed ==
    /\ inflight # None
    /\ reply \notin {None, "report"}
    /\ ~aborted
    /\ ShowFailure(KindOf(reply), inflight)
    /\ IF reply = "503" THEN Watch ELSE UNCHANGED watcher_vars
    /\ Finish
    /\ UNCHANGED <<service, current, drawer_vars>>

(* Mutant: the early return of the cancelled case skips the finally block.  *)
CancelledUnfinished ==
    /\ inflight # None
    /\ aborted
    /\ IF current # None THEN ShowReport(current) ELSE ShowStart
    /\ UNCHANGED <<service, form_vars, current, drawer_vars, watcher_vars>>

(* The AbortError arrives: back to the last response, or to the start. *)
Cancelled ==
    /\ inflight # None
    /\ aborted
    /\ IF current # None THEN ShowReport(current) ELSE ShowStart
    /\ Finish
    /\ UNCHANGED <<service, current, drawer_vars, watcher_vars>>

-----------------------------------------------------------------------------
(* The drawer.  Citations and hosts are opened from the report on screen.   *)

OpenSource ==
    /\ view = "report"
    /\ subject' = Source
    /\ content' = [of |-> Source, as |-> "detail"]
    /\ waiting' = Released(waiting)
    /\ UNCHANGED <<service, form_vars, result_vars, watcher_vars>>

ShowHost(h) ==
    /\ subject' = h
    /\ content' = [of |-> h, as |-> "loading"]
    /\ waiting' = Released(waiting) \cup {[host |-> h, aborted |-> FALSE]}
    /\ UNCHANGED <<service, form_vars, result_vars, watcher_vars>>

OpenHost(h) == view = "report" /\ ShowHost(h)

RetryHost == /\ subject \in Hosts
             /\ content.as \in FailureKinds
             /\ ShowHost(subject)

Close == /\ subject # None
         /\ CloseDrawer
         /\ UNCHANGED <<service, form_vars, result_vars, watcher_vars>>

(* A host request settles: with what the server is at this moment, or with  *)
(* the AbortError that nobody shows.  fill() checks the signal once more.   *)
HostArrives(f) ==
    /\ f \in waiting
    /\ waiting' = waiting \ {f}
    /\ IF f.aborted
       THEN UNCHANGED <<content, followed>>
       ELSE \E r \in Replies(service) :
              /\ content' = [of |-> f.host,
                             as |-> IF r = "report" THEN "detail" ELSE KindOf(r)]
              /\ followed' = (followed /\ r # "503")
    /\ UNCHANGED <<service, form_vars, result_vars, subject, watcher, answer, readiness>>

-----------------------------------------------------------------------------
(* The readiness watcher. *)

(* Mutants: the watcher stops at any answer of the service; a changed status *)
(* shows the start view whatever is on screen; it is not repainted.         *)
HearOnce ==
    /\ watcher = "answered"
    /\ watcher' = IF answer = "unreachable" THEN "sleeping" ELSE "idle"
    /\ readiness' = answer
    /\ answer' = None
    /\ painted' = IF view = "start" THEN answer ELSE painted
    /\ UNCHANGED <<service, form_vars, view, current, shown, failure, drawer_vars,
                   followed>>

HearAndShowStart ==
    /\ watcher = "answered"
    /\ watcher' = IF answer = "ready" THEN "idle" ELSE "sleeping"
    /\ readiness' = answer
    /\ answer' = None
    /\ IF readiness # answer
       THEN view' = "start" /\ shown' = None /\ failure' = None /\ painted' = answer
       ELSE UNCHANGED <<view, shown, failure, painted>>
    /\ UNCHANGED <<service, form_vars, current, drawer_vars, followed>>

HearUnpainted ==
    /\ watcher = "answered"
    /\ watcher' = IF answer = "ready" THEN "idle" ELSE "sleeping"
    /\ readiness' = answer
    /\ answer' = None
    /\ UNCHANGED <<service, form_vars, result_vars, drawer_vars, followed>>

(* An answer arrives; a changed one is painted, on the start view too. *)
Hear ==
    /\ watcher = "answered"
    /\ watcher' = IF answer = "ready" THEN "idle" ELSE "sleeping"
    /\ readiness' = answer
    /\ answer' = None
    /\ painted' = IF readiness # answer /\ view = "start" THEN answer ELSE painted
    /\ UNCHANGED <<service, form_vars, view, current, shown, failure, drawer_vars,
                   followed>>

(* The timer fires. *)
Wake ==
    /\ watcher = "sleeping"
    /\ watcher' = "asking"
    /\ followed' = TRUE
    /\ UNCHANGED <<service, form_vars, result_vars, drawer_vars, answer, readiness>>

-----------------------------------------------------------------------------
User == \/ \E q \in Queries : Submit(q)
        \/ Retry \/ Cancel
        \/ OpenSource \/ RetryHost \/ Close
        \/ \E h \in Hosts : OpenHost(h)

Settle == Responded \/ Failed \/ Cancelled

Next == \/ Restart \/ ServeAnalysis \/ ServeReadiness
        \/ User
        \/ Settle
        \/ \E f \in HostRequests : HostArrives(f)
        \/ Hear \/ Wake

Spec == Init /\ [][Next]_vars

(* The server answers what it is asked, answers arrive, timers fire.  The   *)
(* user and the operator owe nothing.                                       *)
Fairness == /\ WF_vars(ServeAnalysis) /\ WF_vars(ServeReadiness)
            /\ WF_vars(Settle) /\ WF_vars(Hear) /\ WF_vars(Wake)
            /\ \A f \in HostRequests : WF_vars(HostArrives(f))

FairSpec == Spec /\ Fairness

-----------------------------------------------------------------------------
(* Properties *)

(* At most one analysis is in flight, although nothing in run() checks it:  *)
(* while there is one the results show its skeleton, the page is busy and   *)
(* the drawer is shut, so no control that could start or open another is    *)
(* on screen; and when there is none, the page is not left waiting.         *)
OneAnalysisAtATime ==
    /\ inflight # None <=> view = "loading"
    /\ inflight # None <=> busy
    /\ inflight # None => subject = None

(* What is on screen hangs together: the report is that of the last         *)
(* response, the drawer belongs to that report, and its body to its title,  *)
(* however late the answers for hosts opened before arrive.                 *)
ScreenIsCoherent ==
    /\ view = "report" => shown = current /\ current # None
    /\ subject # None => view = "report" /\ content.of = subject
    /\ subject = None => content = None

(* The start page always shows the status the pill shows.                   *)
StartShowsTheStatus == view = "start" => painted = readiness

(* What the user reads is true together: report, drawer and status.  An     *)
(* answer of any request may arrive on any screen and must leave it so.     *)
ScreenIsTrue == ScreenIsCoherent /\ StartShowsTheStatus

(* Until the service has been seen ready, the watcher never stops.          *)
KeepsAsking == readiness # "ready" => watcher # "idle"

(* A cancelled request never becomes the response on screen.                *)
CancelIsFinal == [][aborted => current' = current]_vars

(* Whatever the page waits for ends: the analysis, and a host's details.    *)
WaitsEnd == /\ inflight # None ~> inflight = None
            /\ \A h \in Hosts : LET loading == content = [of |-> h, as |-> "loading"]
                               IN  loading ~> ~loading

(* A service that stays ready is shown as ready in the end: the watcher     *)
(* does not stop before.                                                    *)
StatusCatchesUp == <>[](service = "ready") => <>[](readiness = "ready")

(* A host that could not be loaded because the service is not ready is      *)
(* shown with the promise that the status changes when it is: /readyz has   *)
(* been asked, or will be, since that reply.                                *)
NotReadyIsFollowedUp ==
    subject \in Hosts /\ content.as = "not_ready" /\ watcher = "idle" => followed
=============================================================================
