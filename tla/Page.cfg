\* Two queries, one of which has a report the page fails to render, and two
\* hosts, so that one can still be loading when the other is opened.
SPECIFICATION FairSpec
CONSTANTS
    Queries = {q1, q2}
    Unrenderable = {q2}
    Hosts = {h1, h2}
    Source = Source
    None = None
INVARIANTS
    TypeOK
    OneAnalysisAtATime
    ScreenIsTrue
PROPERTIES
    CancelIsFinal
    WaitsEnd
    StatusCatchesUp
