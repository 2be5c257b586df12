\* The hint of a "not ready" failure, on the instance of Page.cfg
SPECIFICATION Spec
CONSTANTS
    Queries = {q1, q2}
    Unrenderable = {q2}
    Hosts = {h1, h2}
    Source = Source
    None = None
INVARIANTS
    NotReadyIsFollowedUp
