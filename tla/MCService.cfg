\* Two requests; every command with settings that differ in one way.
SPECIFICATION Spec
CONSTANTS
    Qids = {1, 2, 3, 9}
    Cves = {1, 2, 3}
    Known = {1, 2, 3}
    Held = {1, 2}
    QidsFor <- MCQidsFor
    Hosts = {1, 2, 3}
    Detected <- MCDetected
    Cutoff = 2
    m1 = m1
    m2 = m2
    Models = {m1, m2}
    Artifacts <- MCArtifacts
    NoFile = NoFile
    Processes <- MCProcesses
    Requests = {r1, r2}
    Asked <- MCAsked
    Results <- MCResults
    ClientIds = {i1}
    FreshIds = {u1, u2}
    NoId = NoId
    Malformed = Malformed
    None = None
SYMMETRY Symmetry
INVARIANTS
    TypeOK
    StoresAreClosed
    UserErrorsAreTold
    AnswersAreTraced
    ScoringIsFair
