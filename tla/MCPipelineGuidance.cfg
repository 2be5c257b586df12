SPECIFICATION Spec
CONSTANTS
    C1 = C1
    C2 = C2
    CX = CX
    A = A
    Qids <- MCQids
    Known <- MCKnown
    Cves <- MCCves
    Bundle <- MCBundle
    QidsFor <- MCQidsFor
    Severity <- MCSeverity
    Cvss <- MCCvss
    Epss <- MCEpss
    Kev = {C1}
    Hosts = {1, 2, 3, 4, 5, 6}
    Running = {1, 2, 3, 4, 6}
    Facing = {3}
    Detected <- MCDetected
    Name <- MCName
    UnitOf <- MCUnitOf
    Criticality <- MCCriticality
    Full = 10
    Missing = Missing
    WeightSeverity = 5
    WeightEpss = 3
    WeightKev = 2
    FacingMultiplier = 2
    GroupExampleCount = 1
    Chunks = {1, 2, 3, 4}
    Text = {2, 3, 4}
    Owner <- MCOwner
    ProseOf <- MCProseOf
    MentionedIn <- MCMentionedIn
    EvidenceNames <- MCEvidenceNames
    Label <- MCLabel
    UnitLabel <- MCUnitLabel
    Diagnosed = {1, 2}
    DiagnosisSays <- MCDiagnosisSays
    CveSays <- MCCveSays
    Addresses = {A}
    PlainNames = {2}
    Queries <- MCQueries
    Readings <- MCReadings
    Results <- MCResults
    FixHits <- MCFixHits
    Briefs <- MCBriefs
    MaxSearchQueries = 2
    MaxRefs = 2
    MaxEvidenceCves = 1
    FixChunkCount = 2
    ContextCount = 1
    MaxContextItems = 4
    BundleCaveat = 1
    MaxListed = 1
    MaxGroups = 1
    Pending = Pending
    Blank = Blank
INVARIANT NoGuidanceMeansNone
