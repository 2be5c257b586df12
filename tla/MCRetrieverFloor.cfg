SPECIFICATION Spec
CONSTANTS
    C1 = C1
    C2 = C2
    CX = CX
    Cves <- MCCves
    Qids <- MCQids
    Known = {1, 2}
    QidsFor <- MCQidsFor
    Chunks = {1, 2, 3, 4}
    Owner <- MCOwner
    Text = {2, 3, 4}
    Questions <- MCQuestions
    Hits <- MCHits
    Cosines <- MCCosines
    Relevances <- MCRelevances
    CandidateCount = 3
    ContextCount = 2
    FusionK = 60
    Unit = 238266
    DenseFloor = 1
    DenseMargin = 1
    RerankFloor = 1
    RerankMargin = 1
    Pending = Pending
    NotReranked = NotReranked
    NoCursor = NoCursor
INVARIANT AbstentionReasonIsTrue
