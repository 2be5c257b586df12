\* The exports of MCExports, and texts of up to five words or six tokens.
SPECIFICATION IndexSpec
CONSTANTS
    h1 = h1
    h2 = h2
    b1 = b1
    b2 = b2
    d1 = d1
    d2 = d2
    q1 = q1
    q2 = q2
    t1 = t1
    t2 = t2
    c1 = c1
    c2 = c2
    w1 = w1
    w2 = w2
    f1 = f1
    f2 = f2
    f3 = f3
    MaxRows = 3
    Missing = Missing
    Null = Null
    None = None
    Hosts = {h1, h2}
    Bodies = {b1, b2}
    DetectionIds = {d1, d2}
    Qids = {q1, q2}
    Dates = {t1, t2}
    Cves = {c1, c2}
    Writeups = {w1, w2}
    Untitled = {w2}
    Fields = {f1, f2, f3}
    Broken = {f3}
    Inputs <- MCInputs
    MaxWords = 5
    MaxTokens = 6
    MaxChars = 5
    TraceWindow = 1
    MinTraceTokens = 2
    MinProseBetween = 4
    MinTail = 2
    OverlapSentences = 1
    BatchSize = 2
    Words <- MCWords
    Builds <- MCBuilds
INVARIANTS
    IndexTypeOK
    SoundExportsAreWritten
    ReferencesResolve
    CorpusIsFaithful
    NothingIsLost
    ChunksFit
    TracesAreKeptApart
    EmbeddedOnce
