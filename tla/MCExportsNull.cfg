\* The exports of MCExports, where a row's cve_id may be null.
SPECIFICATION Spec
CONSTANTS
    h1 = h1
    h2 = h2
    b1 = b1
    b2 = b2
    d1 = d1
    d2 = d2
    q1 = q1
    q2 = q2
    t1 = t1
    t2 = t2
    c1 = c1
    c2 = c2
    w1 = w1
    w2 = w2
    f1 = f1
    f2 = f2
    f3 = f3
    MaxRows = 3
    Missing = Missing
    Null = Null
    None = None
    Hosts = {h1, h2}
    Bodies = {b1, b2}
    DetectionIds = {d1, d2}
    Qids = {q1, q2}
    Dates = {t1, t2}
    Cves = {c1, c2}
    Writeups = {w1, w2}
    Untitled = {w2}
    Fields = {f1, f2, f3}
    Broken = {f3}
    Inputs <- MCInputs
INVARIANTS
    FailuresAreIngestErrors
