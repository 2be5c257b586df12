\* As MCPublish: the docstring of _read_export, without its exception
SPECIFICATION Spec
CONSTANTS
    Builds = {b1, b2}
    s1 = s1
    s2 = s2
    Scans = {s1, s2}
    Joins <- MCJoins
    Tables = 2
    Breaks <- MCBreaks
    NoScan = NoScan
    NoFile = NoFile
    NoArtifact = NoArtifact
INVARIANTS
    DigestsAreOfTheBytesParsed
