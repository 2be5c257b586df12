\* Two builds and a scanner that renews both exports, or writes into them;
\* s2's assets break a constraint of the second of two tables.
SPECIFICATION Spec
CONSTANTS
    Builds = {b1, b2}
    s1 = s1
    s2 = s2
    Scans = {s1, s2}
    Joins <- MCJoins
    Tables = 2
    Breaks <- MCBreaks
    NoScan = NoScan
    NoFile = NoFile
    NoArtifact = NoArtifact
INVARIANTS
    TypeOK
    TargetIsWhole
    DigestsAreOfTheRows
    OnlyKillsLeaveLitter
PROPERTIES
    KeepsContract
