------------------------------ MODULE Ranking ------------------------------
(***************************************************************************)
(* Step 4 of the pipeline, blast_radius/ranking.py: how threatening a QID  *)
(* is, how urgent a host, and which hosts are one unit of work.  Scores    *)
(* are integers on a scale of Full, which stands for 1.0; the division by  *)
(* the baseline criticality is the same for every host and left out.       *)
(***************************************************************************)
EXTENDS Integers, Sequences, FiniteSets, FiniteSetsExt

CONSTANTS Known,           \* QIDs; their order is that of the strings
          Cves,
          Bundle,          \* per QID, its CVEs in the order of cves_for_qid
          Severity,        \* per QID, the Qualys severity, scaled, or Missing
          Cvss, Epss,      \* per CVE, scaled, or Missing
          Kev,             \* the CVEs that are known to be exploited
          Hosts,           \* ids
          Name,            \* per host, a number that sorts as its name does
          Running,
          Facing,          \* the internet-facing hosts
          Criticality,
          UnitOf,          \* per host, its grouping key
          Full, Missing,
          WeightSeverity, WeightEpss, WeightKev, FacingMultiplier,
          GroupExampleCount

ASSUME QidsAssumption == Known \subseteq Nat /\ Bundle \in [Known -> Seq(Cves)]
ASSUME HostsAssumption == /\ Hosts \subseteq Nat
                          /\ IsFiniteSet(Hosts)
                          /\ Running \subseteq Hosts
                          /\ Facing \subseteq Hosts
                          /\ UnitOf \in [Hosts -> Nat]
                          /\ Name \in [Hosts -> Nat]
                          /\ Criticality \in [Hosts -> Nat]
ASSUME ScoresAssumption == /\ Missing \notin Int
                           /\ Severity \in [Known -> Int \cup {Missing}]
                           /\ Cvss \in [Cves -> Int \cup {Missing}]
                           /\ Epss \in [Cves -> Int \cup {Missing}]
                           /\ Full \in Nat
ASSUME WeightsAssumption == /\ {WeightSeverity, WeightEpss, WeightKev} \subseteq Nat
                            /\ FacingMultiplier \in Nat \ {0}
                            /\ GroupExampleCount \in Nat \ {0}

Elements(s) == {s[i] : i \in DOMAIN s}

-----------------------------------------------------------------------------
(* Threat *)

(* _clamp_unit *)
Clamp(x) == IF x < 0 THEN 0 ELSE IF x > Full THEN Full ELSE x

Given(f, S) == {Clamp(f[x]) : x \in {y \in S : f[y] # Missing}}

(* Each signal is the worst of the bundle, taken separately; the scanner's  *)
(* own severity stands in where no CVE has a score.                        *)
SeverityOf(k) ==
    LET scores == Given(Cvss, Elements(Bundle[k])) IN
    IF scores # {} THEN Max(scores)
    ELSE IF Severity[k] # Missing THEN Clamp(Severity[k]) ELSE 0

Threat(k) ==
    LET all == Elements(Bundle[k])
    IN    WeightSeverity * SeverityOf(k)
        + WeightEpss * Max(Given(Epss, all) \cup {0})
        + WeightKev * (IF all \cap Kev # {} THEN Full ELSE 0)

-----------------------------------------------------------------------------
(* Hosts, by the matched QIDs D found on each *)

Exposure(h) == (IF h \in Facing THEN FacingMultiplier ELSE 1) * Criticality[h]

(* The greatest threat drives; on a tie, the QID that sorts first. *)
Driving(D) ==
    CHOOSE k \in D : \A l \in D \ {k} :
        Threat(k) > Threat(l) \/ (Threat(k) = Threat(l) /\ k < l)

Priority(h, D) == Threat(Driving(D)) * Exposure(h)

(* _priority_order, where found gives the matched QIDs of each host: the    *)
(* higher priority, then the name, then the id.                             *)
MoreUrgent(g, h, found) ==
    LET p == Priority(g, found[g])
        q == Priority(h, found[h])
    IN  p > q \/ (p = q /\ (Name[g] < Name[h] \/ (Name[g] = Name[h] /\ g < h)))

MostUrgent(S, found) == CHOOSE h \in S : \A g \in S \ {h} : MoreUrgent(h, g, found)

(* The first n of S. *)
First(n, S, found) == {h \in S : Cardinality({g \in S : MoreUrgent(g, h, found)}) < n}

-----------------------------------------------------------------------------
(* Groups *)

UnitMembers(u, ranked) == {h \in ranked : UnitOf[h] = u}
Units(ranked) == {UnitOf[h] : h \in ranked}

(* A group takes the priority of its most urgent host. *)
GroupPriority(u, ranked, found) ==
    LET h == MostUrgent(UnitMembers(u, ranked), found) IN Priority(h, found[h])

(* Mutant: large groups first. *)
GroupBeforeBySize(u, v, ranked, found) ==
    LET n == Cardinality(UnitMembers(u, ranked))
        m == Cardinality(UnitMembers(v, ranked))
    IN  n > m \/ (n = m /\ u < v)

(* By priority, then count, then label. *)
GroupBefore(u, v, ranked, found) ==
    LET p == GroupPriority(u, ranked, found)
        q == GroupPriority(v, ranked, found)
        n == Cardinality(UnitMembers(u, ranked))
        m == Cardinality(UnitMembers(v, ranked))
    IN  p > q \/ (p = q /\ (n > m \/ (n = m /\ u < v)))

(* Hosts that share a name count once. *)
Examples(u, ranked, found) ==
    LET S == UnitMembers(u, ranked)
        D == {h \in S : \A g \in S \ {h} : Name[g] = Name[h] => MoreUrgent(h, g, found)}
    IN  {Name[h] : h \in First(GroupExampleCount, D, found)}
=============================================================================
