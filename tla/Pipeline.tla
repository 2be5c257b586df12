------------------------------ MODULE Pipeline ------------------------------
(***************************************************************************)
(* Pipeline.analyze, blast_radius/pipeline.py, with what it calls in       *)
(* fix_evidence.py, verify.py and prompts.py.  Step 2 is any answer that   *)
(* RetrieverContract allows, step 4 is Ranking, and the language model     *)
(* answers what it likes, if it answers.                                   *)
(*                                                                         *)
(* One behaviour is one pipeline and one query.                            *)
(***************************************************************************)
EXTENDS Ranking

CONSTANTS Qids,             \* numbers an analyst may write after "QID"
          QidsFor,          \* per CVE, its QIDs in the order of qids_for_cve
          Detected,         \* per host, the QIDs the scanner found on it
          Chunks, Owner,    \* chunk ids, and the document of each
          Text,             \* the chunks of kind "text"; the others are kernel traces
          ProseOf,          \* per document, its text chunks in document order
          MentionedIn,      \* per chunk, the names in its title and text
          EvidenceNames,    \* per item of evidence, the names in its text
          Label,            \* per QID, the names in its label and category
          UnitLabel,        \* per unit of hosts, the names in its label
          Diagnosed,        \* the QIDs with a diagnosis
          DiagnosisSays,    \* per QID, how many items of evidence of each kind it holds
          CveSays,          \* per CVE, the same
          Addresses,        \* IP addresses and instance ids
          PlainNames,       \* host names of one word, which prose uses anyway
          Queries,          \* the queries of the run
          Readings,         \* the names in what a model may read as product and version
          Results,          \* what step 2 may answer, within its contract
          FixHits,          \* what the restricted search of step 5 may return
          Briefs,           \* what the language model may write
          MaxSearchQueries, MaxRefs, MaxEvidenceCves, FixChunkCount, ContextCount,
          MaxContextItems, BundleCaveat, MaxListed, MaxGroups,
          Pending, Blank

Docs  == [type : {"qid"}, id : Known] \cup [type : {"cve"}, id : Cves]
Names == [type : {"qid"}, id : Qids] \cup [type : {"cve"}, id : Cves]
         \cup [type : {"host"}, id : {Name[h] : h \in Hosts}]
         \cup [type : {"address"}, id : Addresses]

Qid(k)  == [type |-> "qid", id |-> k]
Cve(c)  == [type |-> "cve", id |-> c]
Host(n) == [type |-> "host", id |-> n]

QidKinds == {"affected_versions", "package_update"}
CveKinds == {"required_action", "vendor_fix", "patch_reference", "advisory_reference"}
Evidence == [doc : Docs, kind : QidKinds \cup CveKinds, nth : Nat \ {0}]

(* A source is a chunk by its id, or evidence by its number. *)
Sources == [type : {"chunk"}, id : Chunks] \cup [type : {"evidence"}, id : Nat \ {0}]

(* A quote is told apart by the source it can be found in, if there is one. *)
Claims == [cites : Seq([source : Sources, quote : Sources \cup {Blank}]), names : SUBSET Names]

ASSUME CorpusAssumption ==
    /\ Known \subseteq Qids
    /\ Qids \subseteq Nat
    /\ Cves \cap Qids = {}
    /\ QidsFor \in [Cves -> Seq(Known)]
    /\ \A k \in Known : Elements(Bundle[k]) = {c \in Cves : k \in Elements(QidsFor[c])}
    /\ Detected \in [Hosts -> SUBSET Known]
    /\ Owner \in [Chunks -> Docs]
    /\ Text \subseteq Chunks
    /\ ProseOf \in [Docs -> Seq(Text)]
    /\ \A d \in Docs : Elements(ProseOf[d]) = {c \in Text : Owner[c] = d}
ASSUME NamesAssumption ==
    /\ MentionedIn \in [Chunks -> SUBSET Names]
    /\ Label \in [Known -> SUBSET Names]
    /\ UnitLabel \in [{UnitOf[h] : h \in Hosts} -> SUBSET Names]
    /\ Readings \subseteq SUBSET Names
    /\ {} \in Readings
ASSUME EvidenceAssumption ==
    /\ Diagnosed \subseteq Known
    /\ DiagnosisSays \in [Known -> [QidKinds -> {0, 1}]]
    /\ CveSays \in [Cves -> [CveKinds -> Nat]]
(* A query mentions what verify.py finds in it as typed: every CVE, but not *)
(* each QID of a list, and whatever hosts and addresses its text names.     *)
ASSUME QueriesAssumption ==
    /\ Queries \subseteq [blank : BOOLEAN, cves : Seq(Cves), qids : Seq(Qids),
                          text : BOOLEAN, long : BOOLEAN, mentions : SUBSET Names]
    /\ \A q \in Queries :
          {n \in q.mentions : n.type = "cve"} = {Cve(c) : c \in Elements(q.cves)}
ASSUME ChoicesAssumption ==
    /\ Results \subseteq [matches : Seq(Known), cves : [Known -> Seq(Cves)],
                          hits : [Known -> Seq(Chunks)],
                          unknown : SUBSET (Cves \cup Qids), abstained : BOOLEAN]
    /\ FixHits \subseteq Seq(Text)
    /\ Briefs \subseteq [claims : Seq(Claims), prose : SUBSET Names]
ASSUME LimitsAssumption ==
    /\ {MaxSearchQueries, MaxRefs, MaxEvidenceCves, FixChunkCount, BundleCaveat,
        MaxListed} \subseteq Nat
    /\ {ContextCount, MaxContextItems, MaxGroups} \subseteq Nat \ {0}

(* What the contract sees of an AnalyzeResponse. *)
Responses == [matches : Seq(Known), hosts : SUBSET Hosts, inactive : SUBSET Hosts,
              missing : SUBSET (Cves \cup Qids), coverage : BOOLEAN, brief : BOOLEAN,
              excused : BOOLEAN]
ASSUME PendingAssumption == Pending \notin Results \cup Briefs \cup Responses

VARIABLES
    provider,   \* whether a language model is configured
    query,      \* what the analyst typed
    pc,
    parsed,     \* the ParsedQuery
    answer,     \* the RetrievalResult, or Pending
    found,      \* per affected host, the matched QIDs on it
    hosts,      \* the running affected hosts
    inactive,   \* the others
    place,      \* the match of the current loop
    todo,       \* the CVEs, or documents, of that match not yet looked at
    docs,       \* the documents that evidence was taken from
    evidence,   \* e1, e2, ...
    fixes,      \* the chunks that the search for fix guidance found
    writeup,    \* the text chunks fetched for a match without hits
    chunks,     \* the chunks for the context, those already placed left out
    items,      \* the chunks placed in the context
    context,    \* what the brief may cite
    caveats,
    notices,
    brief,      \* the Answer, or Pending
    verified,   \* the claims marked as verified
    unknown     \* the verification's unknown_identifiers

parse_vars  == <<provider, query, parsed>>
match_vars  == <<answer, found, hosts, inactive>>
fix_vars    == <<docs, evidence, fixes>>
gather_vars == <<writeup, chunks, items, context>>
brief_vars  == <<brief, verified, unknown>>
vars == <<parse_vars, pc, match_vars, place, todo, fix_vars, gather_vars, caveats,
          notices, brief_vars>>

(* parse_without_llm *)
Typed(q) == [cves |-> q.cves, qids |-> q.qids, queries |-> IF q.text THEN 1 ELSE 0,
             product |-> {}]

Steps == {"new", "refused", "parse", "retrieve", "rank", "evidence", "cve", "gather",
          "fetch", "place", "caveats", "write", "verify", "done"}

Notices == {"parse failed", "no provider", "no brief"}

(* Identifiers not in the corpus; matched QIDs without a write-up, without  *)
(* guidance, or with a large bundle; and what is said once.                 *)
Caveats == [strange : SUBSET (Cves \cup Qids),
            unexplained : SUBSET Known, unguided : SUBSET Known, bundles : SUBSET Known,
            general : SUBSET {"abstained", "coverage", "inactive"}]
NoCaveats == [strange |-> {}, unexplained |-> {}, unguided |-> {}, bundles |-> {},
              general |-> {}]

Init ==
    /\ provider \in BOOLEAN
    /\ query \in Queries
    /\ pc = "new"
    /\ parsed = Typed(query)
    /\ answer = Pending
    /\ found = [h \in Hosts |-> {}]
    /\ hosts = {}
    /\ inactive = {}
    /\ place = 1
    /\ todo = <<>>
    /\ docs = {}
    /\ evidence = <<>>
    /\ fixes = <<>>
    /\ writeup = <<>>
    /\ chunks = <<>>
    /\ items = <<>>
    /\ context = <<>>
    /\ caveats = NoCaveats
    /\ notices = {}
    /\ brief = Pending
    /\ verified = {}
    /\ unknown = {}

TypeOK ==
    /\ provider \in BOOLEAN
    /\ query \in Queries
    /\ pc \in Steps
    /\ parsed \in [cves : Seq(Cves), qids : Seq(Qids), queries : 0..MaxSearchQueries + 1,
                   product : Readings]
    /\ answer \in Results \cup {Pending}
    /\ found \in [Hosts -> SUBSET Known]
    /\ hosts \in SUBSET Running
    /\ inactive \in SUBSET Hosts
    /\ place \in Nat \ {0}
    /\ todo \in Seq(Cves) \cup Seq(Docs)
    /\ docs \in SUBSET Docs
    /\ evidence \in Seq(Evidence)
    /\ fixes \in Seq(Text)
    /\ writeup \in Seq(Text)
    /\ chunks \in Seq(Chunks)
    /\ items \in Seq(Sources)
    /\ context \in Seq(Sources)
    /\ caveats \in Caveats
    /\ notices \in SUBSET Notices
    /\ brief \in Briefs \cup {Pending}
    /\ brief = Pending => verified = {}
    /\ verified \in SUBSET Nat
    /\ unknown \in SUBSET Names

-----------------------------------------------------------------------------
(* Step 1: parse *)

(* A blank query raises ValueError. *)
Accept ==
    /\ pc = "new"
    /\ pc' = IF query.blank THEN "refused" ELSE "parse"
    /\ UNCHANGED <<parse_vars, match_vars, place, todo, fix_vars, gather_vars, caveats,
                   notices, brief_vars>>

(* Identifiers never need a model, and short text is a query already. *)
Distillable == provider /\ query.cves = <<>> /\ query.qids = <<>> /\ query.long

SkipParse ==
    /\ pc = "parse"
    /\ ~Distillable
    /\ pc' = "retrieve"
    /\ UNCHANGED <<parse_vars, match_vars, place, todo, fix_vars, gather_vars, caveats,
                   notices, brief_vars>>

ParseFailed ==
    /\ pc = "parse"
    /\ Distillable
    /\ notices' = notices \cup {"parse failed"}
    /\ pc' = "retrieve"
    /\ UNCHANGED <<parse_vars, match_vars, place, todo, fix_vars, gather_vars, caveats,
                   brief_vars>>

(* Mutant: the reply's queries are not cut to three. *)
ParseReadUncut ==
    /\ pc = "parse"
    /\ Distillable
    /\ \E n \in 0..MaxSearchQueries + 1, names \in Readings :
          parsed' = [parsed EXCEPT !.queries = n + 1, !.product = names]
    /\ pc' = "retrieve"
    /\ UNCHANGED <<provider, query, match_vars, place, todo, fix_vars, gather_vars,
                   caveats, notices, brief_vars>>

(* The reply's usable queries, none of them if it is unusable, and then the *)
(* analyst's own words; and what it takes for the product and its version.  *)
ParseRead ==
    /\ pc = "parse"
    /\ Distillable
    /\ \E n \in 0..MaxSearchQueries, names \in Readings :
          parsed' = [parsed EXCEPT !.queries = n + 1, !.product = names]
    /\ pc' = "retrieve"
    /\ UNCHANGED <<provider, query, match_vars, place, todo, fix_vars, gather_vars,
                   caveats, notices, brief_vars>>

-----------------------------------------------------------------------------
(* Steps 2 to 4: retrieve, resolve, rank *)

Retrieval == INSTANCE RetrieverContract WITH question <- parsed

Retrieve ==
    /\ pc = "retrieve"
    /\ answer' \in {a \in Results : Retrieval!Promised(parsed, a)}
    /\ pc' = "rank"
    /\ UNCHANGED <<parse_vars, found, hosts, inactive, place, todo, fix_vars, gather_vars,
                   caveats, notices, brief_vars>>

Matched == Elements(answer.matches)

(* hosts_for_qids and rank_hosts; the order is MoreUrgent. *)
Rank ==
    /\ pc = "rank"
    /\ found' = [h \in Hosts |-> Detected[h] \cap Matched]
    /\ hosts' = {h \in Running : found'[h] # {}}
    /\ inactive' = {h \in Hosts \ Running : found'[h] # {}}
    /\ pc' = "evidence"
    /\ UNCHANGED <<parse_vars, answer, place, todo, fix_vars, gather_vars, caveats,
                   notices, brief_vars>>

-----------------------------------------------------------------------------
(* Step 5: fix_evidence.collect *)

Lesser(m, n) == IF m < n THEN m ELSE n

Drafts(doc, kind, n) == [i \in 1..n |-> [doc |-> doc, kind |-> kind, nth |-> i]]

DiagnosisEvidence(k) ==
    Drafts(Qid(k), "affected_versions", DiagnosisSays[k]["affected_versions"])
    \o Drafts(Qid(k), "package_update", DiagnosisSays[k]["package_update"])

CveEvidence(c) ==
    LET says == CveSays[c] IN
    Drafts(Cve(c), "required_action", Lesser(says["required_action"], 1))
    \o Drafts(Cve(c), "vendor_fix", Lesser(says["vendor_fix"], 1))
    \o Drafts(Cve(c), "patch_reference", Lesser(says["patch_reference"], MaxRefs))
    \o Drafts(Cve(c), "advisory_reference", Lesser(says["advisory_reference"], MaxRefs))

(* The CVEs the query hit, or else the bundle, if it is small. *)
Consulted(k) ==
    IF answer.cves[k] = <<>> /\ Len(Bundle[k]) <= MaxEvidenceCves
    THEN Bundle[k] ELSE answer.cves[k]

Match == answer.matches[place]

CollectQid ==
    /\ pc = "evidence"
    /\ place <= Len(answer.matches)
    /\ IF Match \in Diagnosed
       THEN /\ docs' = docs \cup {Qid(Match)}
            /\ evidence' = evidence \o DiagnosisEvidence(Match)
       ELSE UNCHANGED <<docs, evidence>>
    /\ todo' = Consulted(Match)
    /\ pc' = "cve"
    /\ UNCHANGED <<parse_vars, match_vars, place, fixes, gather_vars, caveats, notices,
                   brief_vars>>

(* Mutant: a CVE met before ends the loop over its match. *)
CollectCveBreak ==
    /\ pc = "cve"
    /\ todo # <<>>
    /\ LET c == Head(todo) IN
       IF Cve(c) \in docs THEN todo' = <<>> /\ UNCHANGED <<docs, evidence>>
       ELSE /\ todo' = Tail(todo)
            /\ docs' = docs \cup {Cve(c)}
            /\ evidence' = evidence \o CveEvidence(c)
    /\ UNCHANGED <<parse_vars, pc, match_vars, place, fixes, gather_vars, caveats, notices,
                   brief_vars>>

(* A CVE that sits under two matched QIDs is reported once.  (Every CVE of  *)
(* a pair has a row: Exports!ReferencesResolve.)                            *)
CollectCve ==
    /\ pc = "cve"
    /\ todo # <<>>
    /\ todo' = Tail(todo)
    /\ LET c == Head(todo) IN
       IF Cve(c) \in docs THEN UNCHANGED <<docs, evidence>>
       ELSE /\ docs' = docs \cup {Cve(c)}
            /\ evidence' = evidence \o CveEvidence(c)
    /\ UNCHANGED <<parse_vars, pc, match_vars, place, fixes, gather_vars, caveats, notices,
                   brief_vars>>

EndOfCves ==
    /\ pc = "cve"
    /\ todo = <<>>
    /\ place' = place + 1
    /\ pc' = "evidence"
    /\ UNCHANGED <<parse_vars, match_vars, todo, fix_vars, gather_vars, caveats, notices,
                   brief_vars>>

(* The text among the hits of a search restricted to docs; its one slot per *)
(* document is Retriever!OneSlotPerDocument.                                *)
SearchFixes ==
    /\ pc = "evidence"
    /\ place > Len(answer.matches)
    /\ IF docs = {} \/ FixChunkCount = 0 THEN UNCHANGED fixes
       ELSE fixes' \in {r \in FixHits : /\ Len(r) <= FixChunkCount
                                        /\ \A c \in Elements(r) : Owner[c] \in docs}
    /\ place' = 1
    /\ pc' = "gather"
    /\ UNCHANGED <<parse_vars, match_vars, todo, docs, evidence, gather_vars, caveats,
                   notices, brief_vars>>

-----------------------------------------------------------------------------
(* The context of step 6 *)

(* The hits of a match, or its write-up if it was reached by identifier. *)
Gather ==
    /\ pc = "gather"
    /\ place <= Len(answer.matches)
    /\ IF answer.hits[Match] # <<>>
       THEN /\ chunks' = chunks \o answer.hits[Match]
            /\ place' = place + 1
            /\ UNCHANGED <<pc, todo>>
       ELSE /\ todo' = <<Qid(Match)>>
                       \o [i \in DOMAIN answer.cves[Match] |-> Cve(answer.cves[Match][i])]
            /\ pc' = "fetch"
            /\ UNCHANGED <<chunks, place>>
    /\ UNCHANGED <<parse_vars, match_vars, fix_vars, writeup, items, context, caveats,
                   notices, brief_vars>>

(* _write_up_of, one document at a time. *)
Fetch ==
    /\ pc = "fetch"
    /\ todo # <<>>
    /\ writeup' = writeup \o ProseOf[Head(todo)]
    /\ todo' = Tail(todo)
    /\ UNCHANGED <<parse_vars, pc, match_vars, place, fix_vars, chunks, items, context,
                   caveats, notices, brief_vars>>

EndOfFetch ==
    /\ pc = "fetch"
    /\ todo = <<>>
    /\ chunks' = chunks \o SubSeq(writeup, 1, Lesser(ContextCount, Len(writeup)))
    /\ writeup' = <<>>
    /\ place' = place + 1
    /\ pc' = "gather"
    /\ UNCHANGED <<parse_vars, match_vars, todo, fix_vars, items, context, caveats,
                   notices, brief_vars>>

GatherFixes ==
    /\ pc = "gather"
    /\ place > Len(answer.matches)
    /\ chunks' = chunks \o fixes
    /\ pc' = "place"
    /\ UNCHANGED <<parse_vars, match_vars, place, todo, fix_vars, writeup, items, context,
                   caveats, notices, brief_vars>>

ChunkItem(c)    == [type |-> "chunk", id |-> c]
EvidenceItem(n) == [type |-> "evidence", id |-> n]

(* Kernel traces and repeats are left out. *)
Place ==
    /\ pc = "place"
    /\ chunks # <<>>
    /\ chunks' = Tail(chunks)
    /\ LET c == Head(chunks) IN
       IF c \in Text /\ ChunkItem(c) \notin Elements(items)
       THEN items' = Append(items, ChunkItem(c)) ELSE UNCHANGED items
    /\ UNCHANGED <<parse_vars, pc, match_vars, place, todo, fix_vars, writeup, context,
                   caveats, notices, brief_vars>>

(* Evidence keeps up to half of the limit, chunks get what is left. *)
Kept == Lesser(Len(evidence), MaxContextItems \div 2)

(* Mutant: the chunks are cut to the limit, and the evidence added. *)
CapOfChunks ==
    /\ pc = "place"
    /\ chunks = <<>>
    /\ context' = SubSeq(items, 1, Lesser(Len(items), MaxContextItems))
                  \o [i \in 1..Kept |-> EvidenceItem(i)]
    /\ pc' = "caveats"
    /\ UNCHANGED <<parse_vars, match_vars, place, todo, fix_vars, writeup, chunks, items,
                   caveats, notices, brief_vars>>

Cap ==
    /\ pc = "place"
    /\ chunks = <<>>
    /\ context' = SubSeq(items, 1, Lesser(Len(items), MaxContextItems - Kept))
                  \o [i \in 1..Kept |-> EvidenceItem(i)]
    /\ pc' = "caveats"
    /\ UNCHANGED <<parse_vars, match_vars, place, todo, fix_vars, writeup, chunks, items,
                   caveats, notices, brief_vars>>

-----------------------------------------------------------------------------
(* _caveats *)

WithEvidence == {evidence[i].doc : i \in DOMAIN evidence}

Unexplained(k) == Severity[k] = Missing /\ Bundle[k] = <<>>

Unguided(k) == /\ ~Unexplained(k)
               /\ Qid(k) \notin WithEvidence
               /\ \A c \in Elements(Bundle[k]) : Cve(c) \notin WithEvidence

Said(what, condition) == IF condition THEN {what} ELSE {}

Caveat ==
    /\ pc = "caveats"
    /\ caveats' = [strange |-> answer.unknown,
                   unexplained |-> {k \in Matched : Unexplained(k)},
                   unguided |-> {k \in Matched : Unguided(k)},
                   bundles |-> {k \in Matched : Len(Bundle[k]) > BundleCaveat},
                   general |-> Said("abstained", answer.abstained)
                               \cup Said("coverage", answer.matches = <<>>)
                               \cup Said("inactive", answer.matches # <<>> /\ inactive # {})]
    /\ pc' = IF answer.matches = <<>> THEN "done" ELSE "write"
    /\ UNCHANGED <<parse_vars, match_vars, place, todo, fix_vars, gather_vars, notices,
                   brief_vars>>

-----------------------------------------------------------------------------
(* Step 6: _write *)

SkipWrite ==
    /\ pc = "write"
    /\ ~provider
    /\ notices' = notices \cup {"no provider"}
    /\ pc' = "done"
    /\ UNCHANGED <<parse_vars, match_vars, place, todo, fix_vars, gather_vars, caveats,
                   brief_vars>>

(* Mutant: a reply without a usable brief passes for a brief not asked for. *)
WriteFailedSilently ==
    /\ pc = "write"
    /\ provider
    /\ pc' = "done"
    /\ UNCHANGED <<parse_vars, match_vars, place, todo, fix_vars, gather_vars, caveats,
                   notices, brief_vars>>

(* The call failed, or answer_from found no summary or no claim. *)
WriteFailed ==
    /\ pc = "write"
    /\ provider
    /\ notices' = notices \cup {"no brief"}
    /\ pc' = "done"
    /\ UNCHANGED <<parse_vars, match_vars, place, todo, fix_vars, gather_vars, caveats,
                   brief_vars>>

WriteRead ==
    /\ pc = "write"
    /\ provider
    /\ brief' \in {b \in Briefs : b.claims # <<>>}
    /\ pc' = "verify"
    /\ UNCHANGED <<parse_vars, match_vars, place, todo, fix_vars, gather_vars, caveats,
                   notices, verified, unknown>>

-----------------------------------------------------------------------------
(* Step 7: verify_answer *)

(* _query_section: the identifiers read from the query, as far as listed. *)
IdentifiersRead ==
    {Cve(parsed.cves[i]) : i \in {j \in DOMAIN parsed.cves : j <= MaxListed}}
    \cup {Qid(parsed.qids[i]) :
              i \in {j \in DOMAIN parsed.qids : Len(parsed.cves) + j <= MaxListed}}

(* _hosts_section: the most urgent groups, and the example names of each. *)
UnitsShown ==
    LET Earlier(u) == {v \in Units(hosts) : GroupBefore(v, u, hosts, found)}
    IN  {u \in Units(hosts) : Cardinality(Earlier(u)) < MaxGroups}

HostNamesShown == UNION {Examples(u, hosts, found) : u \in UnitsShown}

(* _cve_note *)
CvesNoted(k) ==
    LET few(s) == {Cve(s[i]) : i \in 1..Lesser(MaxListed, Len(s))} IN
    IF answer.cves[k] # <<>> THEN few(answer.cves[k])
    ELSE IF Len(Bundle[k]) <= MaxListed THEN few(Bundle[k]) ELSE {}

(* A source is shown with its document. *)
DocOf(source) == IF source.type = "chunk" THEN Owner[source.id] ELSE evidence[source.id].doc
Says(source)  == IF source.type = "chunk" THEN MentionedIn[source.id]
                 ELSE EvidenceNames[evidence[source.id]]

WholeEvidence == (UNION {Elements(DiagnosisEvidence(k)) : k \in Known})
                 \cup (UNION {Elements(CveEvidence(c)) : c \in Cves})
ASSUME EvidenceNamesAssumption == EvidenceNames \in [WholeEvidence -> SUBSET Names]

(* _index_shown: the names in the write prompt, section by section, and in  *)
(* the sources.  A caveat names a matched QID, or a typed identifier that   *)
(* is not in the corpus.                                                    *)
Shown ==
    query.mentions \cup IdentifiersRead \cup parsed.product
    \cup (UNION {{Qid(k)} \cup CvesNoted(k) \cup Label[k] : k \in Matched})
    \cup (UNION {UnitLabel[u] : u \in UnitsShown}) \cup {Host(n) : n \in HostNamesShown}
    \cup (UNION {{DocOf(s)} \cup Says(s) : s \in Elements(context)})
    \cup {Cve(c) : c \in caveats.strange \cap Cves}
    \cup {Qid(k) : k \in caveats.strange \cap Qids}

(* _unknown_identifiers *)
Unknown(names) ==
    {n \in names \ Shown : ~(n.type = "host" /\ n.id \in PlainNames)}

(* Mutant: a quote is looked for in all that was fetched. *)
CitationHoldsAnywhere(c) ==
    /\ c.source \in Elements(items) \cup {EvidenceItem(i) : i \in DOMAIN evidence}
    /\ c.quote = c.source

(* _check_citation: it cites what was shown, and quotes what that says. *)
CitationHolds(c) ==
    /\ c.source \in Elements(context)
    /\ c.quote # Blank
    /\ c.quote = c.source

(* _check_claim *)
ClaimHolds(c) ==
    /\ c.cites # <<>>
    /\ \A i \in DOMAIN c.cites : CitationHolds(c.cites[i])
    /\ Unknown(c.names) = {}

Verify ==
    /\ pc = "verify"
    /\ verified' = {i \in DOMAIN brief.claims : ClaimHolds(brief.claims[i])}
    /\ unknown' = Unknown(brief.prose)
                  \cup (UNION {Unknown(brief.claims[i].names) : i \in DOMAIN brief.claims})
    /\ pc' = "done"
    /\ UNCHANGED <<parse_vars, match_vars, place, todo, fix_vars, gather_vars, caveats,
                   notices, brief>>

-----------------------------------------------------------------------------

(* The response was returned, or the query refused. *)
Ended == pc \in {"done", "refused"} /\ UNCHANGED vars

Next == \/ Accept \/ SkipParse \/ ParseFailed \/ ParseRead
        \/ Retrieve \/ Rank
        \/ CollectQid \/ CollectCve \/ EndOfCves \/ SearchFixes
        \/ Gather \/ Fetch \/ EndOfFetch \/ GatherFixes \/ Place \/ Cap
        \/ Caveat \/ SkipWrite \/ WriteFailed \/ WriteRead \/ Verify
        \/ Ended

Spec == Init /\ [][Next]_vars

-----------------------------------------------------------------------------
(* Properties *)

Response == [matches |-> answer.matches, hosts |-> hosts, inactive |-> inactive,
             missing |-> caveats.strange, coverage |-> "coverage" \in caveats.general,
             brief |-> brief # Pending,
             excused |-> notices \cap {"no provider", "no brief"} # {}]

Contract == INSTANCE PipelineContract
                WITH response <- IF pc = "done" THEN Response ELSE Pending

(* analyze keeps PipelineContract, with every failure and every invention   *)
(* of the language model on the way: hosts are neither lost nor added       *)
(* between the matches and the response, identifiers decide alone, and a    *)
(* response without a brief or without a match says so.                     *)
KeepsContract == Contract!Spec

Searched == pc \in {"gather", "fetch", "place", "caveats", "write", "verify", "done"}

(* Fix evidence is complete and has no repeats: each match has all that its *)
(* diagnosis and its consulted CVEs say, whichever match came to a shared   *)
(* CVE first.                                                               *)
EvidenceIsToldOnce ==
    Searched =>
        /\ \A i, j \in DOMAIN evidence : evidence[i] = evidence[j] => i = j
        /\ \A k \in Matched :
              /\ k \in Diagnosed => Elements(DiagnosisEvidence(k)) \subseteq Elements(evidence)
              /\ \A c \in Elements(Consulted(k)) :
                     Elements(CveEvidence(c)) \subseteq Elements(evidence)

Relevant(doc) == \E k \in Matched : doc = Qid(k) \/ \E c \in Elements(Bundle[k]) : doc = Cve(c)

(* The context has no repeats, no kernel trace and nothing about another    *)
(* QID, keeps within the limit, carries up to half of it of evidence, and   *)
(* leaves a chunk out only when it is full.                                 *)
ContextIsSound ==
    pc \in {"caveats", "write", "verify", "done"} =>
        /\ \A i, j \in DOMAIN context : context[i] = context[j] => i = j
        /\ \A s \in Elements(context) :
              Relevant(DocOf(s)) /\ (s.type = "chunk" => s.id \in Text)
        /\ Len(context) <= MaxContextItems
        /\ \A i \in 1..Kept : EvidenceItem(i) \in Elements(context)
        /\ Len(context) < MaxContextItems => Elements(items) \subseteq Elements(context)

(* Who may have brought up a name: the analyst, or a model in reading the   *)
(* query; a match, by its bundle or its label; a source in the context that *)
(* is about a match; a running affected host, by its own name or the label  *)
(* of its unit.                                                             *)
Vouched(n) ==
    \/ n \in query.mentions \cup parsed.product
    \/ \E c \in Elements(query.cves) : n = Cve(c)
    \/ \E k \in Elements(query.qids) : n = Qid(k)
    \/ Relevant(n)
    \/ \E k \in Matched : n \in Label[k]
    \/ \E s \in Elements(context) : Relevant(DocOf(s)) /\ n \in Says(s)
    \/ \E h \in hosts : n = Host(Name[h]) \/ n \in UnitLabel[UnitOf[h]]

(* What a verified claim rests on: each source it cites is a write-up or    *)
(* evidence of a matched QID that the model was shown, and the model made   *)
(* up no name in it (other than of a host called by a plain word).  A host  *)
(* that is not affected may well be named, where the query, a label or a    *)
(* source names it; nothing else brings it in.                              *)
VerifiedClaimsAreGrounded ==
    \A i \in verified :
        /\ brief.claims[i].cites # <<>>
        /\ \A j \in DOMAIN brief.claims[i].cites :
               LET c == brief.claims[i].cites[j]
               IN  /\ c.source \in Elements(context)
                   /\ Relevant(DocOf(c.source))
        /\ \A n \in brief.claims[i].names :
               Vouched(n) \/ (n.type = "host" /\ n.id \in PlainNames)

(* Groups and examples are capped, but never at the cost of what to fix     *)
(* first: the model is shown the name of a host that none is above.  Where  *)
(* hosts of several units tie, it may be shown the larger unit, and not the *)
(* host that comes first by name.                                           *)
MostUrgentHostIsShown ==
    pc \in {"write", "verify", "done"} /\ hosts # {} =>
        \E h \in hosts : /\ Name[h] \in HostNamesShown
                         /\ \A g \in hosts : Priority(g, found[g]) <= Priority(h, found[h])

(* The caveat of pipeline.py:477: "The data holds no fix guidance for QID   *)
(* ...".  So neither its diagnosis nor any CVE of its bundle has some.      *)
NoGuidanceMeansNone ==
    \A k \in caveats.unguided :
        /\ k \in Diagnosed => DiagnosisEvidence(k) = <<>>
        /\ \A c \in Elements(Bundle[k]) : CveEvidence(c) = <<>>
=============================================================================
