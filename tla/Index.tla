-------------------------------- MODULE Index --------------------------------
(***************************************************************************)
(* blast_radius/ingest.py from one end to the other: build_artifact reads  *)
(* the exports (Exports), cuts every write-up into chunks (Chunking),      *)
(* embeds the chunks of prose in batches, and only then writes the tables. *)
(* A document is cut segment by segment: a kernel log into parts that fit, *)
(* prose by packing its units one at a time (_pack_sentences).             *)
(***************************************************************************)
EXTENDS Exports, Chunking

CONSTANTS Words,              \* the words of write-ups
          MinTail,            \* a shorter tail joins the chunk before it
          OverlapSentences,
          BatchSize,          \* _EMBED_BATCH_SIZE
          Builds              \* what build_artifact may be called with

Sources == Fields \cup Writeups

Embedders == {"hashing", "fastembed", "other"}

(* The exports, what the write-ups in them say, and the model to embed with. *)
ASSUME BuildsAssumption ==
    /\ Words \subseteq Word
    /\ Builds \subseteq [exports : Inputs, texts : [Sources -> Seq(Words)],
                         embedder : Embedders]
ASSUME IndexAssumption ==
    /\ {MinTail, OverlapSentences} \subseteq Nat
    /\ BatchSize \in Nat \ {0}

Document == [type : {"qid", "cve"}, id : Qids \cup Cves, text : Seq(Word)]

Chunk == [id : Nat \ {0}, doc : Nat \ {0}, kind : {"text", "trace"}, units : Seq(Part)]

VARIABLES
    build,     \* the arguments of build_artifact
    phase,     \* what is being done between parsing and writing
    docs,      \* the documents of _build_chunks, cleaned
    doc,       \* the document that is being cut
    at,        \* its next word
    segment,   \* the segment that is being cut
    current,   \* _pack_sentences: the units of the next chunk ...
    fresh,     \* ... how many of them are not overlap ...
    packed,    \* ... and how many chunks there are of this segment
    chunks,    \* every chunk so far
    vectors,   \* [id, doc, units]: what was embedded for which chunk
    trouble    \* the exception of embedding, or "none"

index_vars == <<build, phase, docs, doc, at, segment, current, fresh, packed, chunks,
                vectors, trouble>>

pack_vars == <<segment, current, fresh, packed>>

IndexInit ==
    /\ build \in Builds /\ input = build.exports
    /\ Init
    /\ phase = "parse" /\ trouble = "none"
    /\ docs = <<>> /\ doc = 1 /\ at = 1
    /\ segment = [from |-> 1, to |-> 1]
    /\ current = <<>> /\ fresh = 0 /\ packed = 0
    /\ chunks = <<>> /\ vectors = <<>>

Text == docs[doc].text

-----------------------------------------------------------------------------
(* _build_chunks *)

(* The elements of a set in some order, which stands for that of their ids. *)
InOrder(S) ==
    {s \in [1..Cardinality(S) -> S] : \A x \in S : \E k \in DOMAIN s : s[k] = x}

(* The explained QIDs, then the CVEs. *)
ListDocuments ==
    /\ stage = "write" /\ phase = "parse"
    /\ \E ofQids \in InOrder({q \in DOMAIN fields : \E r \in qids : r.qid = q /\ r.explained}),
          ofCves \in InOrder(DOMAIN cves) :
         docs' = [k \in DOMAIN ofQids |->
                    [type |-> "qid", id |-> ofQids[k],
                     text |-> Stripped(build.texts[fields[ofQids[k]]])]]
                 \o [k \in DOMAIN ofCves |->
                       [type |-> "cve", id |-> ofCves[k],
                        text |-> WithoutOpening(build.texts[cves[ofCves[k]]])]]
    /\ phase' = "segment"
    /\ UNCHANGED <<vars, build, doc, at, pack_vars, chunks, vectors, trouble>>

(* segment_traces: the next segment of the document. *)
StartSegment ==
    /\ phase = "segment" /\ doc <= Len(docs) /\ at <= Len(Text)
    /\ LET traces == TraceWords(Text)
       IN  /\ segment' \in {p \in Runs(Text, traces) : p.from = at}
           /\ phase' = IF at \in traces THEN "trace" ELSE "prose"
    /\ current' = <<>> /\ fresh' = 0 /\ packed' = 0
    /\ UNCHANGED <<vars, build, docs, doc, at, chunks, vectors, trouble>>

NextDocument ==
    /\ phase = "segment" /\ doc <= Len(docs) /\ at > Len(Text)
    /\ doc' = doc + 1 /\ at' = 1
    /\ UNCHANGED <<vars, build, phase, docs, pack_vars, chunks, vectors, trouble>>

Chunked(kind, units) ==
    Append(chunks, [id |-> Len(chunks) + 1, doc |-> doc, kind |-> kind, units |-> units])

Rest == [segment EXCEPT !.from = at]

CutTrace ==
    /\ phase = "trace" /\ at <= segment.to
    /\ \E p \in [from : {at}, to : at .. segment.to] :
         /\ IsHardPart(Text, Rest, p)
         /\ chunks' = Chunked("trace", <<p>>)
         /\ at' = p.to + 1
    /\ UNCHANGED <<vars, build, phase, docs, doc, pack_vars, vectors, trouble>>

EndTrace ==
    /\ phase = "trace" /\ at > segment.to
    /\ phase' = "segment"
    /\ UNCHANGED <<vars, build, docs, doc, at, pack_vars, chunks, vectors, trouble>>

-----------------------------------------------------------------------------
(* _pack_sentences *)

Fits(units, u) == JoinedLength(Text, units) + 1 + Length(Text, u) <= MaxChars

Suffix(units, n) == SubSeq(units, Len(units) - n + 1, Len(units))

(* Mutant: the overlap is repeated whether or not it leaves room. *)
OverlapAlways(u) ==
    IF OverlapSentences < Len(current) THEN Suffix(current, OverlapSentences) ELSE current

(* current[-overlap_sentences:], unless it leaves no room for the unit. *)
Overlap(u) ==
    LET kept == IF OverlapSentences < Len(current) THEN Suffix(current, OverlapSentences)
                ELSE current
    IN  IF Fits(kept, u) THEN kept ELSE <<>>

(* Mutant: what is repeated counts as new. *)
PackCountingOn ==
    /\ phase = "prose" /\ at <= segment.to
    /\ \E u \in [from : {at}, to : at .. segment.to] :
         /\ IsUnit(Text, Rest, u)
         /\ at' = u.to + 1
         /\ fresh' = fresh + 1
         /\ IF current = <<>> \/ Fits(current, u)
            THEN /\ current' = Append(current, u)
                 /\ UNCHANGED <<chunks, packed>>
            ELSE /\ chunks' = Chunked("text", current)
                 /\ current' = Append(Overlap(u), u)
                 /\ packed' = packed + 1
    /\ UNCHANGED <<vars, build, phase, docs, doc, segment, vectors, trouble>>

Pack ==
    /\ phase = "prose" /\ at <= segment.to
    /\ \E u \in [from : {at}, to : at .. segment.to] :
         /\ IsUnit(Text, Rest, u)
         /\ at' = u.to + 1
         /\ IF current = <<>> \/ Fits(current, u)
            THEN /\ current' = Append(current, u) /\ fresh' = fresh + 1
                 /\ UNCHANGED <<chunks, packed>>
            ELSE /\ chunks' = Chunked("text", current)
                 /\ current' = Append(Overlap(u), u) /\ fresh' = 1
                 /\ packed' = packed + 1
    /\ UNCHANGED <<vars, build, phase, docs, doc, segment, vectors, trouble>>

(* Mutant: the overlap is joined along with the tail.                       *)
EndProseWithOverlap ==
    /\ phase = "prose" /\ at > segment.to
    /\ LET tail == Suffix(current, fresh)
       IN  chunks' = IF packed > 0 /\ JoinedLength(Text, tail) < MinTail
                     THEN [chunks EXCEPT ![Len(chunks)].units = @ \o current]
                     ELSE Chunked("text", current)
    /\ phase' = "segment"
    /\ UNCHANGED <<vars, build, docs, doc, at, pack_vars, vectors, trouble>>

(* What is left becomes a chunk, or joins the one before it. *)
EndProse ==
    /\ phase = "prose" /\ at > segment.to
    /\ LET tail == Suffix(current, fresh)
       IN  chunks' = IF packed > 0 /\ JoinedLength(Text, tail) < MinTail
                     THEN [chunks EXCEPT ![Len(chunks)].units = @ \o tail]
                     ELSE Chunked("text", current)
    /\ phase' = "segment"
    /\ UNCHANGED <<vars, build, docs, doc, at, pack_vars, vectors, trouble>>

ChunksBuilt ==
    /\ phase = "segment" /\ doc > Len(docs)
    /\ phase' = "embed"
    /\ UNCHANGED <<vars, build, docs, doc, at, pack_vars, chunks, vectors, trouble>>

-----------------------------------------------------------------------------
(* _embed_chunks *)

(* The chunks of prose after those that have a vector, by id. *)
Waiting == {k \in DOMAIN chunks : /\ chunks[k].kind = "text"
                                  /\ vectors # <<>> => k > vectors[Len(vectors)].id}

(* itertools.batched: the first BatchSize of them, or all. *)
Batches ==
    {ids \in UNION {[1..n -> Waiting] : n \in 1..BatchSize} :
       /\ \A i, j \in DOMAIN ids : i < j => ids[i] < ids[j]
       /\ \A k \in Waiting : \/ \E i \in DOMAIN ids : ids[i] = k
                            \/ (Len(ids) = BatchSize /\ \A i \in DOMAIN ids : ids[i] < k)}

Vector(id, k) == [id |-> id, doc |-> chunks[k].doc, units |-> chunks[k].units]

(* Mutant: the vectors are numbered as they come. *)
EmbedByPosition ==
    /\ phase = "embed"
    /\ \E ids \in Batches :
         vectors' = vectors \o [n \in DOMAIN ids |-> Vector(Len(vectors) + n, ids[n])]
    /\ UNCHANGED <<vars, build, phase, docs, doc, at, pack_vars, chunks, trouble>>

Embed ==
    /\ phase = "embed"
    /\ \E ids \in Batches :
         vectors' = vectors \o [n \in DOMAIN ids |-> Vector(ids[n], ids[n])]
    /\ UNCHANGED <<vars, build, phase, docs, doc, at, pack_vars, chunks, trouble>>

(* A matrix of the wrong shape.  FastEmbedEmbedder finds out by itself and  *)
(* raises a RuntimeError; HashingEmbedder makes one row per text.           *)
EmbedWrongly ==
    /\ phase = "embed" /\ Waiting # {}
    /\ build.embedder # "hashing"
    /\ phase' = "failed"
    /\ trouble' = IF build.embedder = "fastembed" THEN "RuntimeError" ELSE "IngestError"
    /\ UNCHANGED <<vars, build, docs, doc, at, pack_vars, chunks, vectors>>

Embedded ==
    /\ phase = "embed" /\ Waiting = {}
    /\ phase' = "ready"
    /\ UNCHANGED <<vars, build, docs, doc, at, pack_vars, chunks, vectors, trouble>>

-----------------------------------------------------------------------------

Parsing == \/ ParseInventory \/ MalformedRecord
           \/ ValidateRow \/ RejectRow \/ DropHostCopies
           \/ CollectCve \/ MalformedCve \/ CvesCollected
           \/ CollectFields \/ MalformedFields \/ FieldsCollected
           \/ ParseQids \/ BareFailure

WriteTables == phase = "ready" /\ (Write \/ BreakConstraint)

IndexDone == (phase = "failed" \/ stage \in {"written", "failed"})
             /\ UNCHANGED <<vars, index_vars>>

Indexing == \/ ListDocuments \/ StartSegment \/ NextDocument
            \/ CutTrace \/ EndTrace \/ Pack \/ EndProse \/ ChunksBuilt
            \/ Embed \/ EmbedWrongly \/ Embedded

IndexNext == \/ Parsing /\ UNCHANGED index_vars
             \/ WriteTables /\ UNCHANGED index_vars
             \/ Indexing
             \/ IndexDone

IndexSpec == IndexInit /\ [][IndexNext]_<<vars, index_vars>>

-----------------------------------------------------------------------------
(* Properties *)

IndexTypeOK ==
    /\ TypeOK
    /\ build \in Builds
    /\ phase \in {"parse", "segment", "trace", "prose", "embed", "ready", "failed"}
    /\ docs \in Seq(Document)
    /\ doc \in 1..(Len(docs) + 1)
    /\ at \in Nat \ {0}
    /\ segment \in Part
    /\ current \in Seq(Part) /\ fresh \in 0..Len(current)
    /\ packed \in 0..Len(chunks)
    /\ chunks \in Seq(Chunk)
    /\ vectors \in Seq([id : Nat, doc : Nat, units : Seq(Part)])
    /\ trouble \in {"none", "IngestError", "RuntimeError"}
    /\ trouble # "none" <=> phase = "failed"

FirstWord(units) == units[1].from
LastWord(units) == units[Len(units)].to

Consecutive(units) ==
    \A j \in 1..(Len(units) - 1) : units[j + 1].from = units[j].to + 1

(* The chunk before chunk k is of the same document, or the one after it.   *)
Continues(k) == k > 1 /\ chunks[k - 1].doc = chunks[k].doc
Continued(k) == k < Len(chunks) /\ chunks[k + 1].doc = chunks[k].doc

Cut == phase \in {"embed", "ready"}

(* The chunks of a document are its text, from the first word to the last   *)
(* and in order: each is a run of words that begins at the latest where the *)
(* one before it ended and ends after it, whatever was repeated as overlap, *)
(* split because it was too long, or joined because it was too short.       *)
NothingIsLost ==
    /\ \A k \in DOMAIN chunks :
         LET units == chunks[k].units
         IN  /\ units # <<>> /\ Consecutive(units)
             /\ IF Continues(k)
                THEN /\ FirstWord(units) <= LastWord(chunks[k - 1].units) + 1
                     /\ LastWord(chunks[k - 1].units) < LastWord(units)
                ELSE FirstWord(units) = 1
    /\ Cut => \A d \in DOMAIN docs :
                IF docs[d].text = <<>> THEN \A k \in DOMAIN chunks : chunks[k].doc # d
                ELSE \E k \in DOMAIN chunks : /\ chunks[k].doc = d
                                              /\ LastWord(chunks[k].units) = Len(docs[d].text)

TextOf(c) == docs[c.doc].text

(* A chunk is longer than allowed only if it is one word, or the last of    *)
(* its prose with a short tail; and it repeats no more sentences of the one *)
(* before it than it was told to.                                           *)
ChunksFit ==
    \A k \in DOMAIN chunks :
      LET c == chunks[k]
          length == JoinedLength(TextOf(c), c.units)
          endsProse == ~Continued(k) \/ chunks[k + 1].kind = "trace"
      IN  /\ \/ length <= MaxChars
             \/ FirstWord(c.units) = LastWord(c.units)
             \/ c.kind = "text" /\ endsProse
                /\ length <= MinTail + IF c.units[1].from = c.units[1].to
                                       THEN Max({MaxChars, TextOf(c)[FirstWord(c.units)].len})
                                       ELSE MaxChars
          /\ Continues(k) =>
               Cardinality({j \in DOMAIN c.units : c.units[j].to <= LastWord(chunks[k - 1].units)})
                 <= IF c.kind = "text" THEN OverlapSentences ELSE 0

(* What is embedded holds no kernel log: no row of log tokens that is long  *)
(* enough to be one.  What is not embedded is nothing else: traces begin    *)
(* and end with a log token, and prose between two of them is not short.    *)
TracesAreKeptApart ==
    Cut => \A k \in DOMAIN chunks :
      LET c == chunks[k]
          text == TextOf(c)
          edge(i) == ~(i \in DOMAIN chunks /\ chunks[i].doc = c.doc /\ chunks[i].kind = "trace")
          between(i) == /\ i < k /\ ~edge(i) /\ c.kind = "trace"
                        /\ \A j \in (i + 1)..(k - 1) : edge(j)
      IN  /\ c.kind = "text" =>
               \A i \in FirstWord(c.units) .. (LastWord(c.units) + 1 - MinTraceTokens) :
                 \E j \in i .. (i + MinTraceTokens - 1) : ~text[j].log
          /\ c.kind = "trace" => /\ edge(k - 1) => text[FirstWord(c.units)].log
                                 /\ edge(k + 1) => text[LastWord(c.units)].log
          /\ \A i \in 1..(k - 2) : between(i) =>
               Length(text, [from |-> LastWord(chunks[i].units) + 1, to |-> FirstWord(c.units) - 1])
                 >= MinProseBetween

(* Whatever the batches, the vectors are those of the chunks of prose, in   *)
(* the order of their ids, each made of the text of its own chunk.          *)
EmbeddedOnce ==
    /\ \A n \in DOMAIN vectors :
         LET v == vectors[n]
         IN  /\ v.id \in DOMAIN chunks
             /\ chunks[v.id] = [id |-> v.id, doc |-> v.doc, kind |-> "text", units |-> v.units]
             /\ n > 1 => vectors[n - 1].id < v.id
    /\ phase = "ready" => \A k \in DOMAIN chunks :
         chunks[k].kind = "text" => \E n \in DOMAIN vectors : vectors[n].id = k
=============================================================================
