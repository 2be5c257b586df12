# Blast Radius Analyzer: TLA+ models and proofs

Blast Radius turns two vulnerability-scanner exports into one SQLite file (the
*artifact*) at build time, and answers "which hosts does this affect?" from it at
query time: a FastAPI service whose thread pool runs a seven-step pipeline, and a
single page that talks to it. These modules model the parts of that program whose
behaviour depends on the order of steps (threads, processes, late answers,
failures) or on decisions that are hard to cover by example, check them with TLC on
small instances, and prove the central results with TLAPS for every instance.

## 1. The system

| Component | Source | State it keeps | Operations | Talks to |
| --- | --- | --- | --- | --- |
| ingest: exports | `ingest.py` 246-816 | the parsed exports | parse, join check, corpus, chunks, vectors | reads two JSON exports |
| ingest: publication | `ingest.py` 819-995, `store.create` | temporary directory, open transaction, artifact path | create, write, commit, move, clean up | the file system, other builds |
| schema | `schema.py` | the tables and their constraints | none | ingest writes it, the store reads it |
| artifact store | `store.py` | connection per thread, list of connections, closed flag, lock | open, query, close | SQLite, every query-time component |
| retrieval | `retrieval/` | vectors, models (read-only after start) | `search`, `retrieve` | the store |
| pipeline | `pipeline.py` | artifact statistics and host names read at start | `analyze`: parse, retrieve, match, rank, evidence, write, verify | retriever, store, LLM provider, ranking, verification |
| ranking | `ranking.py` | none | threat, exposure, priority, groups | pipeline |
| fix evidence | `fix_evidence.py` | none | collect and order evidence per match | store, pipeline |
| verification | `verify.py` | none | checks every claim of a write-up against what was shown | pipeline |
| text processing, chunking | `textproc.py`, `chunking.py` | none | clean, tell logs from prose, sentences, chunks with overlap | ingest |
| LLM providers | `llm/` | HTTP client | one structured request, validated reply | external APIs |
| embeddings, rerank models | `embeddings.py`, `retrieval/rerank.py` | loaded models | embed, score | external models |
| services, API | `services.py`, `api.py` | services or the reason there are none; the id of each request | build, lifespan, `/healthz`, `/readyz`, `/v1/*` | everything above, the page |
| page | `static/app.js` | readiness, current response, request in flight, drawer, watcher | submit, cancel, retry, open host, close | the API |
| CLI, settings, logging | `cli.py`, `config.py`, `logging_config.py` | settings, the context variable with the request id | five commands and their exit status | ingest, services, evaluation |
| evaluation | `evaluation/` | none | load, validate, run, score | store, retrieval |

How they interact: *ingest* and the *service* share nothing but the artifact's path;
a build installs a new file there with one rename while readers may hold the old one
open. Inside the service the request threads share one `Store`, one `Retriever` and
one `Pipeline`; only the store is mutable. The page and the service exchange
independent HTTP requests whose answers can overtake one another.

What is hard, and what makes each part correct:

* **Store**: `close()` runs in one thread while others connect, check and read without
  the lock. Correct when close misses no connection, no connection is shared, a
  failed open leaves nothing, each thread reads one build, nothing blocks for ever,
  and a query on a closed store is refused.
* **Publication**: death, failure or another build between any two steps. Correct when
  the path only ever holds a whole artifact, success means "it was installed",
  failure changes nothing, and the recorded digests are those of the parsed bytes.
* **Exports**: rows that disagree, repeat, or lack a CVE. Correct when first-row-wins is
  applied consistently, every pair has both ends, and a malformed row is named.
* **Retrieval**: many stages that each may be off or return little; thresholds and caps.
  Correct when identifiers are never outranked, caps hold, and an abstention is
  only given below the floors.
* **Pipeline and verification**: any LLM step may fail, time out or return nonsense.
  Correct when the answer degrades to the deterministic one, and no unverified claim
  is marked verified.
* **Chunking**: limits that meet in one place (the length of a chunk, the overlap, the
  short tail), and runs of log tokens that are widened and trimmed in turn. Correct when
  no word is lost or out of place, chunks fit, logs and prose are kept apart, and
  each chunk of prose has its own vector.
* **Ranking, fusion**: numeric boundaries, ties, unknown values. Correct when the order is
  total and deterministic.
* **Service, CLI**: starting without an artifact, failing half-way, stopping under load;
  five commands that share constructors and expect different exceptions. Correct when
  whoever opened the store closes it, an error the user can act on is never a
  traceback, and every answer and log line bears the id of its own request.
* **Evaluation**: what `validate` lets through must be what the metrics are defined for.
* **Page**: late, failed and cancelled answers. Correct when what is on screen belongs
  to the last request, the busy state always ends, and the status is never stale
  for good.

The hazards, each at its line, are in `PROJECT.json`.

## 2. Plan

Built first, because every other component stands on them, or because they hold most of
the interleavings:

1. `StoreContract`, `Store`, `StoreProofs`: the store under threads (done).
2. `PublishContract`, `Publish`, `MCPublish`, `PublishProofs`: builds and the path (done).
3. `Page`, `PageProofs`: the page with late, failed and cancelled answers (done).
4. `Exports`, `MCExports`: what the rows of two exports become (done).
5. `RetrieverContract`, `Retriever`, `MCRetriever`, `RetrieverProofs`: from a parsed query to
   QIDs, with stages, gate, thresholds, caps and abstention (done).

6. `Ranking`, `PipelineContract`, `Pipeline`, `MCPipeline`, `PipelineProofs`: the seven steps
   with failing language model calls, on top of `RetrieverContract`, with ranking, fix
   evidence and verification (done).

7. `Evaluation`, `Service`, `MCService`, `ServiceProofs`: every command, the server with its
   requests, and the evaluation (done).
8. `Chunking`, `Index`, `MCIndex`, `IndexProofs`: cutting and embedding, composed with
   `Exports` to a whole build; the theorems of both (done).
9. `FiniteLemmas`: least numbers, sizes and sums, for the theorems about scores, lengths
   and orders (done).

Left, in the order of what they would add: what the SQL of each query selects (with
`Exports`, that a query finds exactly what was written); the search of the retriever
restricted to some documents; what the two providers make of a reply (truncated,
refused, malformed); means and percentiles of the evaluation. Every safety property that a
run checks is a theorem; what such additions promise would be the next ones.

## 3. Modules

| Module | Models |
| --- | --- |
| `StoreContract` | what the store promises its threads |
| `Store` | `Store.__init__`, `_conn`, queries, `close`, at the grain of unlocked reads |
| `StoreProofs` | its theorems |
| `PublishContract` | what building promises to whoever looks at the path |
| `Publish` | `build_artifact`, `_new_artifact`, `_write_tables`, `store.create` |
| `MCPublish` | small instance of `Publish` |
| `PublishProofs` | its theorems |
| `Page` | the controllers of `app.js`: `run`, the drawer, `watchReadiness` |
| `PageProofs` | its theorems |
| `Exports` | `_parse_inventory`, `_validate_join`, `_parse_corpus`, the constraints of `_write_tables` |
| `MCExports` | small exports for `Exports` |
| `Selection` | the values at some places of a sequence, for `Chunking` and `Evaluation` |
| `Chunking` | `strip_html`, `segment_traces`, `split_sentences`, `_split_hard` as operators on words |
| `Index` | `build_artifact` from the exports to the tables: `Exports`, then `_build_chunks`, `_pack_sentences`, `_embed_chunks` |
| `MCIndex` | the exports of `MCExports`, and short texts |
| `IndexProofs` | the theorems of `Exports` and `Index` |
| `RetrieverContract` | what `retrieve` promises the pipeline |
| `Retriever` | `Retriever.__init__`, `search`, `retrieve`, `reciprocal_rank_fusion`, `DenseIndex.search` |
| `MCRetriever` | a small corpus, and what search may return over it |
| `RetrieverProofs` | its theorems |
| `Ranking` | `ranking.py`: threat, exposure, priority, groups and their order |
| `PipelineContract` | what `analyze` promises the API |
| `Pipeline` | `analyze` with every helper, `fix_evidence.collect`, `verify_answer`, what the prompt shows |
| `MCPipeline` | a small corpus, its hosts, and what the models may answer |
| `PipelineProofs` | its theorems |
| `Evaluation` | `questions.load`, `questions.validate`, `_ranked_ids`, `score_question`, the metrics |
| `Service` | `cli.main` and the five commands, `services.build`, the lifespan, the middleware and endpoints, `runner.run` |
| `MCService` | small processes, artifacts, requests and question sets |
| `ServiceProofs` | its theorems |
| `FiniteLemmas` | lemmas on finite sets: least elements, sizes, sums |

### Store

One action per step that another thread can tell apart. `pc[t]` names the next line of
thread `t`: `lookup` is the `getattr` on `self._local`, `acquire` to `register` the
`with self._lock` block, `keep` the assignment to `self._local.conn`, `recheck` the second
`_check_open()`, `execute` and `fetch` the two calls into SQLite; `close_acquire`,
`close_flag` and `close_each` are `close()`. `closed`, `lock`, `registered`, `local` are
the fields `_closed`, `_lock`, `_connections`, `_local.conn`; `open` and `build` are facts
about the connections that only SQLite knows. `Replace` is a build being installed, and
`ThreadExit` a pool thread that ends (its connection stays registered, `threading.local`
forgets it). `life` follows the constructor, which queries on a connection like any
other and closes the store when it refuses the file. `late` is a ghost: it says whether
a query began after the flag was set.

What the SQL selects is left out: a query's result is the build it was read from.
SQLite opens the file in `connect`, and a call on a closed connection raises
`ProgrammingError`. A constructor whose `connect` fails after the `is_file` test is not
modelled (the path is never removed, only replaced).

### Publish

Each build is one process, used once, so a restart is another build. `pc[b]` walks
through `_read_export` (twice: hash, then parse), the in-memory work as one step,
`TemporaryDirectory`, `store.create`, one step per table, commit, close, `os.replace`,
clean-up. `raised[b]` says that an exception is on its way out through the three `with`
blocks. `pending` is the open transaction, `db` what is committed; a database moved
before its commit would carry only `db`. `held` and `linked` describe the file a build
has open: `Deliver` puts another file at the path and leaves the held one alone,
`Overwrite` writes into the file that is there, which a build that has it open will
read (the ghost `rewritten` remembers that). Contents are compared, not bytes: `Joins` are the pairs that
`_validate_join` accepts, `Breaks` the table whose constraint a content breaks.
`installed` is a ghost. Left out: power failure (what `fsync` guarantees), a failing
clean-up, and Ctrl-C between the move and the return.

### Page

JavaScript runs a handler to its end, or to its `await`, so each is one action. `run()` is
three: its first half (`Run`, reached by `Submit` or by `Retry`), and what follows the
answer: `Responded`, `Failed` or `Cancelled`, each with the `finally` block (`Finish`).
`service` is the server, which may restart at any time; it answers a request as what it
is then. `reply` is the answer on its way. `waiting` holds the host requests that the
drawer has sent: `release()` aborts those of the view before, and an aborted one settles
without being shown. `watcher` is `watchReadiness`, which sleeps between questions until it
hears "ready", and `painted` the status that the start view was drawn with. `followed` is
a ghost for the violation run. `Unrenderable` are the queries whose report
`renderReport` throws on. Controls exist only in the view that shows them, which is what
the guards on `view`, `subject` and `content` say. Left out: rendering, focus, messages under
the input, the disclosure state of sections.

### Exports

One build, single-threaded. The three passes over the vulns rows are loops that may stop
at any row, so each row is a step (`row` is `index + 1`); what is one comprehension in the
code is one step here. `Matches` looks things up as the two dicts of `_validate_join`
would, where the last of equal keys wins. A row's `lacks` is the group of keys that is
malformed, because different passes read different keys: a malformed CVE that is not the
first of its id is never parsed. `Broken` fields are present but no text, which nothing
notices before `strip_html`. `Sound` says, without any order of passes, what exports have to
be; `SoundExportsAreWritten` compares. `Publish` takes the same data as one step: its
`Joins` are pairs for which this module reaches "write", its `Breaks` those with a shared
key. Left out: conversions of single values, open ports (their only reference is to the
record they are listed in). Chunks and vectors are in `Index`.

### Retriever

One behaviour is one retriever and one query; the class keeps no state between queries.
Identifiers are looked up one by one (`LookUpCve`, `Draft`, `LookUpQid`, the two loops of
`retrieve`); `drafts` lists the keys of the dict of that name in insertion order, `cves` and
`hits` hold the `matched_cve_ids` and `chunks` of each draft. `Choose` decides whether to
search. A search asks one phrasing after the other in one or two stages
(`SearchKeyword`, `SearchDense`), fuses (`Fuse`), and ends with the cross-encoder, one slot
per document and the cap (`Rank`). `Support` is the gate with its floor and margin, and each
supporting chunk is rolled up to its QIDs one at a time (`NextHit`, `AddHit`). What FTS5
finds, the cosine of a phrasing with each chunk and the relevance scores are free choices
from `Hits`, `Cosines` and `Relevances`; what the code makes of them is not. Where the code
sorts a list, the model has a set and the order `Before`; scores are integers, and
those of fusion are scaled by `Unit` so that every `1 / (k + rank)` is whole. `Text` are the chunks with a
vector: kernel traces have none, which is how a chunk comes without a cosine. Left out:
the search restricted to some documents, which only step 5 of the pipeline uses, the
regular expressions that find identifiers and terms, and the ranks that are only shown.

### Pipeline and Ranking

One behaviour is one pipeline, with or without a provider, and one query; `analyze` keeps
nothing from one query to the next. `pc` names the step. `ParseRead`, `ParseFailed` and
`SkipParse` are the outcomes of `_parse`; what a model adds are phrasings, and a product and
version. `Retrieve`
takes any `Results` that `RetrieverContract` allows for the parsed query, so that what
`RetrieverProofs` shows of a retriever is what the pipeline relies on; the contract says
there too that no QID is matched twice. `Rank` matches hosts. `CollectQid`, `CollectCve` and
`EndOfCves` are the two loops of `collect`, with `docs` the list of that name (its
order plays no part), and `SearchFixes` its restricted search. `Gather`, `Fetch`, `EndOfFetch`, `GatherFixes`, `Place`
and `Cap` are `_context` (with `_write_up_of`) in its order, `Caveat` is `_caveats`,
`SkipWrite`, `WriteFailed` and `WriteRead` are `_write`, and `Verify` is `verify_answer`.

`Ranking` has the order of hosts and groups as operators on integers. Its scores are
fractions of `Full`; `Missing` is a value that the data lacks. `UnitOf` stands for the
key that `_group_key` finds in a host's name. A sort is never computed: `First` and
`UnitsShown` count what comes before, which is all that a cap on a sorted list shows.

Data is cut down to what the steps tell apart. A text is what it names: CVEs, QIDs, hosts
of the inventory, and addresses (IP addresses and instance ids), as records of a type and an
id. `Shown` follows `_index_shown`, whose text is the whole write prompt and the sources: the query as typed
(`mentions` of a query, any names at all beside the typed CVEs), the identifiers listed as read
from it, the product and version that a model read (`Readings`), each match with its CVEs, label and category
(`Label`), the groups with their labels (`UnitLabel`) and example hosts, the sources with
their document, title and text (`MentionedIn` of a chunk, `EvidenceNames` of an item), and the identifiers in
the caveats. Each of these texts may name anything, an unaffected host too, and the run has such
queries, readings, sources and labels; `verify.py` says of itself that a name from a poisoned source counts
as shown, and so it does here. A quote is known by the source it was taken from, or is
`Blank`; evidence is a document, a
kind and a number, as many as `DiagnosisSays` and `CveSays` have of each. `PlainNames` are
host names that the code does not look for because they are ordinary words. Looking up a
QID or CVE of a match never fails, which is `ReferencesResolve` of `Exports`. A provider
returns its failures and does not raise, as both in `llm/` do. Left out: the trace, the
summary, how names are found in a text and where one is part of another, and all wording.

### Chunking and Index

A word carries what the regular expressions find in it: its length, whether it looks
like part of a log, whether a sentence or paragraph ends with it, and whether it is a tag or
the opening of a kernel CVE; the expressions are left out. A part of a text is an
interval of words, and a chunk is a sequence of parts (`units`), so that what a chunk says
can be compared with the text it came from. Segments are defined without loops:
`Runs` are the longest intervals inside or outside a set of words, `Widened` and
`Snapped` what the four `while` loops of `segment_traces` leave of a run, `TraceWords` what
`_absorb_log_fragments` makes of the rest. A `strip_html` that finds `<TASK>` takes it for a
tag, which is why only diagnoses go through it: `ListDocuments` follows the code there.

`Index` extends `Exports`. When its passes have come to "write", `phase` follows
`_build_chunks` and `_embed_chunks`, and `WriteTables` waits for them; failing to embed ends the
build before a table is touched. `StartSegment`, `CutTrace`, `Pack` and `EndProse` are one
turn of a loop each; `current`, `fresh` and `packed` are the variables of `_pack_sentences`
(`packed` is the length of its list). `Embed` is one batch. A wrong shape is an
`IngestError` if `_embed_chunks` finds it; `FastEmbedEmbedder` finds it first and raises a
`RuntimeError`, which `build_artifact` does not list. The order of documents is that of
their ids in the code and any order here.

### Evaluation and Service

One behaviour of `Service` is one process of the `blast-radius` command, or an application
that was handed its services (`app`, as in the tests). `pc` walks through the command, the
constructors of `services.build` (or those that `runner.run` and `fetch-models` call
themselves), and what comes after; `raised` is the exception on its way out. `BuildFails`
is the `except` clause of `build`, `Unwind` and `Leave` the `finally` of `ask` and the `with`
of `eval`, `EndCommand` the `except` clauses of the command and of `main` together
(`Expected`), `Lifespan` those of a server. `Unforeseen` lets any constructor and any use
fail with an exception that nobody names. A server has one `stage` per request; the
endpoint runs on a thread of the pool, whose copy of the context has the id that `Observe`
put there (`ambient`). `Break` is an exception that passes through `_observe`, which
resets the variable; `InternalError` then answers outside of it. `logged` is a ghost: the lines
written, by which request and with which id.

`Evaluation` has no state: whether a file of questions loads and validates, and what one
question scores. Ratios keep numerator and denominator; a score that does not apply is
the empty set. `Service` runs it over the four configurations with any `Results`
that a retriever could return. What `analyze`, `build_artifact` and the
queries do is the subject of the other modules: here they succeed or fail.
The store is open or not; that a close during a query is refused properly is in `Store`.

## 4. Runs

| Run | Shows |
| --- | --- |
| `store` | type, no connection left open by `close` or a failed constructor, private connections, one build per thread, termination, refinement of `StoreContract` |
| `publish` | type, wholeness, true digests, litter only from kills, refinement of `PublishContract` |
| `publish_in_place` | the digest claim of `_read_export` fails when an export is rewritten in place |
| `page` | type, one analysis at a time, a screen that is true (report, drawer, status), cancelled is cancelled; waits end, the status catches up |
| `page_status` | a host refused with 503 is shown with a promise that nobody keeps |
| `exports` | a whole build: type, written exactly if sound, references resolve, a faithful corpus (first row wins, disagreements reported, labels), no word lost, chunks fit, logs kept apart, every prose chunk embedded once |
| `retriever` | type, the best scores decide (abstention, one slot per document, order of matches), floor and margin, refinement of `RetrieverContract` |
| `retriever_floor` | an abstention that names a similarity below the floor, though a chunk above it was found |
| `pipeline` | type, fix evidence once and whole, a sound context, grounded claims, the host to fix first is shown, refinement of `PipelineContract` |
| `pipeline_guidance` | the caveat that the data has no fix guidance for a QID, where it has and was not consulted |
| `service` | type, stores are closed by their owner, user errors are told, answers and log lines have their request's id, fair scores |
| `exports_null` | a null `cve_id` (or a null diagnosis) ends in a bare exception |

Bounds. *Store*: two threads are enough for every race between a query and a close or
between two queries; three connections let one thread be replaced by a new one, two
builds (one unreadable) distinguish old from new and good from refused. *Publish*: two
builds give every order of two installs and a survivor beside a killed one; two
contents give a good pair, a mixed pair that joins, one that does not, and one that
breaks a constraint after a table was filled. *Page*: two queries (one unrenderable) and two
hosts let a late answer meet another subject. *Exports*: two records and three rows give
every order of first, agreeing and disagreeing rows, equal ids in and between records,
and each malformed part first and second. For cutting, the same run
has one sound pair of exports with every text of up to five words that end sentences,
are longer than a chunk, or neither, and of up to six log tokens and words; a chunk holds
five characters, an overlap is one sentence, a tail shorter than two joins, two log tokens
in a row are a trace, and less than four characters between two are absorbed. So
overlap that fits and does not, tails behind one chunk and several, runs that touch
and are absorbed, and a log at either end all happen, as do a full batch, a part of one
and none. The production constants (1200, 100, 12, 120) have the same order. *Service*: every
command with settings that differ from the usual ones in one way, artifacts that are
readable, unreadable, missing, or of another model; two requests, which is enough for one to
break or be stopped beside another; question sets of one question of each kind with
gold that is right, short of a QID, unknown or out of order, and two that share an id;
rankings of up to three documents around a cut-off of two. *Retriever*: four chunks are the fewest with a
document that has a trace and prose, a CVE that two QIDs bundle, and a document of each kind;
the fused list holds three of them and the result two, so both caps cut. Ten questions cover
identifiers that resolve, do not, or both, beside text and alone, and long and short text
in one and two phrasings; the rankings and scores are chosen for ties, for orders that
contradict each other, and for values at the floor and at the margin. *Pipeline*: three
QIDs are the fewest where two share a CVE, one has another CVE besides, and one has no
write-up; six hosts give three units, of which one has the most urgent host, another the
most hosts, and two may tie; one host is not running. Every limit (phrasings, references, consulted
CVEs, chunks per QID, context, names, groups) is small enough to cut in some behaviours and
to be missed in others. The briefs quote rightly, wrongly or nothing, and cite what was
shown, what the cap may have cut, and the kernel trace, which never is shown. They name
affected hosts, an inactive one, one that the matches do not affect but a query, a
reading or a source names, a CVE known only from a label, and an address; each way of `Vouched` is the only
one for some verified claim, the typed CVEs apart, which the query mentions anyway.

Fairness. `EveryCallReturns` assumes that a thread that is inside a call keeps running
(weak fairness of its steps), and that a lock which is free again and again is granted
(strong fairness of the two acquisitions). The second is needed because
`threading.Lock` promises no order; without it a thread could be overtaken for ever by
new queries. Neither queries nor closes nor builds are assumed to happen. On the page,
`WaitsEnd` and `StatusCatchesUp` assume that the server answers, that answers arrive and that
timers fire (weak fairness of each); `fetch` settles with an error when the server is
down, so that is what a browser does. Users and restarts are never assumed. `Service`
and `Index` state no fairness: their properties are about what may happen.

## 5. Proofs

`StoreProofs` proves, for any set of threads, connections and builds, that every safety
property the `store` run checks holds and that `Spec` implements `StoreContract`. The
invariant `IInv` adds to the properties what a proof by steps needs: the lock is held
by exactly the thread inside a `with` block (`LockInv`), the flag is known at each
guarded step (`FlagInv`), an open connection is registered or about to be (`KnownInv`),
so once the flag is set and no loop is running nothing is open (`ClosedInv`); each
thread keeps the one connection it opened (`OwnInv`, `DisjointInv`, `PinnedInv`); and a
query that began late never gets past a check (`LateInv`), which the refinement needs.

`PublishProofs` proves the same for `Publish`, for any number of builds and tables:
`JoinedInv` (past validation the exports match), `RowsInv` (a table that would break a
constraint is never passed, so a database about to be moved is complete), `RaisedInv`
(an exception never reaches the move; directories of ended builds are gone) and
`InstalledInv`. `DInv` carries the digests: a file nobody writes into holds, when it is
parsed, what was hashed. The violation run shows that the exception it makes is needed.

`PageProofs`: what is on screen is almost inductive by itself. `LiveInv` is what is missing:
a host request that is not aborted is that of the host in the drawer, so a late answer
cannot write under another title. The properties hold for any queries and hosts.

Of `Exports`, `IndexProofs` has one loop invariant per pass (`JoinInv`, `CvesInv`, `FieldsInv`,
`WarnedInv`): what it has established of the rows before the one it is at. They give the
first-row rules (`CorpusStaysFaithful`) and, with `InventoryInv` and `PairsInv`, that references
resolve. `QidsInv` ties what is told of a QID to the pairs that were resolved (`LabelsAreTrue`). For
`SoundnessDecides` each way of stopping is traced back to a reason why the exports are not
sound (`RefusedStep`), and the constraints that held to soundness. This holds for files of
any length.

`RetrieverProofs` says, for each loop, what it has done together with what is still to come
adds up to: the drafts and the QIDs of the CVEs not yet looked up are those of all typed CVEs
(`DraftsInv`, `UnknownInv`), and no QID is among them twice. `SearchInv` holds that a search is on only if nothing resolved,
`RollUpInv` that every chunk and CVE under a QID is its own and that each such chunk is one
that `_supporting` returned. At the end, the drafts either are the resolved identifiers or
come from a search (`FinishInv`), which is the contract. What the models return is not
assumed to be anything but integers.

`BestDecides` adds `BestInv`, what each stage of a search has left to the next: fused scores
that are integers (`FusedInv`), candidates of which no two share a document and which have
the best of all chunks among them (`RankedInv`), and chunks rolled up once (`SlotsInv`).
That there is a best chunk needs `Before` to be a strict order, hence whole scores: they are sums over a
finite set, of shares that `UnitAssumption` keeps whole. With dense search
alone and one phrasing there is no fusion to speak of, and the order of the one ranking is that of
its similarities (`FusedByCosine`), which is why an abstention may be explained with the first.
That a chunk is rolled up to a QID once needs `PairsAssumption`: a pair is a primary key.

`PipelineProofs` follows the order of `analyze`. Up to the answer there is nothing to lose
(`ParsedInv`, `AnswerInv`); from there on, what was matched stays and the hosts are those it
is detected on (`HostsInv`). `EvidenceInv` is the loop of `collect`: whatever is in `docs`
has been reported once and in full, and the matches passed have all of theirs in it;
without the first half, a CVE skipped as seen could have been lost. `ChunksInv` and
`ItemsInv` say that all that is on its way into the context is about a match, which with
two lemmas on how many places `Kept` leaves gives `ContextIsSound` for any limits.
`WriteInv` ties the brief to the notice that there is none. A verified claim is grounded
because the context is about matches and because each name in `Shown` is traced back to
whoever brought it up (`ShownIsVouched`): the query or its reading, a match, a source about a match that is in
the context, an affected running host or the label of its unit. The cited numbers and the
names are so no invention of the model. This is not to say that a host it names is affected: where
the query or a source names another host, a claim about that host passes, here as in the code. The refinement follows from these and from `RetrieverContract`; the replies
of the models are any in `Briefs`. `UrgencyIsShown` finds the host in question: priorities
are integers (`PriorityIsInt`), so that a finite set of hosts has one that none is above, and its
unit has the highest priority. The first of all units has that priority too
(`FirstUnit`), is shown because at least one is (`LimitsAssumption`; `prompts.py` shows 12), and so is
the first of its distinct names (`FirstExample`). Where hosts of two units tie, the larger unit comes
first, so the host named need not be the first by name: the property asks for one whose
priority none exceeds.

`IndexProofs` first shows that `Index` implements `Exports` (`IndexImplementsExports`), so that
the theorems above hold of a whole build. That nothing is lost needs to know, inside the
loop of `_pack_sentences`, where packing is (`Packing`): the units of the next chunk are a run of
words that ends right before `at`, and the first of them that is new (`fresh` from the end)
begins right after what the chunks already reach. That is exactly why a short tail may be
joined without the overlap, and a chunk started with it. `EmbedInv` says which chunks of
prose have a vector: all up to the last that has one. Both hold for any texts, limits and
batch sizes.

`TracesStayApart`: `KindInv` says that the words of a chunk are all trace words of its text or
none is, and that it is of the kind this makes it. A row of `MinTraceTokens` log tokens is trace, because more
than half of any window inside it are log tokens: that is `WindowAssumption` (the
window of 6 reaches less far than the minimum of 12). A maximal run of trace words
begins and ends with a log token, since it was snapped; and what lies between two
was not absorbed, so it is long enough. The chunks between two of a trace are all that
lies between them (`Neighbours`, `LastWordsGrow`), which carries this from words to chunks.

`ChunksStayFit`: a chunk is `Tight` (within `MaxChars`, or a single word) or `Tailed`, and
after a tailed one nothing but a trace, another document or the end may follow. `FitInv` keeps
that with where cutting is: right after a tail, the next word is a trace word, because
the segment that gave the tail had come to its end. Lengths are sums, and those of joined sequences
add up to one space more (`JoinedOfTwo`). That no more than the overlap is repeated needs the
run of words again: units that begin after the chunk before are not in it (`FewRepeated`).

What cleaning leaves is a sequence of words (`StrippedIsText`): it is a selection, of
which `FiniteLemmas` shows that it has every value at the places it was made of, once and in order.

`ServiceProofs` splits its invariant into a part about the command, which requests never
change, one about requests, which the command never changes, and `Attended`, which relates
them: a request is on its way only while the server runs, and asks the store only if
services were built. `Whose` and `Opened` say which command can be at which step and whether the
store is open there, `Told` what may have been raised where, `Checked` what validation
established of the questions. `ValidGoldIsEnough` proves one half of `ScoringIsFair`, for any
artifact, results and gold; `ScoresAreFair` adds that the columns of a ranking agree, where
the first hit is a least number; `UniqueKeepsFirsts` shows that a ranking has every id its
candidates contribute, and none twice, so that a cut-off counts different ids.

`NoConnectionIsLeft`, `CorpusIsFaithful`, `ScreenIsTrue` and `BestScoresDecide` join
what are several named properties; where a part has a theorem of its own it is listed too.

The assumptions are those the modules declare (`ThreadsAssumption`, `TablesAssumption`
and so on): distinct special values, and constants of the right type.

`FiniteLemmas` has what several of them need. Induction is by a least counterexample: a set of
natural numbers that is not empty has a least element (`LeastNumber`), and a set of
subsets of a finite set a minimal one (`MinimalSubset`), from `WFMin` of the library, which
takes no operator as a parameter. On these rest the lemmas on sums: `SumFunctionOnSet`
of the community modules folds over a set by `CHOOSE`, and that the order makes no
difference (`SumWithout`) is proved, not assumed. `NthIs`, `NthGrows` and `NthIsAny` say of a finite set
of places that they can be counted through in order.

Checked by TLC only: `EveryCallReturns`, `WaitsEnd` and `StatusCatchesUp`, which are liveness under
fairness (that the watcher does not stop early is theorem `StatusIsWatched`), and the
properties of the five violation runs, which are false. Outside the prover's reach
altogether: liveness, and what a `RECURSIVE` operator computes; no module declares one.
`Selected` is defined without recursion where `SelectSeq` would do.

## 6. Not modelled

Not planned: the models themselves (embedding, reranking, language), tokenisation inside
SQLite FTS5, the regular expressions over text, HTML and CSS rendering, the wording of
prompts, reports and log lines, argument parsing and the ranges of single settings. These are
I/O, layout or third-party behaviour with no state of their own. `models.py` holds
type declarations, of which the modules take what steps tell apart. The two providers
turn one reply of an external client into a value or a failure; what the program does with
either is in `Pipeline`.

Left out where a module comes close: a second Ctrl-C, which makes uvicorn stop without
waiting for its requests; a failure to write the evaluation's results; `load_dotenv`; an
artifact replaced under a running server (in `Store`, where it matters); `/` and the
static files, which need no services.
