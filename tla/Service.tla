------------------------------ MODULE Service ------------------------------
(***************************************************************************)
(* One process of the blast-radius command (blast_radius/cli.py), from its *)
(* settings to its exit status: ingest, ask, eval and fetch-models, which  *)
(* do one thing, and serve, which answers requests (api.py) until it is    *)
(* stopped.  services.build makes what ask and serve share.  "app" is a    *)
(* create_app whose caller hands in services of its own.                   *)
(***************************************************************************)
EXTENDS Evaluation

CONSTANTS Processes,    \* how a process may be started
          Artifacts,    \* what may be at the artifact's path
          NoFile,
          Models,       \* embedding models
          Requests,     \* requests that a server is sent
          Asked,        \* what they may ask
          Results,      \* what the retriever may return to the evaluation
          ClientIds,    \* request ids that clients send
          FreshIds,     \* ... and that uuid4 makes
          NoId, Malformed,
          None

Commands == {"ingest", "serve", "app", "ask", "eval", "fetch-models"}

Settings == [valid : BOOLEAN, keyword : BOOLEAN, dense : BOOLEAN, rerank : BOOLEAN,
             embedding : Models \cup {Malformed}, llm : BOOLEAN, effort : BOOLEAN]

(* exports, blank and questions are what the command line leads to: whether *)
(* both exports are there, a blank query, the questions file or none.       *)
Process == [command : Commands, settings : Settings, exports : BOOLEAN, blank : BOOLEAN,
            questions : Seq(Question) \cup {None}]

Ids == ClientIds \cup FreshIds

Kinds == {"healthz", "readyz", "analyze", "search", "host"}

Request == [kind : Kinds, usable : BOOLEAN, supplied : ClientIds \cup {NoId, Malformed}]

ASSUME ProcessAssumption ==
    /\ Processes \subseteq Process
    /\ Asked \subseteq Request
    /\ Artifacts \subseteq [state : {"readable", "other version", "no artifact"},
                            model : Models]
    /\ Results \subseteq Result
    /\ NoFile \notin Artifacts
    /\ {NoId, Malformed} \cap Ids = {} /\ ClientIds \cap FreshIds = {}
    /\ None \notin Seq(Question)

VARIABLES
    process,    \* the command line and the settings
    file,       \* what is at the artifact's path
    pc,
    db,         \* "none", "open" or "closed": the Store of this process
    built,      \* whether services.build has returned
    raised,     \* the exception that stopped the command, or "none"
    exit,       \* the exit status, in words
    row,        \* eval: the configuration being scored ...
    nth,        \* ... the next question ...
    last,       \* ... and the last [question, result, score] of it, or None
    stage,      \* per request, how far it is
    asked,      \* ... what it asks
    id,         \* ... request.state.request_id
    ambient,    \* ... request_id_var in its context
    answer,     \* ... [status, id], or None
    logged      \* [of, as]: which request logged a line with which id

eval_vars    == <<row, nth, last>>
request_vars == <<stage, asked, id, ambient, answer, logged>>
vars == <<process, file, pc, db, built, raised, exit, eval_vars, request_vars>>

StoreErrors == {"ArtifactNotFoundError", "SchemaVersionError", "StoreError"}
Errors == StoreErrors \cup {"RetrieverConfigError", "ValueError", "ValidationError",
                            "IngestError", "QuestionSetError", "UserError", "Exception"}

(* CONFIGURATIONS *)
Toggles ==
    << [keyword |-> TRUE,  dense |-> FALSE, rerank |-> FALSE],
       [keyword |-> FALSE, dense |-> TRUE,  rerank |-> FALSE],
       [keyword |-> TRUE,  dense |-> TRUE,  rerank |-> FALSE],
       [keyword |-> TRUE,  dense |-> TRUE,  rerank |-> TRUE] >>

Command == process.command
Setting == process.settings
Serves == Command \in {"serve", "app"}

Init ==
    /\ process \in Processes
    /\ file \in Artifacts \cup {NoFile}
    /\ pc = IF process.command = "app" THEN "serving" ELSE "start"
    /\ db = IF process.command = "app" THEN "open" ELSE "none"
    /\ built = (process.command = "app")
    /\ raised = "none" /\ exit = "none"
    /\ row = 0 /\ nth = 1 /\ last = None
    /\ stage = [r \in Requests |-> "unsent"]
    /\ asked = [r \in Requests |-> None]
    /\ id = [r \in Requests |-> NoId]
    /\ ambient = [r \in Requests |-> NoId]
    /\ answer = [r \in Requests |-> None]
    /\ logged = {}

Goto(step) == pc' = step /\ UNCHANGED raised

Raise(error) == pc' = "raised" /\ raised' = error

-----------------------------------------------------------------------------
(* main, and what the commands check first *)

FirstStep == CASE Command = "ingest"       -> "exports"
               [] Command = "eval"         -> "load"
               [] Command = "fetch-models" -> "embedder"
               [] OTHER                    -> "open"

Start ==
    /\ pc = "start"
    /\ IF Setting.valid THEN Goto(FirstStep) ELSE Raise("ValidationError")
    /\ UNCHANGED <<process, file, db, built, exit, eval_vars, request_vars>>

CheckExports ==
    /\ pc = "exports"
    /\ IF process.exports THEN Goto("embedder") ELSE Raise("UserError")
    /\ UNCHANGED <<process, file, db, built, exit, eval_vars, request_vars>>

LoadQuestions ==
    /\ pc = "load"
    /\ IF process.questions = None THEN Raise("UserError")
       ELSE IF Loads(process.questions) THEN Goto("open") ELSE Raise("QuestionSetError")
    /\ UNCHANGED <<process, file, db, built, exit, eval_vars, request_vars>>

-----------------------------------------------------------------------------
(* The object graph *)

(* Store(path), which closes what it opened when it raises. *)
OpenStore ==
    /\ pc = "open"
    /\ IF file # NoFile /\ file.state = "readable"
       THEN /\ db' = "open"
            /\ Goto(IF Command = "eval" THEN "validate" ELSE "embedder")
       ELSE /\ Raise(IF file = NoFile THEN "ArtifactNotFoundError"
                     ELSE IF file.state = "other version" THEN "SchemaVersionError"
                     ELSE "StoreError")
            /\ UNCHANGED db
    /\ UNCHANGED <<process, file, built, exit, eval_vars, request_vars>>

(* embeddings.create, which build_retriever only calls for dense search.    *)
CreateEmbedder ==
    /\ pc = "embedder"
    /\ LET wanted == Command \in {"serve", "ask"} => Setting.dense
       IN  IF wanted /\ Setting.embedding = Malformed THEN Raise("ValueError")
           ELSE Goto(IF Command = "ingest" THEN "build artifact" ELSE "reranker")
    /\ UNCHANGED <<process, file, db, built, exit, eval_vars, request_vars>>

(* rerank.create *)
CreateReranker ==
    /\ pc = "reranker"
    /\ IF Command = "fetch-models" THEN Goto("leave") ELSE Goto("retriever")
    /\ row' = IF Command = "eval" THEN 1 ELSE row
    /\ UNCHANGED <<process, file, db, built, exit, nth, last, request_vars>>

(* The stages of the retriever to be made: the settings', or a row's. *)
Stages == IF Command = "eval" THEN Toggles[row]
          ELSE [keyword |-> Setting.keyword, dense |-> Setting.dense, rerank |-> Setting.rerank]

(* Retriever.__init__ *)
MakeRetriever ==
    /\ pc = "retriever"
    /\ IF \/ ~Stages.keyword /\ ~Stages.dense
          \/ Stages.dense /\ file.model # Setting.embedding
       THEN Raise("RetrieverConfigError")
       ELSE Goto(IF Command = "eval" THEN "score" ELSE "provider")
    /\ UNCHANGED <<process, file, db, built, exit, eval_vars, request_vars>>

(* llm.factory.create: what is unavailable is done without. *)
CreateProvider ==
    /\ pc = "provider"
    /\ IF Setting.llm /\ ~Setting.effort THEN Raise("ValueError") ELSE Goto("pipeline")
    /\ UNCHANGED <<process, file, db, built, exit, eval_vars, request_vars>>

(* Pipeline.__init__, and build returns. *)
MakePipeline ==
    /\ pc = "pipeline"
    /\ built' = TRUE
    /\ Goto(IF Command = "ask" THEN "answer" ELSE "serving")
    /\ UNCHANGED <<process, file, db, exit, eval_vars, request_vars>>

(* Mutant: build leaves the store to whoever catches the exception. *)
BuildFailsOpen ==
    /\ pc = "raised" /\ Command \in {"serve", "ask"} /\ ~built /\ db = "open"
    /\ pc' = "handle"
    /\ UNCHANGED <<process, file, db, built, raised, exit, eval_vars, request_vars>>

(* The except clause of build. *)
BuildFails ==
    /\ pc = "raised" /\ Command \in {"serve", "ask"} /\ ~built /\ db = "open"
    /\ db' = "closed"
    /\ pc' = "handle"
    /\ UNCHANGED <<process, file, built, raised, exit, eval_vars, request_vars>>

(* A model that cannot be loaded, a damaged table, a provider that raises:  *)
(* what the code does not name may happen wherever it is used.              *)
Unforeseen ==
    /\ pc \in {"embedder", "build artifact", "reranker", "retriever", "provider", "pipeline",
               "answer", "score"}
    /\ Raise("Exception")
    /\ UNCHANGED <<process, file, db, built, exit, eval_vars, request_vars>>

-----------------------------------------------------------------------------
(* ingest: build_artifact is the subject of Index and Publish. *)

BuildArtifact ==
    /\ pc = "build artifact"
    /\ \/ /\ file' \in {a \in Artifacts : a.state = "readable" /\ a.model = Setting.embedding}
          /\ Goto("leave")
       \/ Raise("IngestError") /\ UNCHANGED file
    /\ UNCHANGED <<process, db, built, exit, eval_vars, request_vars>>

-----------------------------------------------------------------------------
(* ask: analyze is the subject of Pipeline. *)

Ask ==
    /\ pc = "answer"
    /\ IF process.blank THEN Raise("ValueError") ELSE Goto("leave")
    /\ UNCHANGED <<process, file, db, built, exit, eval_vars, request_vars>>

-----------------------------------------------------------------------------
(* eval: runner.run *)

(* Inconsistent questions end the run without an exception. *)
ValidateQuestions ==
    /\ pc = "validate"
    /\ Goto(IF Valid(process.questions) THEN "embedder" ELSE "leave")
    /\ UNCHANGED <<process, file, db, built, exit, eval_vars, request_vars>>

ScoreQuestion ==
    /\ pc = "score" /\ nth <= Len(process.questions)
    /\ LET q == process.questions[nth]
       IN  IF Undefined(q) THEN Raise("ValueError") /\ UNCHANGED <<nth, last>>
           ELSE /\ \E result \in Results :
                     last' = [question |-> q, result |-> result, score |-> Score(q, result)]
                /\ nth' = nth + 1
                /\ UNCHANGED <<pc, raised>>
    /\ UNCHANGED <<process, file, db, built, exit, row, request_vars>>

(* The next configuration, or the tables and the results. *)
NextRow ==
    /\ pc = "score" /\ nth > Len(process.questions)
    /\ IF row < Len(Toggles) THEN row' = row + 1 /\ nth' = 1 /\ Goto("retriever")
       ELSE Goto("leave") /\ UNCHANGED <<row, nth>>
    /\ last' = None
    /\ UNCHANGED <<process, file, db, built, exit, request_vars>>

-----------------------------------------------------------------------------
(* How a command ends *)

Closed == IF db = "open" THEN "closed" ELSE db

(* ask's finally clause, eval's with block; nothing for the others. *)
Unwind ==
    /\ pc = "raised" /\ (Command \in {"serve", "ask"} => built \/ db # "open")
    /\ db' = Closed
    /\ pc' = "handle"
    /\ UNCHANGED <<process, file, built, raised, exit, eval_vars, request_vars>>

(* The same without an exception.  eval returns 1 for bad questions.        *)
Leave ==
    /\ pc = "leave"
    /\ db' = Closed
    /\ pc' = "ended"
    /\ exit' = IF Command = "eval" /\ row = 0 THEN "problems" ELSE "ok"
    /\ UNCHANGED <<process, file, built, raised, eval_vars, request_vars>>

(* Mutant: eval does not expect a model that does not fit. *)
ExpectedButOne ==
    {"UserError", "ValueError", "ValidationError"}
    \cup CASE Command = "ingest" -> {"IngestError"}
           [] Command = "ask"    -> StoreErrors \cup {"RetrieverConfigError"}
           [] Command = "eval"   -> StoreErrors \cup {"QuestionSetError"}
           [] OTHER              -> {}

(* What each command turns into a _UserError; main takes it for a status,   *)
(* and any other ValueError with it.                                        *)
Expected ==
    {"UserError", "ValueError", "ValidationError"}
    \cup CASE Command = "ingest" -> {"IngestError"}
           [] Command = "ask"    -> StoreErrors \cup {"RetrieverConfigError"}
           [] Command = "eval"   -> StoreErrors \cup {"RetrieverConfigError", "QuestionSetError"}
           [] OTHER              -> {}

EndCommand ==
    /\ pc = "handle"
    /\ Command = "serve" => raised = "ValidationError"
    /\ pc' = "ended"
    /\ exit' = IF raised \in Expected THEN "usage" ELSE "traceback"
    /\ UNCHANGED <<process, file, db, built, raised, eval_vars, request_vars>>

(* The lifespan of the application: an artifact that does not fit is told   *)
(* by /readyz, anything else ends the server before it has started.         *)
Lifespan ==
    /\ pc = "handle" /\ Command = "serve" /\ raised # "ValidationError"
    /\ IF raised \in StoreErrors \cup {"RetrieverConfigError"}
       THEN pc' = "serving" /\ UNCHANGED exit
       ELSE pc' = "ended" /\ exit' = "not started"
    /\ UNCHANGED <<process, file, db, built, raised, eval_vars, request_vars>>

-----------------------------------------------------------------------------
(* Requests: _observe, then the endpoint on a thread of the pool, whose     *)
(* context is a copy of the request's.                                      *)

(* Mutant: whatever the client sends is taken. *)
IdsForUnchecked(request) ==
    IF request.supplied # NoId THEN {request.supplied}
    ELSE FreshIds \ {id[r] : r \in Requests}

(* The id of a request: the client's, if it is well-formed, or a new one.   *)
IdsFor(request) ==
    IF request.supplied \in ClientIds THEN {request.supplied}
    ELSE FreshIds \ {id[r] : r \in Requests}

Observe(r) ==
    /\ pc = "serving" /\ stage[r] = "unsent"
    /\ \E request \in Asked : \E i \in IdsFor(request) :
         /\ asked' = [asked EXCEPT ![r] = request]
         /\ id' = [id EXCEPT ![r] = i]
         /\ ambient' = [ambient EXCEPT ![r] = i]
    /\ stage' = [stage EXCEPT ![r] = "endpoint"]
    /\ UNCHANGED <<process, file, pc, db, built, raised, exit, eval_vars, answer, logged>>

(* _observe has the response: it resets the variable and sets the header.   *)
Respond(r, status) ==
    /\ stage' = [stage EXCEPT ![r] = "answered"]
    /\ ambient' = [ambient EXCEPT ![r] = NoId]
    /\ answer' = [answer EXCEPT ![r] = [status |-> status, id |-> id[r]]]
    /\ logged' = logged \cup {[of |-> r, as |-> id[r]]}
    /\ UNCHANGED <<process, file, pc, db, built, raised, exit, eval_vars, asked, id>>

(* No services: 503 from _services, and from /readyz. *)
Refuse(r) ==
    /\ stage[r] = "endpoint" /\ asked[r].kind # "healthz" /\ ~built
    /\ Respond(r, 503)

Healthz(r) ==
    /\ stage[r] = "endpoint" /\ asked[r].kind = "healthz"
    /\ Respond(r, 200)

(* A blank query. *)
Reject(r) ==
    /\ stage[r] = "endpoint" /\ built
    /\ asked[r].kind \in {"analyze", "search"} /\ ~asked[r].usable
    /\ Respond(r, 422)

(* The endpoint asks the store, and logs what it does. *)
Query(r) ==
    /\ stage[r] = "endpoint" /\ built /\ asked[r].kind # "healthz"
    /\ asked[r].kind \in {"analyze", "search"} => asked[r].usable
    /\ stage' = [stage EXCEPT ![r] = "query"]
    /\ logged' = logged \cup {[of |-> r, as |-> ambient[r]]}
    /\ UNCHANGED <<process, file, pc, db, built, raised, exit, eval_vars, asked, id, ambient,
                    answer>>

Found(r) ==
    /\ stage[r] = "query"
    /\ Respond(r, IF asked[r].kind = "host" /\ ~asked[r].usable THEN 404 ELSE 200)

(* The exception passes through _observe, which resets the variable. *)
Break(r) ==
    /\ stage[r] = "query"
    /\ stage' = [stage EXCEPT ![r] = "broken"]
    /\ ambient' = [ambient EXCEPT ![r] = NoId]
    /\ UNCHANGED <<process, file, pc, db, built, raised, exit, eval_vars, asked, id, answer,
                    logged>>

(* Mutant: the id is that of the context, as for every other line.          *)
InternalErrorInContext(r) ==
    /\ stage[r] = "broken"
    /\ stage' = [stage EXCEPT ![r] = "answered"]
    /\ answer' = [answer EXCEPT ![r] = [status |-> 500, id |-> ambient[r]]]
    /\ logged' = logged \cup {[of |-> r, as |-> ambient[r]]}
    /\ UNCHANGED <<process, file, pc, db, built, raised, exit, eval_vars, asked, id, ambient>>

(* _internal_error *)
InternalError(r) ==
    /\ stage[r] = "broken"
    /\ stage' = [stage EXCEPT ![r] = "answered"]
    /\ answer' = [answer EXCEPT ![r] = [status |-> 500, id |-> id[r]]]
    /\ logged' = logged \cup {[of |-> r, as |-> id[r]]}
    /\ UNCHANGED <<process, file, pc, db, built, raised, exit, eval_vars, asked, id, ambient>>

(* The server (uvicorn) is told to stop, and takes no more requests. *)
Stop ==
    /\ pc = "serving"
    /\ pc' = "stopping"
    /\ UNCHANGED <<process, file, db, built, raised, exit, eval_vars, request_vars>>

(* It ends the lifespan when no request is left: services that the process  *)
(* has built are closed, others are their owner's.                          *)
Shutdown ==
    /\ pc = "stopping" /\ \A r \in Requests : stage[r] \in {"unsent", "answered"}
    /\ db' = IF Command = "serve" THEN Closed ELSE db
    /\ pc' = "ended" /\ exit' = "ok"
    /\ UNCHANGED <<process, file, built, raised, eval_vars, request_vars>>

-----------------------------------------------------------------------------

Step == \/ Start \/ CheckExports \/ LoadQuestions
        \/ OpenStore \/ CreateEmbedder \/ CreateReranker \/ MakeRetriever
        \/ CreateProvider \/ MakePipeline \/ BuildFails \/ Unforeseen
        \/ BuildArtifact \/ Ask
        \/ ValidateQuestions \/ ScoreQuestion \/ NextRow
        \/ Unwind \/ Leave \/ EndCommand \/ Lifespan

Serve(r) == \/ Observe(r) \/ Refuse(r) \/ Healthz(r) \/ Reject(r)
            \/ Query(r) \/ Found(r) \/ Break(r) \/ InternalError(r)

Ended == pc = "ended" /\ UNCHANGED vars

Next == Step \/ Stop \/ Shutdown \/ Ended \/ \E r \in Requests : Serve(r)

Spec == Init /\ [][Next]_vars

-----------------------------------------------------------------------------
(* Properties *)

Steps == {"start", "exports", "load", "open", "validate", "embedder", "build artifact",
          "reranker", "retriever", "provider", "pipeline", "answer", "score", "serving",
          "stopping", "leave", "raised", "handle", "ended"}

TypeOK ==
    /\ process \in Processes
    /\ file \in Artifacts \cup {NoFile}
    /\ pc \in Steps
    /\ db \in {"none", "open", "closed"}
    /\ built \in BOOLEAN
    /\ raised \in Errors \cup {"none"}
    /\ exit \in {"none", "ok", "problems", "usage", "traceback", "not started"}
    /\ exit # "none" <=> pc = "ended"
    /\ row \in 0..Len(Toggles) /\ nth \in Nat \ {0}
    /\ pc \in {"raised", "handle"} => raised # "none"
    /\ stage \in [Requests -> {"unsent", "endpoint", "query", "broken", "answered"}]
    /\ asked \in [Requests -> Asked \cup {None}]
    /\ id \in [Requests -> Ids \cup {NoId}]
    /\ ambient \in [Requests -> Ids \cup {NoId}]
    /\ answer \in [Requests -> [status : {200, 404, 422, 500, 503}, id : Ids] \cup {None}]
    /\ logged \subseteq [of : Requests, as : Ids]

(* The steps of a command that ask the store. *)
Using == {"validate", "retriever", "provider", "pipeline", "answer", "score"}

(* Whichever step of a command fails, and however requests and the end of   *)
(* the server meet: a store that a process has opened is closed when it     *)
(* ends, and where a server goes on without services; it is open while      *)
(* something uses it; and one that was handed in is never closed.           *)
StoresAreClosed ==
    /\ pc = "ended" /\ Command # "app" => db # "open"
    /\ pc \in {"serving", "stopping"} => (db = "open" <=> built)
    /\ pc \in Using => db = "open"
    /\ \A r \in Requests : stage[r] = "query" => db = "open"
    /\ Command = "app" => db = "open"

(* Errors a user can act on end a command with the status for that, and     *)
(* never with a traceback, whichever of its steps met them; and an artifact *)
(* that is missing or does not fit does not end a server at all.            *)
UserErrorsAreTold ==
    LET unfit == StoreErrors \cup {"RetrieverConfigError"}
    IN  pc = "ended" =>
          /\ exit \in {"ok", "problems"} <=> raised = "none" \/ (Serves /\ raised \in unfit)
          /\ raised \notin {"none", "Exception"} /\ ~Serves => exit = "usage"

(* Every answer bears the id of its request: the client's own, or one that  *)
(* no other request has.  So does every line logged for it, although the    *)
(* variable they take it from is reset on the way out.                      *)
AnswersAreTraced ==
    /\ \A r \in Requests : answer[r] # None =>
         /\ answer[r].id = id[r]
         /\ IF asked[r].supplied \in ClientIds THEN id[r] = asked[r].supplied
            ELSE \A s \in Requests \ {r} : id[s] # id[r]
    /\ \A line \in logged : line.as = id[line.of]

Full(ratio) == ratio.hits = ratio.of

(* What a score says of the abstention and of the hosts. *)
GoldCounts(q, result, score) ==
    LET matched == Matched(result)
    IN  IF IsNegative(q)
        THEN /\ score.recall \cup score.precision \cup score.rank \cup score.cve
                 \cup score.hosts = {}
             /\ score.abstained <=> matched = {}
        ELSE /\ score.abstained <=> matched # {}
             /\ \A c \in ToSet(q.cves) : matched = ToSet(QidsFor[c]) /\ matched # {} =>
                   \A s \in score.hosts : Full(s.precision)
             /\ matched = ToSet(q.qids) =>
                   \A s \in score.hosts : Full(s.precision) /\ Full(s.recall)

(* ... and of the ranking. *)
RanksAgree(score) ==
    \A found \in score.recall, precision \in score.precision, rank \in score.rank :
      /\ found <=> precision.hits > 0
      /\ found <=> rank \in 1..Cutoff
      /\ precision.hits <= precision.of

GoldIsEnough ==
    /\ Command = "eval" /\ row > 0 => raised # "ValueError"
    /\ last # None => GoldCounts(last.question, last.result, last.score)

(* A question set that validates can be scored: no metric is asked for what *)
(* it does not define; a negative is scored for abstention alone.  Whoever  *)
(* matches just what the gold says, or all the QIDs of a CVE that the       *)
(* question was written from, is not marked down for its hosts, and who     *)
(* finds no gold near the top gets no credit in any column for it.          *)
ScoringIsFair ==
    /\ GoldIsEnough
    /\ last # None => RanksAgree(last.score)
=============================================================================
