---------------------------- MODULE ServiceProofs ----------------------------
(***************************************************************************)
(* Theorems of Service, for any settings, artifacts, question sets and     *)
(* requests.  The invariant has a part about the command, which requests   *)
(* never change, one about the requests, which the steps of a command      *)
(* never change, and one that relates the two.                             *)
(***************************************************************************)
EXTENDS Service, FiniteLemmas

command_vars == <<process, file, pc, db, built, raised, exit, row, nth, last>>

Running == {"serving", "stopping"}

Unfit == StoreErrors \cup {"RetrieverConfigError"}

-----------------------------------------------------------------------------
(* The invariant *)

CommandTypes ==
    /\ process \in Processes
    /\ file \in Artifacts \cup {NoFile}
    /\ pc \in Steps
    /\ db \in {"none", "open", "closed"}
    /\ built \in BOOLEAN
    /\ raised \in Errors \cup {"none"}
    /\ exit \in {"none", "ok", "problems", "usage", "traceback", "not started"}
    /\ exit # "none" <=> pc = "ended"
    /\ row \in 0..4 /\ nth \in Nat \ {0}
    /\ pc \in {"raised", "handle"} => raised # "none"

(* Which command is at which step. *)
Whose ==
    /\ pc \in {"start", "raised", "handle", "leave"} => Command # "app"
    /\ pc \in {"exports", "build artifact"} => Command = "ingest"
    /\ pc \in {"load", "validate", "score"} => Command = "eval"
    /\ pc = "open" => Command \in {"serve", "ask", "eval"}
    /\ pc \in {"embedder", "reranker"} => Command # "app"
    /\ pc = "reranker" => Command # "ingest"
    /\ pc = "retriever" => Command \in {"serve", "ask", "eval"}
    /\ pc \in {"provider", "pipeline"} => Command \in {"serve", "ask"}
    /\ pc = "answer" => Command = "ask"
    /\ pc \in Running => Serves
    /\ pc = "leave" => Command # "serve"

(* Where the store is open, and whose it is. *)
Opened ==
    /\ pc \in {"start", "exports", "load", "open", "build artifact"} => db = "none"
    /\ pc \in {"start", "exports", "load", "open", "embedder", "build artifact", "validate",
               "reranker", "retriever", "provider", "pipeline", "score"} => ~built
    /\ pc \in {"embedder", "reranker"} =>
         IF Command \in {"serve", "ask", "eval"} THEN db = "open" ELSE db = "none"
    /\ pc \in Using => db = "open"
    /\ pc = "answer" => built
    /\ pc \in Running => (db = "open" <=> built)
    /\ pc \in {"handle", "ended"} /\ Command # "app" => db # "open"
    /\ Command = "app" => db = "open" /\ built
    /\ built => Command \in {"serve", "ask", "app"}
    /\ Command = "serve" /\ pc \in {"raised", "handle"} => ~built

(* What may have been raised. *)
Told ==
    /\ pc \notin Running \cup {"raised", "handle", "ended"} => raised = "none"
    /\ pc \in Running => raised = "none" \/ raised \in Unfit
    /\ ~Serves => raised \in Expected \cup {"Exception", "none"}
    /\ pc = "ended" =>
          /\ exit \in {"ok", "problems"} <=> raised = "none" \/ (Serves /\ raised \in Unfit)
          /\ raised \notin {"none", "Exception"} /\ ~Serves => exit = "usage"

(* The questions that are scored are sound; before that no row is begun. *)
Checked ==
    Command = "eval" =>
      /\ pc \notin {"start", "load", "raised", "handle", "ended"} => process.questions # None
      /\ pc \in {"embedder", "reranker", "retriever", "score"} => Valid(process.questions)
      /\ pc \in {"start", "load", "open", "validate", "embedder", "reranker"} => row = 0
      /\ pc \in {"retriever", "score"} => row > 0
      /\ row > 0 => raised # "ValueError"

CommandInv == CommandTypes /\ Whose /\ Opened /\ Told /\ Checked

RequestTypes ==
    /\ stage \in [Requests -> {"unsent", "endpoint", "query", "broken", "answered"}]
    /\ asked \in [Requests -> Asked \cup {None}]
    /\ id \in [Requests -> Ids \cup {NoId}]
    /\ ambient \in [Requests -> Ids \cup {NoId}]
    /\ answer \in [Requests -> [status : {200, 404, 422, 500, 503}, id : Ids] \cup {None}]
    /\ logged \subseteq [of : Requests, as : Ids]

(* A request has its id from the start, and nobody else has it. *)
Traced(r) ==
    /\ stage[r] = "unsent" => id[r] = NoId
    /\ stage[r] # "unsent" =>
         /\ asked[r] \in Asked /\ id[r] \in Ids
         /\ IF asked[r].supplied \in ClientIds THEN id[r] = asked[r].supplied
            ELSE id[r] \in FreshIds /\ \A s \in Requests \ {r} : id[s] # id[r]
    /\ stage[r] \in {"endpoint", "query"} => ambient[r] = id[r]
    /\ stage[r] # "answered" => answer[r] = None
    /\ answer[r] # None => answer[r].id = id[r]

RequestInv ==
    /\ RequestTypes
    /\ \A r \in Requests : Traced(r)
    /\ \A line \in logged : line.as = id[line.of] /\ stage[line.of] # "unsent"

Attended ==
    \A r \in Requests :
      /\ stage[r] \notin {"unsent", "answered"} => pc \in Running
      /\ stage[r] = "query" => built

IInv == CommandInv /\ RequestInv /\ Attended

LEMMA TypeIsBoth == TypeOK <=> CommandTypes /\ RequestTypes
<1>1. Len(Toggles) = 4
  BY DEF Toggles
<1> QED
  BY <1>1 DEF TypeOK, CommandTypes, RequestTypes

-----------------------------------------------------------------------------
(* The initial states *)

LEMMA InitCommand == Init => CommandInv
<1> SUFFICES ASSUME Init PROVE CommandInv
  OBVIOUS
<1>1. process \in Process
  BY ProcessAssumption DEF Init
<1>2. Command \in Commands
  BY <1>1 DEF Process, Command
<1>3. CommandTypes
  BY <1>2 DEF Init, CommandTypes, Steps, Command
<1>4. Whose /\ Opened /\ Told /\ Checked
  BY <1>2 DEF Init, Whose, Opened, Told, Checked, Command, Serves, Commands, Running, Using
<1> QED
  BY <1>3, <1>4 DEF CommandInv

LEMMA InitRequests == Init => RequestInv /\ Attended
BY DEF Init, RequestInv, RequestTypes, Traced, Attended

-----------------------------------------------------------------------------
(* The steps of a command *)

LEMMA CommandFacts ==
  ASSUME CommandInv
  PROVE  Command \in Commands /\ process \in Process /\ pc \in Steps
BY ProcessAssumption DEF CommandInv, CommandTypes, Process, Command
(* Questions that validate have gold wherever a metric needs it. *)
LEMMA SoundGoldIsDefined ==
  ASSUME NEW questions, Valid(questions), NEW n \in DOMAIN questions
  PROVE  ~Undefined(questions[n])
BY DEF Valid, GoldIsSound, Undefined

LEMMA QuestionsCount ==
  ASSUME CommandInv, Command = "eval", process.questions # None
  PROVE  Len(process.questions) \in Nat /\ DOMAIN process.questions = 1..Len(process.questions)
BY CommandFacts DEF Process

LEMMA StepKeeps == CommandInv /\ Step => CommandInv'
<1> SUFFICES ASSUME CommandInv, Step PROVE CommandInv'
  OBVIOUS
<1> USE CommandFacts DEF CommandInv, Command, Goto, Raise, eval_vars
<1>1. CASE Start
  <2> USE <1>1 DEF FirstStep, Start
  <2>1. CommandTypes'
    BY ZenonT(30) DEF CommandTypes, Setting, Steps, Errors, StoreErrors, Commands
  <2>2. Whose'
    BY DEF Whose, Serves, Commands, Running
  <2>3. Opened'
    BY DEF Opened, Whose, Using, Running, Commands, Serves
  <2>4. Told'
    BY DEF Told, CommandTypes, Whose, Serves, Running, Unfit, StoreErrors, Expected, Commands
  <2>5. Checked'
    BY DEF Checked, CommandTypes, Whose, StoreErrors, Commands
  <2> QED
    BY <2>1, <2>2, <2>3, <2>4, <2>5
<1>2. CASE CheckExports
  <2> USE <1>2 DEF CheckExports
  <2>1. CommandTypes'
    BY DEF CommandTypes, Setting, Steps, Errors, StoreErrors, Commands
  <2>2. Whose'
    BY DEF Whose, Serves, Commands, Running
  <2>3. Opened'
    BY DEF Opened, Whose, Using, Running, Commands, Serves
  <2>4. Told'
    BY DEF Told, CommandTypes, Whose, Serves, Running, Unfit, StoreErrors, Expected, Commands
  <2>5. Checked'
    BY DEF Checked, CommandTypes, Whose, StoreErrors, Commands
  <2> QED
    BY <2>1, <2>2, <2>3, <2>4, <2>5
<1>3. CASE LoadQuestions
  <2> USE <1>3 DEF LoadQuestions
  <2>1. CommandTypes'
    BY DEF CommandTypes, Setting, Steps, Errors, StoreErrors, Commands
  <2>2. Whose'
    BY DEF Whose, Serves, Commands, Running
  <2>3. Opened'
    BY DEF Opened, Whose, Using, Running, Commands, Serves
  <2>4. Told'
    BY DEF Told, CommandTypes, Whose, Serves, Running, Unfit, StoreErrors, Expected, Commands
  <2>5. Checked'
    BY DEF Checked, CommandTypes, Whose, StoreErrors, Commands
  <2> QED
    BY <2>1, <2>2, <2>3, <2>4, <2>5
<1>4. CASE OpenStore
  <2> USE <1>4 DEF OpenStore
  <2>1. CommandTypes'
    BY DEF CommandTypes, Setting, Steps, Errors, StoreErrors, Commands
  <2>2. Whose'
    BY DEF Whose, Serves, Commands, Running
  <2>3. Opened'
    BY DEF Opened, Whose, Using, Running, Commands, Serves
  <2>4. Told'
    BY DEF Told, CommandTypes, Whose, Serves, Running, Unfit, StoreErrors, Expected, Commands
  <2>5. Checked'
    BY DEF Checked, CommandTypes, Whose, StoreErrors, Commands
  <2> QED
    BY <2>1, <2>2, <2>3, <2>4, <2>5
<1>5. CASE CreateEmbedder
  <2> USE <1>5 DEF CreateEmbedder
  <2>1. CommandTypes'
    BY ZenonT(30) DEF CommandTypes, Setting, Steps, Errors, StoreErrors, Commands
  <2>2. Whose'
    BY DEF Whose, Serves, Commands, Running
  <2>3. Opened'
    BY DEF Opened, Whose, Using, Running, Commands, Serves
  <2>4. Told'
    BY DEF Told, CommandTypes, Whose, Serves, Running, Unfit, StoreErrors, Expected, Commands
  <2>5. Checked'
    BY DEF Checked, CommandTypes, Whose, StoreErrors, Commands
  <2> QED
    BY <2>1, <2>2, <2>3, <2>4, <2>5
<1>6. CASE CreateReranker
  <2> USE <1>6 DEF CreateReranker
  <2>0. row' \in 0..4 /\ (Command = "eval" => row' = 1)
    BY DEF CommandTypes
  <2>1. CommandTypes'
    BY <2>0 DEF CommandTypes, Setting, Steps, Errors, StoreErrors, Commands
  <2>2. Whose'
    BY DEF Whose, Serves, Commands, Running
  <2>3. Opened'
    BY DEF Opened, Whose, Using, Running, Commands, Serves
  <2>4. Told'
    BY DEF Told, CommandTypes, Whose, Serves, Running, Unfit, StoreErrors, Expected, Commands
  <2>5. Checked'
    <3> SUFFICES ASSUME (Command = "eval")' PROVE Checked'
      BY DEF Checked
    <3>1. /\ Command = "eval" /\ row' = 1
          /\ UNCHANGED <<process, raised>> /\ pc' = "retriever" /\ raised = "none"
      BY <2>0 DEF Told, Running
    <3>2. Valid(process.questions) /\ process.questions # None
      BY <3>1 DEF Checked
    <3> HIDE DEF CreateReranker
    <3> QED
      BY <3>1, <3>2 DEF Checked
  <2> QED
    BY <2>1, <2>2, <2>3, <2>4, <2>5
<1>7. CASE MakeRetriever
  <2> USE <1>7 DEF MakeRetriever
  <2>1. CommandTypes'
    BY DEF CommandTypes, Setting, Steps, Errors, StoreErrors, Commands
  <2>2. Whose'
    BY DEF Whose, Serves, Commands, Running
  <2>3. Opened'
    BY DEF Opened, Whose, Using, Running, Commands, Serves
  <2>4. Told'
    BY DEF Told, CommandTypes, Whose, Serves, Running, Unfit, StoreErrors, Expected, Commands
  <2>5. Checked'
    BY DEF Checked, CommandTypes, Whose, StoreErrors, Commands
  <2> QED
    BY <2>1, <2>2, <2>3, <2>4, <2>5
<1>8. CASE CreateProvider
  <2> USE <1>8 DEF CreateProvider
  <2>1. CommandTypes'
    BY DEF CommandTypes, Setting, Steps, Errors, StoreErrors, Commands
  <2>2. Whose'
    BY DEF Whose, Serves, Commands, Running
  <2>3. Opened'
    BY DEF Opened, Whose, Using, Running, Commands, Serves
  <2>4. Told'
    BY DEF Told, CommandTypes, Whose, Serves, Running, Unfit, StoreErrors, Expected, Commands
  <2>5. Checked'
    BY DEF Checked, CommandTypes, Whose, StoreErrors, Commands
  <2> QED
    BY <2>1, <2>2, <2>3, <2>4, <2>5
<1>9. CASE MakePipeline
  <2> USE <1>9 DEF MakePipeline
  <2>1. CommandTypes'
    BY DEF CommandTypes, Setting, Steps, Errors, StoreErrors, Commands
  <2>2. Whose'
    BY DEF Whose, Serves, Commands, Running
  <2>3. Opened'
    BY DEF Opened, Whose, Using, Running, Commands, Serves
  <2>4. Told'
    BY DEF Told, CommandTypes, Whose, Serves, Running, Unfit, StoreErrors, Expected, Commands
  <2>5. Checked'
    BY DEF Checked, CommandTypes, Whose, StoreErrors, Commands
  <2> QED
    BY <2>1, <2>2, <2>3, <2>4, <2>5
<1>10. CASE BuildFails
  <2> USE <1>10 DEF BuildFails
  <2>1. CommandTypes'
    BY DEF CommandTypes, Setting, Steps, Errors, StoreErrors, Commands
  <2>2. Whose'
    BY DEF Whose, Serves, Commands, Running
  <2>3. Opened'
    BY DEF Opened, Whose, Using, Running, Commands, Serves
  <2>4. Told'
    BY DEF Told, CommandTypes, Whose, Serves, Running, Unfit, StoreErrors, Expected, Commands
  <2>5. Checked'
    BY DEF Checked, CommandTypes, Whose, StoreErrors, Commands
  <2> QED
    BY <2>1, <2>2, <2>3, <2>4, <2>5
<1>11. CASE Unforeseen
  <2> USE <1>11 DEF Unforeseen
  <2>1. CommandTypes'
    BY DEF CommandTypes, Setting, Steps, Errors, StoreErrors, Commands
  <2>2. Whose'
    BY DEF Whose, Serves, Commands, Running
  <2>3. Opened'
    BY DEF Opened, Whose, Using, Running, Commands, Serves
  <2>4. Told'
    BY DEF Told, CommandTypes, Whose, Serves, Running, Unfit, StoreErrors, Expected, Commands
  <2>5. Checked'
    BY DEF Checked, CommandTypes, Whose, StoreErrors, Commands
  <2> QED
    BY <2>1, <2>2, <2>3, <2>4, <2>5
<1>12. CASE BuildArtifact
  <2> USE <1>12 DEF BuildArtifact
  <2>1. CommandTypes'
    BY DEF CommandTypes, Setting, Steps, Errors, StoreErrors, Commands
  <2>2. Whose'
    BY DEF Whose, Serves, Commands, Running
  <2>3. Opened'
    BY DEF Opened, Whose, Using, Running, Commands, Serves
  <2>4. Told'
    BY DEF Told, CommandTypes, Whose, Serves, Running, Unfit, StoreErrors, Expected, Commands
  <2>5. Checked'
    BY DEF Checked, CommandTypes, Whose, StoreErrors, Commands
  <2> QED
    BY <2>1, <2>2, <2>3, <2>4, <2>5
<1>13. CASE Ask
  <2> USE <1>13 DEF Ask
  <2>1. CommandTypes'
    BY DEF CommandTypes, Setting, Steps, Errors, StoreErrors, Commands
  <2>2. Whose'
    BY DEF Whose, Serves, Commands, Running
  <2>3. Opened'
    BY DEF Opened, Whose, Using, Running, Commands, Serves
  <2>4. Told'
    BY DEF Told, CommandTypes, Whose, Serves, Running, Unfit, StoreErrors, Expected, Commands
  <2>5. Checked'
    BY DEF Checked, CommandTypes, Whose, StoreErrors, Commands
  <2> QED
    BY <2>1, <2>2, <2>3, <2>4, <2>5
<1>14. CASE ValidateQuestions
  <2> USE <1>14 DEF ValidateQuestions
  <2>1. CommandTypes'
    BY DEF CommandTypes, Setting, Steps, Errors, StoreErrors, Commands
  <2>2. Whose'
    BY DEF Whose, Serves, Commands, Running
  <2>3. Opened'
    BY DEF Opened, Whose, Using, Running, Commands, Serves
  <2>4. Told'
    BY DEF Told, CommandTypes, Whose, Serves, Running, Unfit, StoreErrors, Expected, Commands
  <2>5. Checked'
    BY DEF Checked, CommandTypes, Whose, StoreErrors, Commands
  <2> QED
    BY <2>1, <2>2, <2>3, <2>4, <2>5
<1>15. CASE ScoreQuestion
  <2> USE <1>15 DEF ScoreQuestion
  <2>a. Valid(process.questions) /\ process.questions # None /\ Command = "eval"
    BY DEF Checked, Whose
  <2>b. Len(process.questions) \in Nat /\ DOMAIN process.questions = 1..Len(process.questions)
    BY <2>a, QuestionsCount
  <2>c. nth \in Nat \ {0}
    BY DEF CommandTypes
  <2>d. ~Undefined(process.questions[nth])
    BY <2>a, <2>b, <2>c, SoundGoldIsDefined
  <2>e. UNCHANGED <<process, file, pc, raised, db, built, exit, row>> /\ nth' = nth + 1
    BY <2>d
  <2> HIDE DEF ScoreQuestion
  <2>f. nth' \in Nat \ {0}
    BY <2>c, <2>e
  <2>g. pc = "score"
    BY DEF ScoreQuestion
  <2>1. CommandTypes'
    BY <2>e, <2>f, <2>g DEF CommandTypes
  <2>2. Whose'
    BY <2>e DEF Whose, Serves, Commands, Running
  <2>3. Opened'
    BY <2>e DEF Opened, Whose, Using, Running, Commands, Serves
  <2>4. Told'
    BY <2>e DEF Told, CommandTypes, Whose, Serves, Running, Unfit, StoreErrors, Expected, Commands
  <2>5. Checked'
    BY <2>a, <2>e DEF Checked
  <2> QED
    BY <2>1, <2>2, <2>3, <2>4, <2>5
<1>16. CASE NextRow
  <2> USE <1>16 DEF NextRow
  <2>a. row \in 0..4 /\ nth \in Nat \ {0}
    BY DEF CommandTypes
  <2>b. Len(Toggles) = 4
    BY DEF Toggles
  <2>0. row' \in 0..4 /\ nth' \in Nat \ {0}
    BY <2>a, <2>b
  <2>1. CommandTypes'
    BY <2>0 DEF CommandTypes, Setting, Steps, Errors, StoreErrors, Commands
  <2>2. Whose'
    BY DEF Whose, Serves, Commands, Running
  <2>3. Opened'
    BY DEF Opened, Whose, Using, Running, Commands, Serves
  <2>4. Told'
    BY DEF Told, CommandTypes, Whose, Serves, Running, Unfit, StoreErrors, Expected, Commands
  <2>5. Checked'
    BY DEF Checked, CommandTypes, Whose, StoreErrors, Commands
  <2> QED
    BY <2>1, <2>2, <2>3, <2>4, <2>5
<1>17. CASE Unwind
  <2> USE <1>17 DEF Closed, Unwind
  <2>1. CommandTypes'
    BY DEF CommandTypes, Setting, Steps, Errors, StoreErrors, Commands
  <2>2. Whose'
    BY DEF Whose, Serves, Commands, Running
  <2>3. Opened'
    BY DEF Opened, Whose, Using, Running, Commands, Serves
  <2>4. Told'
    BY DEF Told, CommandTypes, Whose, Serves, Running, Unfit, StoreErrors, Expected, Commands
  <2>5. Checked'
    BY DEF Checked, CommandTypes, Whose, StoreErrors, Commands
  <2> QED
    BY <2>1, <2>2, <2>3, <2>4, <2>5
<1>18. CASE Leave
  <2> USE <1>18 DEF Closed, Leave
  <2>1. CommandTypes'
    BY DEF CommandTypes, Setting, Steps, Errors, StoreErrors, Commands
  <2>2. Whose'
    BY DEF Whose, Serves, Commands, Running
  <2>3. Opened'
    BY DEF Opened, Whose, Using, Running, Commands, Serves
  <2>4. Told'
    BY DEF Told, CommandTypes, Whose, Serves, Running, Unfit, StoreErrors, Expected, Commands
  <2>5. Checked'
    BY DEF Checked, CommandTypes, Whose, StoreErrors, Commands
  <2> QED
    BY <2>1, <2>2, <2>3, <2>4, <2>5
<1>19. CASE EndCommand
  <2> USE <1>19 DEF EndCommand
  <2>1. CommandTypes'
    BY DEF CommandTypes, Setting, Steps, Errors, StoreErrors, Commands
  <2>2. Whose'
    BY DEF Whose, Serves, Commands, Running
  <2>3. Opened'
    BY DEF Opened, Whose, Using, Running, Commands, Serves
  <2>4. Told'
    BY DEF Told, CommandTypes, Whose, Serves, Running, Unfit, StoreErrors, Expected, Commands
  <2>5. Checked'
    BY DEF Checked, CommandTypes, Whose, StoreErrors, Commands
  <2> QED
    BY <2>1, <2>2, <2>3, <2>4, <2>5
<1>20. CASE Lifespan
  <2> USE <1>20 DEF Lifespan
  <2>1. CommandTypes'
    BY DEF CommandTypes, Setting, Steps, Errors, StoreErrors, Commands
  <2>2. Whose'
    BY DEF Whose, Serves, Commands, Running
  <2>3. Opened'
    BY DEF Opened, Whose, Using, Running, Commands, Serves
  <2>4. Told'
    BY DEF Told, CommandTypes, Whose, Serves, Running, Unfit, StoreErrors, Expected, Commands
  <2>5. Checked'
    BY DEF Checked, CommandTypes, Whose, StoreErrors, Commands
  <2> QED
    BY <2>1, <2>2, <2>3, <2>4, <2>5
<1> QED
  BY <1>1, <1>2, <1>3, <1>4, <1>5, <1>6, <1>7, <1>8, <1>9, <1>10, <1>11, <1>12, <1>13, <1>14,
     <1>15, <1>16, <1>17, <1>18, <1>19, <1>20 DEF Step
(* No step of a command is one of a server that runs, or touches a request. *)
LEMMA StepAttends == CommandInv /\ Attended /\ Step => Attended' /\ UNCHANGED request_vars
<1> SUFFICES ASSUME CommandInv, Attended, Step PROVE Attended' /\ UNCHANGED request_vars
  OBVIOUS
<1>1. UNCHANGED request_vars
  BY DEF Step, Start, CheckExports, LoadQuestions, OpenStore, CreateEmbedder, CreateReranker,
         MakeRetriever, CreateProvider, MakePipeline, BuildFails, Unforeseen, BuildArtifact, Ask,
         ValidateQuestions, ScoreQuestion, NextRow, Unwind, Leave, EndCommand, Lifespan
<1>2. pc \notin Running
  BY DEF Running, Step, Start, CheckExports, LoadQuestions, OpenStore, CreateEmbedder,
         CreateReranker, MakeRetriever, CreateProvider, MakePipeline, BuildFails, Unforeseen,
         BuildArtifact, Ask, ValidateQuestions, ScoreQuestion, NextRow, Unwind, Leave,
         EndCommand, Lifespan
<1> QED
  BY <1>1, <1>2 DEF Attended, request_vars

-----------------------------------------------------------------------------
(* The end of a server *)

LEMMA StopKeeps == CommandInv /\ Attended /\ Stop => CommandInv' /\ Attended'
<1> SUFFICES ASSUME CommandInv, Attended, Stop PROVE CommandInv' /\ Attended'
  OBVIOUS
<1> USE CommandFacts DEF CommandInv, Command, eval_vars, request_vars, Stop
<1>1. CommandTypes'
  BY DEF CommandTypes, Steps
<1>2. Whose' /\ Opened' /\ Told'
  BY DEF Whose, Opened, Told, Running, Using, Serves, Commands
<1>3. Checked'
  BY DEF Checked, Whose, Serves, Running
<1>4. Attended'
  BY DEF Attended, Running
<1> QED
  BY <1>1, <1>2, <1>3, <1>4

LEMMA ShutdownKeeps == CommandInv /\ Attended /\ Shutdown => CommandInv' /\ Attended'
<1> SUFFICES ASSUME CommandInv, Attended, Shutdown PROVE CommandInv' /\ Attended'
  OBVIOUS
<1> USE CommandFacts DEF CommandInv, Command, eval_vars, request_vars, Shutdown, Closed
<1>1. CommandTypes'
  BY DEF CommandTypes, Steps
<1>2. Whose'
  BY DEF Whose, Running, Commands
<1>3. Opened'
  BY DEF Whose, Opened, Running, Using, Serves, Commands
<1>4. Told'
  BY DEF Whose, Told, Running, Serves, Commands
<1>5. Checked'
  BY DEF Checked, Whose, Serves, Running
<1>6. Attended'
  BY DEF Attended
<1> QED
  BY <1>1, <1>2, <1>3, <1>4, <1>5, <1>6

-----------------------------------------------------------------------------
(* Requests *)

LEMMA IdFacts ==
  /\ NoId \notin Ids
  /\ \A request \in Asked : request \in Request
BY ProcessAssumption DEF Ids

LEMMA ObserveKeeps ==
  ASSUME NEW r \in Requests, RequestInv, Observe(r)
  PROVE  RequestInv'
<1> USE IdFacts DEF RequestInv
<1>1. stage[r] = "unsent" /\ RequestTypes
  BY DEF Observe
<1>0. PICK request \in Asked : \E i \in IdsFor(request) :
        /\ asked' = [asked EXCEPT ![r] = request]
        /\ id' = [id EXCEPT ![r] = i]
        /\ ambient' = [ambient EXCEPT ![r] = i]
  BY DEF Observe
<1>2. PICK i \in IdsFor(request) :
        /\ asked' = [asked EXCEPT ![r] = request]
        /\ id' = [id EXCEPT ![r] = i]
        /\ ambient' = [ambient EXCEPT ![r] = i]
  BY <1>0
<1>3. stage' = [stage EXCEPT ![r] = "endpoint"] /\ UNCHANGED <<answer, logged>>
  BY DEF Observe
<1>4. i \in Ids
  BY <1>2 DEF IdsFor, Ids
<1>5. IF request.supplied \in ClientIds THEN i = request.supplied
      ELSE i \in FreshIds /\ \A s \in Requests : id[s] # i
  BY <1>2 DEF IdsFor
<1>6. RequestTypes'
  BY <1>1, <1>2, <1>3, <1>4 DEF RequestTypes
<1>7. \A s \in Requests : Traced(s)'
  <2> SUFFICES ASSUME NEW s \in Requests PROVE Traced(s)'
    OBVIOUS
  <2>1. CASE s = r
    BY <2>1, <1>1, <1>2, <1>3, <1>4, <1>5 DEF Traced, RequestTypes
  <2>2. CASE s # r
    <3>1. /\ stage'[s] = stage[s] /\ asked'[s] = asked[s] /\ id'[s] = id[s]
          /\ ambient'[s] = ambient[s] /\ answer'[s] = answer[s] /\ id'[r] = i
      BY <2>2, <1>1, <1>2, <1>3 DEF RequestTypes
    <3>2. stage[s] # "unsent" /\ asked[s].supplied \notin ClientIds => id[s] # i
      <4> SUFFICES ASSUME stage[s] # "unsent", asked[s].supplied \notin ClientIds
                   PROVE  id[s] # i
        OBVIOUS
      <4>1. id[s] \in FreshIds
        BY DEF Traced
      <4>2. request.supplied \in ClientIds => i \in ClientIds
        BY <1>5
      <4> QED
        BY <4>1, <4>2, <1>5, ProcessAssumption
    <3>3. \A t \in Requests \ {s} : id[t] # id[s] /\ id[s] # i => id'[t] # id'[s]
      BY <3>1, <1>1, <1>2 DEF RequestTypes
    <3>4. Traced(s)
      OBVIOUS
    <3> QED
      BY <3>1, <3>2, <3>3, <3>4 DEF Traced
  <2> QED
    BY <2>1, <2>2
<1>8. (\A line \in logged : line.as = id[line.of] /\ stage[line.of] # "unsent")'
  <2> SUFFICES ASSUME NEW line \in logged
               PROVE  (line.as = id[line.of] /\ stage[line.of] # "unsent")'
    BY <1>3
  <2>1. line.of \in Requests /\ line.of # r
    BY <1>1 DEF RequestTypes
  <2> QED
    BY <2>1, <1>1, <1>2, <1>3 DEF RequestTypes
<1> QED
  BY <1>6, <1>7, <1>8

(* What a request does once it has its id: it goes to a later stage, may    *)
(* log, may lose the variable, and is answered last.                        *)
GoneOn(r, next, status) ==
    /\ stage[r] # "unsent" /\ next \in {"query", "broken", "answered"}
    /\ status \in {200, 404, 422, 500, 503}
    /\ stage' = [stage EXCEPT ![r] = next]
    /\ asked' = asked /\ id' = id
    /\ \/ ambient' = ambient
       \/ ambient' = [ambient EXCEPT ![r] = NoId] /\ next # "query"
    /\ \/ answer' = answer /\ next # "answered" /\ stage[r] # "answered"
       \/ answer' = [answer EXCEPT ![r] = [status |-> status, id |-> id[r]]] /\ next = "answered"
    /\ next = "query" => stage[r] = "endpoint"
    /\ logged' = logged \/ logged' = logged \cup {[of |-> r, as |-> id[r]]}

LEMMA GoesOn ==
  ASSUME NEW r \in Requests, NEW next, NEW status, RequestInv, GoneOn(r, next, status)
  PROVE  RequestInv'
<1> USE DEF RequestInv, GoneOn
<1>1. id[r] \in Ids
  BY DEF Traced
<1>2. RequestTypes'
  <2>1. stage' \in [Requests -> {"unsent", "endpoint", "query", "broken", "answered"}]
    BY DEF RequestTypes
  <2>2. ambient' \in [Requests -> Ids \cup {NoId}]
    BY DEF RequestTypes
  <2>3. answer' \in [Requests -> [status : {200, 404, 422, 500, 503}, id : Ids] \cup {None}]
    BY <1>1 DEF RequestTypes
  <2>4. logged' \subseteq [of : Requests, as : Ids]
    BY <1>1 DEF RequestTypes
  <2> QED
    BY <2>1, <2>2, <2>3, <2>4 DEF RequestTypes
<1>3. ASSUME NEW s \in Requests PROVE Traced(s)'
  <2>1. CASE s = r
    BY <2>1 DEF Traced, RequestTypes
  <2>2. CASE s # r
    <3>1. stage'[s] = stage[s] /\ ambient'[s] = ambient[s] /\ answer'[s] = answer[s]
      BY <2>2 DEF RequestTypes
    <3>2. Traced(s)
      OBVIOUS
    <3> QED
      BY <3>1, <3>2 DEF Traced
  <2> QED
    BY <2>1, <2>2
<1>4. ASSUME NEW line \in logged' PROVE line.as = id'[line.of] /\ stage'[line.of] # "unsent"
  BY <1>4 DEF RequestTypes
<1> QED
  BY <1>2, <1>3, <1>4

LEMMA ServeKeeps ==
  ASSUME NEW r \in Requests, RequestInv, Serve(r)
  PROVE  RequestInv'
<1>1. CASE Observe(r)
  BY <1>1, ObserveKeeps
<1>2. ASSUME NEW status \in {200, 404, 422, 503}, Respond(r, status),
             stage[r] \in {"endpoint", "query"}
      PROVE  RequestInv'
  <2>1. GoneOn(r, "answered", status)
    BY <1>2 DEF Respond, GoneOn
  <2> QED
    BY <2>1, GoesOn
<1>3. CASE Refuse(r) \/ Healthz(r) \/ Reject(r) \/ Found(r)
  BY <1>2, <1>3 DEF Refuse, Healthz, Reject, Found
<1>4. CASE Query(r)
  <2>1. ambient[r] = id[r]
    BY <1>4 DEF Query, RequestInv, Traced
  <2>2. GoneOn(r, "query", 200)
    BY <1>4, <2>1 DEF Query, GoneOn
  <2> QED
    BY <2>2, GoesOn
<1>5. CASE Break(r)
  <2>1. GoneOn(r, "broken", 500)
    BY <1>5 DEF Break, GoneOn
  <2> QED
    BY <2>1, GoesOn
<1>6. CASE InternalError(r)
  <2>1. GoneOn(r, "answered", 500)
    BY <1>6 DEF InternalError, GoneOn
  <2> QED
    BY <2>1, GoesOn
<1> QED
  BY <1>1, <1>3, <1>4, <1>5, <1>6 DEF Serve

(* Requests leave the command alone, and are begun by a server that runs.   *)
LEMMA ServeAttends ==
  ASSUME NEW r \in Requests, RequestInv, Attended, Serve(r)
  PROVE  Attended' /\ UNCHANGED command_vars
<1>1. UNCHANGED command_vars
  BY DEF Serve, Observe, Refuse, Healthz, Reject, Query, Found, Break, InternalError, Respond,
         command_vars, eval_vars
<1>2. stage \in [Requests -> {"unsent", "endpoint", "query", "broken", "answered"}]
  BY DEF RequestInv, RequestTypes
<1>3. pc \in Running
  BY DEF Serve, Observe, Refuse, Healthz, Reject, Query, Found, Break, InternalError,
         Attended, Running
<1>4. \A s \in Requests \ {r} : stage'[s] = stage[s]
  BY <1>2 DEF Serve, Observe, Refuse, Healthz, Reject, Query, Found, Break, InternalError, Respond
<1>5. stage'[r] = "query" => built
  BY <1>2 DEF Serve, Observe, Refuse, Healthz, Reject, Query, Found, Break, InternalError, Respond
<1> QED
  BY <1>1, <1>3, <1>4, <1>5 DEF Attended, command_vars
-----------------------------------------------------------------------------
(* Theorems *)

LEMMA CommandUnchanged == CommandInv /\ UNCHANGED command_vars => CommandInv'
<1> SUFFICES ASSUME CommandInv, UNCHANGED command_vars PROVE CommandInv'
  OBVIOUS
<1> USE DEF command_vars, CommandInv, Command, Serves
<1>1. CommandTypes'
  BY DEF CommandTypes
<1>2. Whose' /\ Opened'
  BY DEF Whose, Opened
<1>3. Told'
  BY DEF Told, Expected
<1>4. Checked'
  BY DEF Checked
<1> QED
  BY <1>1, <1>2, <1>3, <1>4

LEMMA RequestsUnchanged == RequestInv /\ UNCHANGED request_vars => RequestInv'
BY DEF request_vars, RequestInv, RequestTypes, Traced

LEMMA AllUnchanged == IInv /\ UNCHANGED vars => IInv'
<1> SUFFICES ASSUME IInv, UNCHANGED vars PROVE IInv'
  OBVIOUS
<1>1. UNCHANGED command_vars /\ UNCHANGED request_vars
  BY DEF vars, eval_vars, command_vars
<1>2. Attended'
  BY <1>1 DEF IInv, Attended, command_vars, request_vars
<1> QED
  BY <1>1, <1>2, CommandUnchanged, RequestsUnchanged DEF IInv

(* The invariant IInv is inductive: a step of the command keeps its part    *)
(* and touches no request, and the other way round.                         *)
THEOREM Invariance == Spec => []IInv
<1>1. Init => IInv
  BY InitCommand, InitRequests DEF IInv
<1>2. IInv /\ [Next]_vars => IInv'
  <2> SUFFICES ASSUME IInv, [Next]_vars PROVE IInv'
    OBVIOUS
  <2>1. CASE Step
    BY <2>1, StepKeeps, StepAttends, RequestsUnchanged DEF IInv
  <2>2. CASE Stop
    <3>1. UNCHANGED request_vars
      BY <2>2 DEF Stop
    <3> QED
      BY <2>2, <3>1, StopKeeps, RequestsUnchanged DEF IInv
  <2>3. CASE Shutdown
    <3>1. UNCHANGED request_vars
      BY <2>3 DEF Shutdown
    <3> QED
      BY <2>3, <3>1, ShutdownKeeps, RequestsUnchanged DEF IInv
  <2>4. CASE \E r \in Requests : Serve(r)
    BY <2>4, ServeKeeps, ServeAttends, CommandUnchanged DEF IInv
  <2>5. CASE Ended \/ UNCHANGED vars
    BY <2>5, AllUnchanged DEF Ended
  <2> QED
    BY <2>1, <2>2, <2>3, <2>4, <2>5 DEF Next
<1> QED
  BY <1>1, <1>2, PTL DEF Spec

(* Every variable of a process keeps its type. *)
THEOREM TypeCorrect == Spec => []TypeOK
<1>1. IInv => TypeOK
  BY TypeIsBoth DEF IInv, CommandInv, RequestInv
<1> QED
  BY <1>1, Invariance, PTL

(* Whichever step of a command fails, and however many requests are on      *)
(* their way when a server is stopped, the store a process opened is closed *)
(* in the end, never under a query, and never when it is somebody else's.   *)
THEOREM EveryStoreIsClosed == Spec => []StoresAreClosed
<1>1. IInv => StoresAreClosed
  <2> SUFFICES ASSUME IInv PROVE StoresAreClosed
    OBVIOUS
  <2>1. Opened /\ Attended
    BY DEF IInv, CommandInv
  <2>2. \A r \in Requests : stage[r] = "query" => db = "open"
    BY <2>1 DEF Opened, Attended
  <2> QED
    BY <2>1, <2>2 DEF StoresAreClosed, Opened, Running
<1> QED
  BY <1>1, Invariance, PTL

(* What a user can act on is never told as a traceback. *)
THEOREM EveryUserErrorIsTold == Spec => []UserErrorsAreTold
<1>1. IInv => UserErrorsAreTold
  BY DEF IInv, CommandInv, Told, UserErrorsAreTold, Unfit
<1> QED
  BY <1>1, Invariance, PTL

(* Every answer and every line of the log bears the id of its request, for  *)
(* any requests that overlap.                                               *)
THEOREM EveryAnswerIsTraced == Spec => []AnswersAreTraced
<1>1. IInv => AnswersAreTraced
  BY DEF IInv, RequestInv, Traced, AnswersAreTraced
<1> QED
  BY <1>1, Invariance, PTL
-----------------------------------------------------------------------------
(* The evaluation *)

(* What is scored: one question of a set that validates, and a result.      *)
Scored ==
    last # None =>
      /\ Command = "eval" /\ process.questions # None /\ Valid(process.questions)
      /\ \E n \in DOMAIN process.questions, result \in Results :
            last = [question |-> process.questions[n], result |-> result,
                    score |-> Score(process.questions[n], result)]

LEMMA ScoredKept == IInv /\ Scored /\ [Next]_vars => Scored'
<1> SUFFICES ASSUME IInv, Scored, [Next]_vars PROVE Scored'
  OBVIOUS
<1>1. CASE ScoreQuestion
  <2>1. Command = "eval" /\ process.questions # None /\ Valid(process.questions)
    BY <1>1 DEF IInv, CommandInv, Checked, Whose, ScoreQuestion
  <2>2. nth \in DOMAIN process.questions
    BY <1>1, <2>1, QuestionsCount DEF IInv, CommandInv, CommandTypes, ScoreQuestion
  <2>3. process' = process /\ (last' = last \/ \E result \in Results :
          last' = [question |-> process.questions[nth], result |-> result,
                   score |-> Score(process.questions[nth], result)])
    BY <1>1 DEF ScoreQuestion
  <2> QED
    BY <2>1, <2>2, <2>3 DEF Scored, Command
<1>2. CASE NextRow
  BY <1>2 DEF NextRow, Scored
<1>3. CASE UNCHANGED <<process, last>>
  BY <1>3 DEF Scored, Command
<1>4. ScoreQuestion \/ NextRow \/ UNCHANGED <<process, last>>
  <2>1. CASE Step
    BY <2>1 DEF Step, Start, CheckExports, LoadQuestions, OpenStore, CreateEmbedder,
       CreateReranker, MakeRetriever, CreateProvider, MakePipeline, BuildFails, Unforeseen,
       BuildArtifact, Ask, ValidateQuestions, Unwind, Leave, EndCommand, Lifespan, eval_vars
  <2>2. CASE \E r \in Requests : Serve(r)
    BY <2>2, ServeAttends DEF IInv, command_vars
  <2> QED
    BY <2>1, <2>2 DEF Next, Stop, Shutdown, Ended, vars, eval_vars
<1> QED
  BY <1>1, <1>2, <1>3, <1>4

LEMMA HostsInclude ==
  ASSUME NEW q, NEW gold, q \subseteq gold
  PROVE  HostsOf(q) \subseteq HostsOf(gold)
BY DEF HostsOf

(* Whoever returns only hosts of the gold, and some, has full precision.    *)
LEMMA OnlyGoldIsPrecise ==
  ASSUME NEW returned, NEW gold, returned \subseteq gold, returned # {}
  PROVE  Full(SetPrecisionRecall(returned, gold).precision)
<1>1. returned \cap gold = returned /\ gold # {}
  OBVIOUS
<1> QED
  BY <1>1 DEF SetPrecisionRecall, Full

LEMMA AllGoldIsFull ==
  ASSUME NEW gold
  PROVE  /\ Full(SetPrecisionRecall(gold, gold).precision)
         /\ Full(SetPrecisionRecall(gold, gold).recall)
<1>1. gold \cap gold = gold
  OBVIOUS
<1> QED
  BY <1>1 DEF SetPrecisionRecall, Full, Whole

LEMMA MatchedOrNot ==
  ASSUME NEW result \in Result
  PROVE  Matched(result) = {} <=> result.matches = <<>>
<1>1. result.matches \in Seq([qid : Known, cves : Seq(Held)])
  BY DEF Result
<1>2. Len(result.matches) = 0 <=> result.matches = <<>>
  BY <1>1
<1>3. DOMAIN result.matches = 1..Len(result.matches) /\ Len(result.matches) \in Nat
  BY <1>1
<1>4. DOMAIN result.matches = {} <=> Len(result.matches) = 0
  BY <1>3
<1> QED
  BY <1>2, <1>4 DEF Matched

LEMMA SoundGoldIsEnough ==
  ASSUME NEW q \in Question, GoldIsSound(q), NEW result \in Result
  PROVE  GoldCounts(q, result, Score(q, result))
<1> DEFINE matched == Matched(result)
           gold    == ToSet(q.qids)
           score   == Score(q, result)
<1>1. score.abstained <=> (result.matches # <<>>) # IsNegative(q)
  BY DEF Score
<1>2. CASE IsNegative(q)
  <2>1. score.abstained <=> matched = {}
    BY <1>1, <1>2, MatchedOrNot
  <2>2. score.recall = {} /\ score.precision = {} /\ score.rank = {} /\ score.cve = {}
        /\ score.hosts = {}
    BY <1>2 DEF Score
  <2> QED
    BY <1>2, <2>1, <2>2 DEF GoldCounts
<1>3. CASE ~IsNegative(q)
  <2>1. score.abstained <=> matched # {}
    BY <1>1, <1>3, MatchedOrNot DEF IsNegative
  <2>2. score.hosts = {SetPrecisionRecall(HostsOf(matched), HostsOf(gold))}
    BY <1>3 DEF Score
  <2>3. ASSUME NEW c \in ToSet(q.cves), matched = ToSet(QidsFor[c]), matched # {},
               NEW s \in score.hosts
        PROVE  Full(s.precision)
    <3>1. matched \subseteq gold
      BY <2>3 DEF GoldIsSound
    <3>2. PICK k \in matched : k \in Known
      <4> DEFINE Match == [qid : Known, cves : Seq(Held)]
      <4>1. PICK i \in DOMAIN result.matches : result.matches[i].qid \in matched
        BY <2>3 DEF Matched
      <4>2. result.matches \in Seq(Match)
        BY DEF Result
      <4>3. result.matches[i] \in Match
        <5> HIDE DEF Match
        <5> QED
          BY <4>1, <4>2
      <4>4. result.matches[i].qid \in Known
        BY <4>3
      <4> QED
        BY <4>1, <4>4
    <3>3. HostsOf(matched) # {}
      BY <3>2, ArtifactAssumption DEF HostsOf
    <3> QED
      BY <2>2, <3>1, <3>3, HostsInclude, OnlyGoldIsPrecise
  <2>4. ASSUME matched = gold, NEW s \in score.hosts
        PROVE  Full(s.precision) /\ Full(s.recall)
    BY <2>2, <2>4, AllGoldIsFull
  <2> QED
    BY <1>3, <2>1, <2>3, <2>4 DEF GoldCounts
<1> QED
  BY <1>2, <1>3

-----------------------------------------------------------------------------
(* The ranking *)

(* What the recursive function of FlattenSeq does with g for its values.    *)
Flat(s, n, g) == [i \in 1..n |-> IF i = 1 THEN s[i] ELSE g[i - 1] \o s[i]]

LEMMA FlatExists ==
  ASSUME NEW s, NEW n \in Nat
  PROVE  \E g : g = Flat(s, n, g)
<1> DEFINE Works(k) == \E g : g = Flat(s, k, g)
           B == {k \in Nat : ~Works(k)}
<1>1. Works(0)
  <2> DEFINE g == [i \in 1..0 |-> 0]
  <2>1. g = Flat(s, 0, g)
    BY DEF Flat
  <2> QED
    BY <2>1
<1>2. ASSUME NEW k \in Nat, Works(k) PROVE Works(k + 1)
  <2>1. PICK g : g = Flat(s, k, g)
    BY <1>2
  <2> DEFINE h == Flat(s, k + 1, g)
  <2>2. \A i \in 1..k : h[i] = g[i]
    <3>1. \A i \in 1..k : Flat(s, k, g)[i] = Flat(s, k + 1, g)[i]
      BY DEF Flat
    <3> HIDE DEF h
    <3> QED
      BY <2>1, <3>1 DEF h
  <2>3. h = Flat(s, k + 1, h)
    <3>1. h = [i \in 1..(k + 1) |-> IF i = 1 THEN s[i] ELSE g[i - 1] \o s[i]]
      BY DEF Flat
    <3>2. Flat(s, k + 1, h) = [i \in 1..(k + 1) |-> IF i = 1 THEN s[i] ELSE h[i - 1] \o s[i]]
      BY DEF Flat
    <3> HIDE DEF h
    <3>3. \A i \in 1..(k + 1) : i # 1 => h[i - 1] = g[i - 1]
      BY <2>2
    <3> QED
      BY <3>1, <3>2, <3>3
  <2> HIDE DEF h
  <2> QED
    BY <2>3
<1>3. B = {}
  <2> HIDE DEF Works
  <2>1. SUFFICES ASSUME B # {} PROVE FALSE
    OBVIOUS
  <2>2. PICK k \in B : \A l \in B : k <= l
    BY <2>1, LeastNumber
  <2>3. k \in Nat /\ k # 0 /\ ~Works(k)
    BY <1>1, <2>2
  <2>4. k - 1 \in Nat /\ k - 1 \notin B /\ (k - 1) + 1 = k
    BY <2>2, <2>3
  <2> QED
    BY <1>2, <2>3, <2>4
<1> QED
  BY <1>3

LEMMA FlattenedIsSeq ==
  ASSUME NEW X, NEW s \in Seq(Seq(X))
  PROVE  FlattenSeq(s) \in Seq(X)
<1>1. CASE Len(s) = 0
  BY <1>1 DEF FlattenSeq
<1>2. CASE Len(s) # 0
  <2> DEFINE g == CHOOSE g : g = Flat(s, Len(s), g)
  <2>1. g = Flat(s, Len(s), g)
    BY FlatExists
  <2>2. FlattenSeq(s) = g[Len(s)]
    BY <1>2 DEF FlattenSeq, Flat
  <2> HIDE DEF g
  <2>3. ASSUME NEW i \in 1..Len(s)
        PROVE  g[i] = IF i = 1 THEN s[i] ELSE g[i - 1] \o s[i]
    <3>1. Flat(s, Len(s), g)[i] = IF i = 1 THEN s[i] ELSE g[i - 1] \o s[i]
      BY DEF Flat
    <3> QED
      BY <2>1, <3>1
  <2> DEFINE B == {i \in 1..Len(s) : g[i] \notin Seq(X)}
  <2>4. B = {}
    <3>1. SUFFICES ASSUME B # {} PROVE FALSE
      OBVIOUS
    <3>2. B \in SUBSET Nat
      OBVIOUS
    <3>3. PICK i \in B : \A j \in B : i <= j
      <4> HIDE DEF B
      <4> QED
        BY <3>1, <3>2, LeastNumber
    <3>4. i \in 1..Len(s) /\ g[i] \notin Seq(X) /\ s[i] \in Seq(X)
      BY <3>3
    <3>5. i # 1 /\ g[i] = g[i - 1] \o s[i]
      BY <2>3, <3>4
    <3>6. i - 1 \in 1..Len(s) /\ i - 1 \notin B
      BY <3>3, <3>4, <3>5
    <3>7. g[i - 1] \in Seq(X)
      BY <3>6
    <3> QED
      BY <3>4, <3>5, <3>7
  <2> QED
    BY <1>2, <2>2, <2>4
<1> QED
  BY <1>1, <1>2

(* The ranking that _unique makes of what each candidate contributes has    *)
(* every id of it, and no id twice, so that a cut-off counts different ids. *)
THEOREM UniqueKeepsFirsts ==
  ASSUME NEW X, NEW s \in Seq(X)
  PROVE  \E n \in Nat :
           /\ DOMAIN Unique(s) = 1..n
           /\ \A k \in 1..n : \E i \in DOMAIN s : Unique(s)[k] = s[i]
           /\ \A i \in DOMAIN s : \E k \in 1..n : Unique(s)[k] = s[i]
           /\ \A k, l \in 1..n : Unique(s)[k] = Unique(s)[l] => k = l
<1> DEFINE firsts == {i \in DOMAIN s : \A j \in 1..(i - 1) : s[j] # s[i]}
           n == Cardinality(firsts)
<1>1. PICK m \in Nat : s \in [1..m -> X]
  OBVIOUS
<1>2. firsts \in SUBSET (1..m) /\ DOMAIN s = 1..m
  BY <1>1
<1>3. Unique(s) = Selected(s, firsts)
  BY DEF Unique
<1>4. \A i \in DOMAIN s : \E j \in firsts : s[j] = s[i]
  <2> SUFFICES ASSUME NEW i \in DOMAIN s PROVE \E j \in firsts : s[j] = s[i]
    OBVIOUS
  <2> DEFINE same == {j \in DOMAIN s : s[j] = s[i]}
  <2>1. PICK j \in same : \A k \in same : j <= k
    <3>1. i \in same /\ same \in SUBSET Nat
      BY <1>2
    <3> HIDE DEF same
    <3> QED
      BY <3>1, LeastNumber
  <2>2. \A k \in 1..(j - 1) : k \in DOMAIN s /\ ~(j <= k)
    BY <1>2
  <2>3. j \in firsts
    BY <2>1, <2>2
  <2> QED
    BY <2>1, <2>3
<1>5. \A i, j \in firsts : i < j => s[i] # s[j]
  <2> SUFFICES ASSUME NEW i \in firsts, NEW j \in firsts, i < j PROVE s[i] # s[j]
    OBVIOUS
  <2>1. i \in 1..(j - 1)
    BY <1>2
  <2> QED
    BY <2>1
<1>6. firsts \in SUBSET Nat /\ IsFiniteSet(firsts) /\ n \in Nat
      /\ DOMAIN Selected(s, firsts) = 1..n
      /\ \A i \in firsts : \E k \in 1..n : Selected(s, firsts)[k] = s[i]
  <2>1. firsts \in SUBSET Nat
    BY <1>2
  <2> HIDE DEF firsts
  <2> QED
    BY <1>1, <1>2, <2>1, SelectedIs
<1> HIDE DEF firsts, n
<1> DEFINE place(k) == Nth(firsts, k)
<1>7. \A k \in 1..n : place(k) \in firsts /\ Unique(s)[k] = s[place(k)]
  <2>1. \A k \in 1..n : place(k) \in firsts
    BY <1>6, NthIs DEF n
  <2>2. \A k \in 1..n : Selected(s, firsts)[k] = s[place(k)]
    BY DEF Selected, n
  <2> QED
    BY <1>3, <2>1, <2>2
<1>8. \A k, l \in 1..n : k < l => place(k) < place(l)
  BY <1>6, NthGrows DEF n
<1> HIDE DEF place
<1>9. \A k, l \in 1..n : Unique(s)[k] = Unique(s)[l] => k = l
  <2> SUFFICES ASSUME NEW k \in 1..n, NEW l \in 1..n, k < l
               PROVE  Unique(s)[k] # Unique(s)[l]
    BY <1>6
  <2> QED
    BY <1>5, <1>7, <1>8
<1>10. /\ \A k \in 1..n : \E i \in DOMAIN s : Unique(s)[k] = s[i]
       /\ \A i \in DOMAIN s : \E k \in 1..n : Unique(s)[k] = s[i]
  <2>1. \A k \in 1..n : place(k) \in DOMAIN s /\ Unique(s)[k] = s[place(k)]
    BY <1>2, <1>7
  <2>2. \A i \in firsts : \E k \in 1..n : Unique(s)[k] = s[i]
    BY <1>3, <1>6
  <2> QED
    BY <1>4, <2>1, <2>2
<1> QED
  BY <1>3, <1>6, <1>9, <1>10

LEMMA RankingIsSeq ==
  ASSUME NEW result \in Result
  PROVE  \E n \in Nat : DOMAIN RankedQids(result) = 1..n
<1>1. CASE result.candidates = <<>>
  <2>1. DOMAIN result.matches = 1..Len(result.matches) /\ Len(result.matches) \in Nat
    BY DEF Result
  <2>2. DOMAIN RankedQids(result) = DOMAIN result.matches
    BY <1>1 DEF RankedQids
  <2> QED
    BY <2>1, <2>2
<1>2. CASE result.candidates # <<>>
  <2> DEFINE of(d) == IF d.type = "qid" THEN <<d.id>> ELSE QidsFor[d.id]
             all   == [i \in DOMAIN result.candidates |-> of(result.candidates[i])]
  <2>1. result.candidates \in Seq(Doc)
    BY DEF Result
  <2>2. ASSUME NEW d \in Doc PROVE of(d) \in Seq(Known)
    <3>1. CASE d \in [type : {"qid"}, id : Known]
      BY <3>1
    <3>2. CASE d \in [type : {"cve"}, id : Held]
      <4>1. d.id \in Cves /\ d.type = "cve"
        BY <3>2, ArtifactAssumption
      <4> QED
        BY <4>1, ArtifactAssumption
    <3> QED
      BY <3>1, <3>2 DEF Doc
  <2>3. all \in Seq(Seq(Known))
    <3>1. PICK m \in Nat : result.candidates \in [1..m -> Doc]
      BY <2>1
    <3> HIDE DEF of
    <3>2. all \in [1..m -> Seq(Known)]
      BY <2>2, <3>1
    <3> HIDE DEF all
    <3>3. \A X : \A f \in [1..m -> X] : f \in Seq(X)
      OBVIOUS
    <3> QED
      BY <3>2, <3>3
  <2>4. RankedQids(result) = Unique(FlattenSeq(all))
    BY <1>2 DEF RankedQids
  <2> HIDE DEF all
  <2> QED
    BY <2>3, <2>4, FlattenedIsSeq, UniqueKeepsFirsts
<1> QED
  BY <1>1, <1>2

(* Recall, precision and rank look at the same ranking: there is gold near  *)
(* the top or there is none.                                                *)
LEMMA MeasuresAgree ==
  ASSUME NEW ranked, NEW n \in Nat, DOMAIN ranked = 1..n, NEW gold
  PROVE  /\ RecallAtK(ranked, gold) <=> PrecisionAtK(ranked, gold).hits > 0
         /\ RecallAtK(ranked, gold) <=> ReciprocalRank(ranked, gold) \in 1..Cutoff
         /\ PrecisionAtK(ranked, gold).hits <= PrecisionAtK(ranked, gold).of
<1> DEFINE top  == Considered(ranked)
           hits == {i \in top : ranked[i] \in gold}
<1>1. /\ IsFiniteSet(top) /\ IsFiniteSet(hits)
      /\ Cardinality(top) \in Nat /\ Cardinality(hits) \in Nat
      /\ Cardinality(hits) <= Cardinality(top)
  <2>1. IsFiniteSet(1..n)
    BY FS_Interval
  <2>2. top \subseteq 1..n
    BY DEF Considered
  <2>3. IsFiniteSet(top)
    BY <2>1, <2>2, FS_Subset
  <2>4. hits \subseteq top
    OBVIOUS
  <2> HIDE DEF top, hits
  <2> QED
    BY <2>3, <2>4, FS_Subset, FS_CardinalityType
<1>2. Cardinality(hits) > 0 <=> hits # {}
  <2> HIDE DEF hits
  <2> QED
    BY <1>1, FS_EmptySet
<1>3. RecallAtK(ranked, gold) <=> hits # {}
  BY DEF RecallAtK
<1>4. /\ RecallAtK(ranked, gold) <=> PrecisionAtK(ranked, gold).hits > 0
      /\ PrecisionAtK(ranked, gold).hits <= PrecisionAtK(ranked, gold).of
  <2>1. CASE ranked = <<>>
    <3>1. PrecisionAtK(ranked, gold) = [hits |-> 0, of |-> 1]
      BY <2>1 DEF PrecisionAtK, Zero
    <3>2. hits = {}
      BY <2>1 DEF Considered
    <3> QED
      BY <1>3, <3>1, <3>2
  <2>2. CASE ranked # <<>>
    <3>1. PrecisionAtK(ranked, gold) = [hits |-> Cardinality(hits), of |-> Cardinality(top)]
      BY <2>2 DEF PrecisionAtK
    <3> HIDE DEF hits, top
    <3> QED
      BY <1>1, <1>2, <1>3, <3>1
  <2> QED
    BY <2>1, <2>2
<1> DEFINE golden == {i \in 1..n : ranked[i] \in gold}
<1>5. CASE golden = {}
  <2>1. ReciprocalRank(ranked, gold) = 0
    BY <1>5 DEF ReciprocalRank
  <2>2. hits = {}
    BY <1>5 DEF Considered
  <2> QED
    BY <1>3, <1>4, <2>1, <2>2
<1>6. CASE golden # {}
  <2>1. PICK m \in golden : \A k \in golden : m <= k
    <3>1. golden \in SUBSET Nat
      OBVIOUS
    <3> HIDE DEF golden
    <3> QED
      BY <1>6, <3>1, LeastNumber
  <2> DEFINE First(i) == /\ i \in DOMAIN ranked /\ ranked[i] \in gold
                         /\ \A j \in 1..(i - 1) : ranked[j] \notin gold
  <2>2. First(m)
    BY <2>1
  <2>3. \A i : First(i) => i = m
    BY <2>1
  <2>4. ReciprocalRank(ranked, gold) = CHOOSE i \in DOMAIN ranked : ranked[i] \in gold
                                      /\ \A j \in 1..(i - 1) : ranked[j] \notin gold
    BY <1>6 DEF ReciprocalRank
  <2>5. ReciprocalRank(ranked, gold) = m
    <3>1. First(CHOOSE i \in DOMAIN ranked : ranked[i] \in gold
                                      /\ \A j \in 1..(i - 1) : ranked[j] \notin gold)
      BY <2>2
    <3> HIDE DEF First
    <3> QED
      BY <2>3, <2>4, <3>1
  <2>6. hits # {} <=> m \in 1..Cutoff
    <3>1. Cutoff \in Nat
      BY ArtifactAssumption
    <3> QED
      BY <2>1, <3>1 DEF Considered
  <2> QED
    BY <1>3, <1>4, <2>5, <2>6
<1> QED
  BY <1>5, <1>6

LEMMA ScoresAgree ==
  ASSUME NEW q, NEW result \in Result
  PROVE  RanksAgree(Score(q, result))
<1> DEFINE gold   == ToSet(q.qids)
           ranked == RankedQids(result)
           score  == Score(q, result)
<1>1. /\ score.recall \subseteq {RecallAtK(ranked, gold)}
      /\ score.precision \subseteq {PrecisionAtK(ranked, gold)}
      /\ score.rank \subseteq {ReciprocalRank(ranked, gold)}
  BY DEF Score
<1>2. PICK n \in Nat : DOMAIN ranked = 1..n
  BY RankingIsSeq
<1>3. /\ RecallAtK(ranked, gold) <=> PrecisionAtK(ranked, gold).hits > 0
      /\ RecallAtK(ranked, gold) <=> ReciprocalRank(ranked, gold) \in 1..Cutoff
      /\ PrecisionAtK(ranked, gold).hits <= PrecisionAtK(ranked, gold).of
  <2> HIDE DEF ranked, gold
  <2> QED
    BY <1>2, MeasuresAgree
<1> HIDE DEF score, ranked, gold
<1>4. RanksAgree(score)
  BY <1>1, <1>3 DEF RanksAgree
<1> QED
  BY <1>4 DEF score

LEMMA AlwaysScored == Spec => []Scored
<1>1. Init => Scored
  BY DEF Init, Scored
<1> QED
  BY <1>1, ScoredKept, Invariance, PTL DEF Spec

(* A question set that validates can be scored, whatever the artifact and   *)
(* whatever the retriever returns: no metric raises, a negative is scored   *)
(* for abstention alone, and matching what the gold says, or all the QIDs   *)
(* of a CVE it names, is never marked down for its hosts.                   *)
THEOREM ValidGoldIsEnough == Spec => []GoldIsEnough
<1>1. IInv /\ Scored => GoldIsEnough
  <2> SUFFICES ASSUME IInv, Scored PROVE GoldIsEnough
    OBVIOUS
  <2>1. Command = "eval" /\ row > 0 => raised # "ValueError"
    BY DEF IInv, CommandInv, Checked
  <2>2. ASSUME last # None PROVE GoldCounts(last.question, last.result, last.score)
    <3>1. PICK n \in DOMAIN process.questions, result \in Results :
            last = [question |-> process.questions[n], result |-> result,
                    score |-> Score(process.questions[n], result)]
      BY <2>2 DEF Scored
    <3>2. process.questions[n] \in Question
      <4>1. process.questions \in Seq(Question)
        BY <2>2, CommandFacts DEF IInv, Process, Scored
      <4> QED
        BY <4>1
    <3>3. GoldIsSound(process.questions[n])
      BY <2>2 DEF Scored, Valid
    <3>4. result \in Result
      BY ProcessAssumption
    <3> QED
      BY <3>1, <3>2, <3>3, <3>4, SoundGoldIsEnough
  <2> QED
    BY <2>1, <2>2 DEF GoldIsEnough
<1> QED
  BY <1>1, Invariance, AlwaysScored, PTL

(* And the columns of a score agree: whoever finds no gold near the top     *)
(* gets no credit for it in any of them, however many ids the ranking holds *)
(* and however often a QID comes up in it.                                  *)
THEOREM ScoresAreFair == Spec => []ScoringIsFair
<1>1. GoldIsEnough /\ Scored => ScoringIsFair
  <2> SUFFICES ASSUME Scored, last # None PROVE RanksAgree(last.score)
    BY DEF ScoringIsFair
  <2>1. PICK n \in DOMAIN process.questions, result \in Results :
          last.score = Score(process.questions[n], result)
    BY DEF Scored
  <2>2. result \in Result
    BY ProcessAssumption
  <2> QED
    BY <2>1, <2>2, ScoresAgree
<1> QED
  BY <1>1, ValidGoldIsEnough, AlwaysScored, PTL
=============================================================================
