---------------------------- MODULE AsyncAnalysis ----------------------------
(***************************************************************************)
(* One run of ai_cli from the plugin's analyze to the end of the process.  *)
(* The main thread drives the coroutine chain analyze -> query ->          *)
(* perform_async_post with Task::get, which resumes it once and then polls *)
(* its done flag; after the first suspension the chain runs on the polling *)
(* thread of CurlMultiManager, which is the component composed in here.    *)
(* HttpLLMClient::query tries the configured models one after the other:   *)
(* request k is the attempt with the k-th model.                           *)
(***************************************************************************)
EXTENDS Naturals, CurlMultiManager

CONSTANTS MaxModels,    \* bound on the models configured (the program reads 10)
          Loaded        \* what m_schema may be: "empty" in ai_cli, which never
                        \* calls init; after an init also "usable" or "unusable"

VARIABLES
  plugin,       \* the plugin in use: how its analyze treats what it parses
  input,        \* "object": a JSON object with texts in it, or plain text, which
                \* main wraps into one; "other": any other JSON
  models,       \* how many models are configured
  m_schema,     \* BasePlugin::m_schema
  mpc,          \* the main thread
  cpc,          \* the coroutine chain
  runner,       \* the thread the chain runs on
  attempt,      \* the model query is at
  result,       \* promise().result of analyze: None, 0 for an error, or the
                \* attempt whose content it holds
  taken,        \* what Task::get returned to main
  frame_alive,  \* the coroutine frame of analyze exists
  loaded,       \* the plugin's library is mapped
  aborted       \* std::terminate, or a crash of undefined behaviour

setup == <<plugin, input, models, m_schema>>
life == <<taken, frame_alive, loaded>>
allvars == <<vars, setup, mpc, cpc, runner, attempt, result, life, aborted>>

-----------------------------------------------------------------------------
(* What can come back, and what is made of it                              *)

\* A failed transfer; a status of 400 or more; JSON with an "error"; JSON
\* without choices[0].message.content, or no JSON; and three kinds of content:
\* no JSON, JSON that does not match the plugin's schema, JSON that does.
Replies == {"curl_error", "http_error", "api_error", "garbled",
            "text", "mismatch", "valid"}

\* Request k is the attempt with the k-th model.
ASSUME AnalysisAssumption ==
  /\ MaxModels \in Nat /\ Requests = 1 .. MaxModels
  /\ Outcomes = Replies
  /\ Loaded \subseteq {"empty", "usable", "unusable"}

\* HttpAwaitable::await_resume returns a value, not an error.
await_resume(o) == o \notin {"curl_error", "http_error"}

\* query finds a content; otherwise it goes on to the next model.
HasContent(o) == await_resume(o) /\ o \notin {"api_error", "garbled"}

\* A plugin's analyze: does it catch the parse error of a content that is not
\* JSON, and does it accept an input that is not an object?
Embeddings == [guarded |-> FALSE, any_input |-> TRUE]
Keywords == [guarded |-> FALSE, any_input |-> TRUE]
Normalization == [guarded |-> FALSE, any_input |-> TRUE]
PromptOpt == [guarded |-> FALSE, any_input |-> TRUE]
QA == [guarded |-> TRUE, any_input |-> FALSE]
SbomHeuristic == [guarded |-> TRUE, any_input |-> TRUE]
Summarization == [guarded |-> TRUE, any_input |-> TRUE]
TextAnalysis == [guarded |-> TRUE, any_input |-> TRUE]
TextOptimization == [guarded |-> TRUE, any_input |-> TRUE]

Plugins == {Embeddings, Keywords, Normalization, PromptOpt, QA, SbomHeuristic,
            Summarization, TextAnalysis, TextOptimization}

\* Mutant: a schema that cannot be used is treated as none.
ValidateUsable(o) == m_schema # "usable" \/ o = "valid"

\* Without a schema everything is valid, with one that cannot be used nothing is.
validate_output(o) == m_schema = "empty" \/ (m_schema = "usable" /\ o = "valid")

AnalysisTypeOK ==
  /\ TypeOK
  /\ plugin \in Plugins
  /\ input \in {"object", "other"}
  /\ models \in 0 .. MaxModels
  /\ m_schema \in Loaded
  /\ mpc \in {"start", "resuming", "poll", "taken", "freed", "closed", "exit", "over"}
  /\ cpc \in {"created", "pick", "awaiting", "judge", "reply", "final", "ended"}
  /\ runner \in {"main", "worker", "none"}
  /\ attempt \in 0 .. MaxModels
  /\ result \in Requests \cup {0, None}
  /\ taken \in Requests \cup {0, None}
  /\ frame_alive \in BOOLEAN
  /\ loaded \in BOOLEAN
  /\ aborted \in BOOLEAN

AnalysisInit ==
  /\ Init
  /\ plugin \in Plugins
  /\ input \in {"object", "other"}
  /\ models \in 0 .. MaxModels
  /\ m_schema \in Loaded
  /\ mpc = "start"
  /\ cpc = "created"
  /\ runner = "none"
  /\ attempt = 0
  /\ result = None
  /\ taken = None
  /\ frame_alive = TRUE
  /\ loaded = TRUE
  /\ aborted = FALSE

-----------------------------------------------------------------------------
(* The coroutine chain, on whatever thread resumed it                      *)

\* Task::get resumes the chain: analyze parses its input and awaits query.  An
\* exception leaves the coroutine through unhandled_exception.
GetResumes ==
  /\ mpc = "start"
  /\ mpc' = "resuming"
  /\ runner' = "main"
  /\ IF input = "object" \/ plugin.any_input
       THEN cpc' = "pick" /\ UNCHANGED aborted
       ELSE aborted' = TRUE /\ UNCHANGED cpc
  /\ UNCHANGED <<vars, setup, attempt, result, life>>

\* A coroutine step other than those that reach the manager.
Step == UNCHANGED <<vars, setup, mpc, runner, life>>

\* Mutant: the loop goes one model too far.
NoHandlePastEnd ==
  /\ cpc = "pick"
  /\ attempt <= models
  /\ attempt' = attempt + 1
  /\ UNCHANGED <<cpc, result, aborted>> /\ Step

\* query: the next model; curl_easy_init may fail, which counts as a failed request.
NoHandle ==
  /\ cpc = "pick"
  /\ attempt < models
  /\ attempt' = attempt + 1
  /\ UNCHANGED <<cpc, result, aborted>> /\ Step

\* Mutant: query does not await the request.
AskWithoutAwait ==
  /\ cpc = "pick"
  /\ attempt < models
  /\ attempt' = attempt + 1
  /\ \E h \in Easy :
       \/ runner = "main" /\ Start(attempt', h)
       \/ runner = "worker" /\ Chain(attempt', h)
  /\ UNCHANGED <<cpc, runner, setup, mpc, result, life, aborted>>

\* query: the next model is asked, by the thread the chain is running on, and
\* the chain is suspended on its reply.
Ask ==
  /\ cpc = "pick"
  /\ attempt < models
  /\ attempt' = attempt + 1
  /\ \E h \in Easy :
       \/ runner = "main" /\ Start(attempt', h)
       \/ runner = "worker" /\ Chain(attempt', h)
  /\ cpc' = "awaiting"
  /\ runner' = "none"
  /\ UNCHANGED <<setup, mpc, result, life, aborted>>

\* query: no model is left (or none was configured).
OutOfModels ==
  /\ cpc = "pick"
  /\ attempt = models
  /\ result' = 0
  /\ cpc' = "final"
  /\ UNCHANGED <<attempt, aborted>> /\ Step

\* Mutant: an "error" in the reply is not looked for.
JudgeTransferOnly ==
  /\ cpc = "judge"
  /\ cpc' = IF await_resume(res[attempt]) THEN "reply" ELSE "pick"
  /\ UNCHANGED <<attempt, result, aborted>> /\ Step

\* query: the reply of the attempt either has a content, or the loop goes on.
Judge ==
  /\ cpc = "judge"
  /\ cpc' = IF HasContent(res[attempt]) THEN "reply" ELSE "pick"
  /\ UNCHANGED <<attempt, result, aborted>> /\ Step

\* analyze: the content is parsed and validated, and the result stored in the
\* promise; the frame is then at its final suspension point, and done() is true.
Reply ==
  /\ cpc = "reply"
  /\ IF body[attempt] = "text" /\ ~plugin.guarded
       THEN aborted' = TRUE /\ UNCHANGED <<cpc, result>>
       ELSE /\ cpc' = "final"
            /\ result' = IF body[attempt] # "text" /\ validate_output(body[attempt])
                           THEN attempt ELSE 0
            /\ UNCHANGED aborted
  /\ UNCHANGED attempt /\ Step

\* FinalAwaiter::await_suspend reads promise().caller and hands over to the
\* caller; in a frame that is destroyed, or a library that is unmapped, it may
\* crash.
FinalSuspend ==
  /\ cpc = "final"
  /\ \/ cpc' = "ended" /\ runner' = "none" /\ UNCHANGED aborted
     \/ ~(frame_alive /\ loaded) /\ aborted' = TRUE /\ UNCHANGED <<cpc, runner>>
  /\ UNCHANGED <<vars, setup, mpc, attempt, result, life>>

Coroutine == NoHandle \/ Ask \/ OutOfModels \/ Judge \/ Reply \/ FinalSuspend

-----------------------------------------------------------------------------
(* The polling thread, and the main thread inside add_request              *)

Idle == UNCHANGED <<setup, mpc, cpc, runner, attempt, result, life, aborted>>

\* The polling thread takes the chain up again: perform_async_post ends and
\* query continues, with the polling thread still inside resume().
Continue ==
  /\ Finish
  /\ cpc' = "judge"
  /\ runner' = "worker"
  /\ UNCHANGED <<setup, mpc, attempt, result, life, aborted>>

\* resume() returns to the polling thread when the chain has ended.
Return == cpc = "ended" /\ Back /\ Idle

Worker == \/ /\ \/ Check \/ Perform \/ Read \/ Detach \/ Resume
                \/ Decide \/ Wake
                \/ \E r \in Requests : Nested(r) /\ Add(r)
             /\ Idle
          \/ Continue
          \/ Return

\* The main thread registers the first request.
Register == /\ \E r \in Requests : ~Nested(r) /\ (Construct(r) \/ Add(r))
            /\ Idle

-----------------------------------------------------------------------------
(* The main thread                                                         *)

done == cpc \in {"final", "ended"}

\* resume() returns to Task::get: the chain has ended on the main thread, or it
\* is suspended and add_request has returned.
ResumeReturns ==
  /\ mpc = "resuming"
  /\ runner # "main" /\ Quiet
  /\ mpc' = "poll"
  /\ UNCHANGED <<vars, setup, cpc, runner, attempt, result, life, aborted>>

\* Mutant: get() does not wait for the coroutine.
TakeAtOnce ==
  /\ mpc = "poll"
  /\ taken' = result
  /\ mpc' = "taken"
  /\ UNCHANGED <<vars, setup, cpc, runner, attempt, result, frame_alive, loaded, aborted>>

\* Task::get: the polling of done() ends and the result is moved out.
Take ==
  /\ mpc = "poll"
  /\ done
  /\ taken' = result
  /\ mpc' = "taken"
  /\ UNCHANGED <<vars, setup, cpc, runner, attempt, result, frame_alive, loaded, aborted>>

\* The end of main, in reverse order of the declarations: ~Task destroys the
\* frame of analyze, ~PluginManager closes the library ...
DestroyFrame ==
  /\ mpc = "taken"
  /\ mpc' = "freed"
  /\ frame_alive' = FALSE
  /\ UNCHANGED <<vars, setup, cpc, runner, attempt, result, taken, loaded, aborted>>

CloseLibrary ==
  /\ mpc = "freed"
  /\ mpc' = "closed"
  /\ loaded' = FALSE
  /\ UNCHANGED <<vars, setup, cpc, runner, attempt, result, taken, frame_alive, aborted>>

\* ... and the static CurlMultiManager, if it was ever constructed, goes last.
Exit ==
  /\ mpc = "closed"
  /\ IF manager = "unborn" THEN mpc' = "over" /\ UNCHANGED vars
                           ELSE mpc' = "exit" /\ Destroy
  /\ UNCHANGED <<setup, cpc, runner, attempt, result, life, aborted>>

Over ==
  /\ mpc = "exit"
  /\ Join
  /\ mpc' = "over"
  /\ UNCHANGED <<setup, cpc, runner, attempt, result, life, aborted>>

Main == GetResumes \/ Register \/ ResumeReturns \/ Take \/ DestroyFrame
        \/ CloseLibrary \/ Exit \/ Over

AnalysisTerminated == (mpc = "over" \/ aborted) /\ UNCHANGED allvars

AnalysisNext == \/ ~aborted /\ (Main \/ Coroutine \/ Worker)
                \/ AnalysisTerminated

AnalysisSpec == AnalysisInit /\ [][AnalysisNext]_allvars

\* Both threads keep running; a transfer ends by its time limit at the latest.
FairAnalysisSpec ==
  /\ AnalysisSpec
  /\ WF_allvars(~aborted /\ Main)
  /\ WF_allvars(~aborted /\ Coroutine)
  /\ WF_allvars(~aborted /\ Worker)
  /\ \A h \in Easy : SF_allvars(/\ ~aborted /\ Idle
                                /\ \E F \in SUBSET Running :
                                     h \in F /\ PerformEnding(F))

-----------------------------------------------------------------------------
(* Properties                                                              *)

\* Task::get has returned.
Got == mpc \in {"taken", "freed", "closed", "exit", "over"}

\* The attempt brought nothing: no easy handle, or a reply without a content.
Failed(k) == frame[k] = "idle" \/ (frame[k] = "finished" /\ ~HasContent(res[k]))

\* The first model in the order of priority whose reply has a content decides: its
\* content is v, or v is an error if the plugin refuses it; and v is an error if
\* there is no such model.
Decides(v) ==
  \/ /\ v = 0
     /\ \A k \in 1 .. models : Failed(k)
  \/ \E k \in 1 .. models :
       /\ \A j \in 1 .. k - 1 : Failed(j)
       /\ frame[k] = "finished" /\ HasContent(res[k])
       /\ \A j \in k + 1 .. MaxModels : frame[j] = "idle"
       /\ v = IF body[k] = "text" \/ ~validate_output(body[k]) THEN 0 ELSE k

\* get() returns no earlier than the result is there (CHANGELOG.md:18), and what
\* main gets is decided by the models in their order (query,
\* http_llm_client.cpp:86-121), whichever threads the attempts ran on.
FirstSuccessDecides == Got => Decides(taken)

\* The models are asked one at a time: while an attempt is outstanding no other
\* one is, and the chain is not running.
OneAttemptAtATime ==
  \A k \in Requests : frame[k] \in {"suspended", "resumed"} =>
    /\ k = attempt
    /\ cpc = "awaiting"
    /\ \A j \in Requests \ {k} : frame[j] \in {"idle", "finished"}

\* When main has the result, every request was cleaned up: no handle is leaked,
\* and neither the map nor the multi handle knows one (http_llm_client.cpp:78
\* before co_return, curl_multi_manager.hpp:107-109 before resume).
NothingLeftBehind ==
  Got =>
    /\ \A k \in Requests : handle[k] = None /\ frame[k] \in {"idle", "finished"}
    /\ \A h \in Easy : m_continuations[h] = None /\ transfer[h] = "detached"
    /\ done_msgs = {}

\* Unless the process aborts, main comes to its end: get() returns and the join
\* of the polling thread too.
MainEnds == <>(mpc = "over" \/ aborted)

\* The frame of analyze, and the library its code is in, outlive the last step
\* of the coroutine on the polling thread.
FrameOutlivesItsUse == cpc = "final" => frame_alive /\ loaded

\* A content that main prints as the result matched the plugin's schema.
OutputIsValidated == taken \in Requests => body[taken] = "valid"

\* After an init that loaded a schema that is so: a content that does not match is
\* refused on whichever thread and attempt it came, and one that cannot be checked
\* at all is refused too (schema_validator_util.hpp:49-65).
ValidatedOnceLoaded ==
  m_schema # "empty" /\ taken \in Requests => m_schema = "usable" /\ body[taken] = "valid"
=============================================================================
