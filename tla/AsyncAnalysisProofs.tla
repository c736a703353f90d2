-------------------------- MODULE AsyncAnalysisProofs --------------------------
(***************************************************************************)
(* For any number of models, easy handles and replies, on whichever thread *)
(* each attempt runs: what main gets from Task::get, and that nothing is   *)
(* left behind.  Every step of the program is a step of CurlMultiManager   *)
(* or leaves it alone, so its inductive invariant IInv holds here too, and *)
(* the chain's own invariant rests on it.                                  *)
(***************************************************************************)
EXTENDS AsyncAnalysis, CurlMultiManagerProofs

\* The attempts so far: those before the present one failed, those after it have
\* not been made, and only the present one can be outstanding.
AttemptsInv ==
  /\ \A k \in Requests : /\ k < attempt => Failed(k)
                         /\ k > attempt => frame[k] = "idle"
                         /\ frame[k] \in {"suspended", "resumed"} => cpc = "awaiting"
  /\ cpc \in {"created", "pick"} => \A k \in Requests : k = attempt => Failed(k)

\* Where the chain is, and what it has of the present attempt.
ChainInv ==
  /\ attempt <= models
  /\ cpc = "awaiting" => /\ attempt \in Requests
                         /\ frame[attempt] \in {"suspended", "resumed"}
  /\ cpc \in {"judge", "reply"} => attempt \in Requests /\ frame[attempt] = "finished"
  /\ cpc = "reply" => HasContent(res[attempt])
  /\ cpc \in {"final", "ended"} => Decides(result)

\* What main knows of the chain.
MainInv ==
  /\ mpc = "start" => cpc = "created"
  /\ Got => cpc \in {"final", "ended"} /\ taken = result
  /\ ~Got => taken = None

AInv == /\ AnalysisTypeOK /\ IInv
        /\ AttemptsInv /\ ChainInv /\ MainInv

chain == <<cpc, attempt, result>>

\* An attempt that is outstanding is the present one.
LEMMA OutstandingIsPresent ==
  ASSUME AInv, NEW k \in Requests, frame[k] \in {"suspended", "resumed"}
  PROVE  k = attempt /\ cpc = "awaiting"
<1>1. k \in Nat /\ attempt \in Nat
  BY AnalysisAssumption DEF AInv, AnalysisTypeOK
<1>2. ~(k < attempt) /\ ~(k > attempt)
  BY DEF AInv, AttemptsInv, Failed
<1>. QED BY <1>1, <1>2 DEF AInv, AttemptsInv

-----------------------------------------------------------------------------
(* What the manager's steps do to the attempts                             *)

\* Each step of the program is one of the manager, or leaves the manager alone.
LEMMA StepsOfManager ==
  ASSUME AnalysisTypeOK, [AnalysisNext]_allvars
  PROVE  [Next]_vars
<1>1. CASE Main
  BY <1>1 DEF Main, GetResumes, Register, ResumeReturns, Take, DestroyFrame, CloseLibrary, Exit,
              Over, Next
<1>2. CASE Coroutine
  <2>1. CASE Ask
    <3>1. attempt' \in Requests
      BY <2>1, AnalysisAssumption DEF AnalysisTypeOK, Ask
    <3>. QED BY <2>1, <3>1 DEF Ask, Next
  <2>. QED BY <1>2, <2>1 DEF Coroutine, NoHandle, OutOfModels, Judge, Reply, FinalSuspend, Step
<1>3. CASE Worker
  BY <1>3 DEF Worker, Continue, Return, Next
<1>4. CASE AnalysisTerminated \/ UNCHANGED allvars
  BY <1>4 DEF AnalysisTerminated, allvars
<1>. QED BY <1>1, <1>2, <1>3, <1>4 DEF AnalysisNext

\* A request that is not awaited stays as it is, whatever the polling thread and
\* add_request do; one that is awaited stays so until its coroutine goes on.
LEMMA Settled ==
  ASSUME IInv, NEW r \in Requests,
         \/ \E q \in Requests : Construct(q) \/ Add(q)
         \/ Check \/ Perform \/ Read \/ Detach \/ Resume \/ Back \/ Decide \/ Wake
         \/ Destroy \/ Join
  PROVE  /\ frame[r] \in {"idle", "finished"} =>
              frame'[r] = frame[r] /\ res'[r] = res[r] /\ body'[r] = body[r]
         /\ frame[r] \in {"suspended", "resumed"} => frame'[r] \in {"suspended", "resumed"}
<1>1. CASE Perform
  <2>1. PICK F \in SUBSET Running : PerformEnding(F)
    BY <1>1 DEF Perform
  <2>2. handle[r] \in F => frame[r] \in {"suspended", "resumed"}
    BY <2>1, ManagerAssumption DEF IInv, TypeOK, HandleInv, Running
  <2>3. handle[r] \notin F => body'[r] = body[r]
    BY <2>1 DEF PerformEnding
  <2>4. frame' = frame /\ res' = res
    BY <2>1 DEF PerformEnding, app
  <2>. QED BY <2>2, <2>3, <2>4
<1>2. CASE Resume
  <2>1. /\ frame' = [frame EXCEPT ![current] = "resumed"]
        /\ res' = [res EXCEPT ![current] = msg.res]
        /\ body' = body
    BY <1>2 DEF Resume, curl
  <2>2. frame[current] = "suspended"
    BY <1>2 DEF Resume, IInv, CurrentInv
  <2>. QED BY <2>1, <2>2 DEF IInv, TypeOK
<1>3. CASE \/ \E q \in Requests : Construct(q) \/ Add(q)
           \/ Check \/ Read \/ Detach \/ Back \/ Decide \/ Wake \/ Destroy \/ Join
  <2>1. UNCHANGED <<frame, res, body>>
    BY <1>3 DEF Construct, Add, AddLock, AddAttach, AddWakeup, Check, Read, Detach, Back, Decide,
                Wake, Destroy, Join, app, curl
  <2>. QED BY <2>1
<1>. QED BY <1>1, <1>2, <1>3

\* Such a step leaves the chain's invariant as it is.
LEMMA SettledPreserves ==
  ASSUME AInv, IInv', UNCHANGED <<setup, chain>>,
         \A r \in Requests :
            /\ frame[r] \in {"idle", "finished"} =>
                 frame'[r] = frame[r] /\ res'[r] = res[r] /\ body'[r] = body[r]
            /\ frame[r] \in {"suspended", "resumed"} => frame'[r] \in {"suspended", "resumed"}
  PROVE  AttemptsInv' /\ ChainInv'
<1>1. \A k \in Requests : frame[k] \in {"idle", "suspended", "resumed", "finished"}
  BY DEF AInv, IInv, TypeOK
<1>2. \A k \in Requests : Failed(k) => Failed(k)'
  BY DEF Failed
<1>3. AttemptsInv'
  BY <1>1, <1>2 DEF AInv, AttemptsInv, chain
<1>4. cpc \in {"final", "ended"} => Decides(result)'
  <2>. SUFFICES ASSUME cpc \in {"final", "ended"} PROVE Decides(result)'
    OBVIOUS
  <2>1. 1 .. models \subseteq Requests /\ models' = models /\ m_schema' = m_schema /\ result' = result
    BY AnalysisAssumption DEF AInv, AnalysisTypeOK, setup, chain
  <2>2. CASE result = 0 /\ \A k \in 1 .. models : Failed(k)
    BY <1>2, <2>1, <2>2 DEF Decides
  <2>3. CASE \E k \in 1 .. models :
       /\ \A j \in 1 .. k - 1 : Failed(j)
       /\ frame[k] = "finished" /\ HasContent(res[k])
       /\ \A j \in k + 1 .. MaxModels : frame[j] = "idle"
       /\ result = IF body[k] = "text" \/ ~validate_output(body[k]) THEN 0 ELSE k
    <3>1. PICK k \in 1 .. models :
       /\ \A j \in 1 .. k - 1 : Failed(j)
       /\ frame[k] = "finished" /\ HasContent(res[k])
       /\ \A j \in k + 1 .. MaxModels : frame[j] = "idle"
       /\ result = IF body[k] = "text" \/ ~validate_output(body[k]) THEN 0 ELSE k
      BY <2>3
    <3>2. k \in Requests /\ 1 .. k - 1 \subseteq Requests /\ k + 1 .. MaxModels \subseteq Requests
      BY <2>1, AnalysisAssumption DEF AInv, AnalysisTypeOK
    <3>3. frame'[k] = "finished" /\ res'[k] = res[k] /\ body'[k] = body[k]
      BY <3>1, <3>2
    <3>4. \A j \in 1 .. k - 1 : Failed(j)'
      BY <1>2, <3>1, <3>2
    <3>5. \A j \in k + 1 .. MaxModels : frame'[j] = "idle"
      BY <3>1, <3>2
    <3>6. result' = IF body'[k] = "text" \/ ~validate_output(body[k])' THEN 0 ELSE k
      BY <2>1, <3>1, <3>3 DEF validate_output
    <3>. QED BY <2>1, <3>1, <3>3, <3>4, <3>5, <3>6 DEF Decides, HasContent, await_resume
  <2>. QED BY <2>2, <2>3 DEF AInv, ChainInv, Decides
<1>5. ChainInv'
  BY <1>1, <1>4 DEF AInv, ChainInv, chain, setup, HasContent, await_resume
<1>. QED BY <1>3, <1>5


-----------------------------------------------------------------------------
(* One lemma per group of actions                                          *)

\* Steps that leave the chain where it is: those of the polling thread other than
\* its going on with the chain, and all of main's.
LEMMA ManagerStepPreserves ==
  ASSUME AInv, IInv', Main \/ Worker, ~GetResumes, ~Continue
  PROVE  AInv'
<1>1. UNCHANGED <<setup, chain>>
  BY DEF Main, Register, ResumeReturns, Take, DestroyFrame, CloseLibrary, Exit, Over, Worker,
         Return, Idle, chain
<1>3. ASSUME NEW r \in Requests
      PROVE
         /\ frame[r] \in {"idle", "finished"} =>
              frame'[r] = frame[r] /\ res'[r] = res[r] /\ body'[r] = body[r]
         /\ frame[r] \in {"suspended", "resumed"} => frame'[r] \in {"suspended", "resumed"}
  <2>1. CASE UNCHANGED vars
    BY <2>1 DEF vars
  <2>2. CASE ~UNCHANGED vars
    BY <2>2, Settled DEF AInv, Main, Register, ResumeReturns, Take, DestroyFrame, CloseLibrary, Exit,
         Over, Worker, Return
  <2>. QED BY <2>1, <2>2
<1>4. AttemptsInv' /\ ChainInv'
  BY <1>1, <1>3, SettledPreserves
<1>5. AnalysisTypeOK'
  <2>1. runner' = runner /\ aborted' = aborted
    BY DEF Main, Register, ResumeReturns, Take, DestroyFrame, CloseLibrary, Exit, Over, Worker,
           Return, Idle
  <2>2. /\ mpc' \in {"start", "resuming", "poll", "taken", "freed", "closed", "exit", "over"}
        /\ taken' \in {taken, result}
    BY DEF AInv, AnalysisTypeOK, Main, Register, ResumeReturns, Take, DestroyFrame, CloseLibrary,
           Exit, Over, Worker, Return, Idle, life
  <2>3. frame_alive' \in BOOLEAN /\ loaded' \in BOOLEAN
    BY DEF AInv, AnalysisTypeOK, Main, Register, ResumeReturns, Take, DestroyFrame, CloseLibrary,
           Exit, Over, Worker, Return, Idle, life
  <2>. QED BY <1>1, <2>1, <2>2, <2>3 DEF AInv, IInv, AnalysisTypeOK, chain, setup
<1>6. MainInv'
  BY <1>1 DEF AInv, MainInv, Got, chain, life, Idle, Main, Register, ResumeReturns, Take,
     DestroyFrame, CloseLibrary, Exit, Over, Worker, Return, done
<1>. QED BY <1>4, <1>5, <1>6 DEF AInv

\* Task::get resumes the chain, which is before its first attempt.
LEMMA GetResumesPreserves ==
  ASSUME AInv, IInv', GetResumes
  PROVE  AInv'
<1>1. frame' = frame /\ res' = res
  BY DEF GetResumes, vars
<1>2. AnalysisTypeOK'
  BY DEF AInv, IInv, AnalysisTypeOK, GetResumes, setup, life
<1>3. AttemptsInv'
  BY <1>1 DEF AInv, AttemptsInv, MainInv, Failed, GetResumes
<1>4. ChainInv'
  BY DEF AInv, ChainInv, MainInv, GetResumes, setup
<1>5. MainInv'
  BY DEF AInv, MainInv, GetResumes, life, Got
<1>. QED BY <1>2, <1>3, <1>4, <1>5 DEF AInv

\* The next attempt has no easy handle and counts as failed.
LEMMA NoHandlePreserves ==
  ASSUME AInv, IInv', NoHandle
  PROVE  AInv'
<1>1. frame' = frame /\ res' = res
  BY DEF NoHandle, Step, vars
<1>2. attempt \in Nat /\ models \in Nat /\ models <= MaxModels /\ attempt < models
  BY AnalysisAssumption DEF AInv, AnalysisTypeOK, NoHandle
<1>3. AnalysisTypeOK'
  BY <1>2, AnalysisAssumption DEF AInv, IInv, AnalysisTypeOK, NoHandle, Step, setup, life
<1>4. AttemptsInv'
  BY <1>1, <1>2, AnalysisAssumption DEF AInv, AttemptsInv, Failed, NoHandle
<1>5. ChainInv'
  BY <1>2 DEF AInv, ChainInv, NoHandle, Step, setup
<1>6. MainInv'
  BY DEF AInv, MainInv, NoHandle, Step, life, Got
<1>. QED BY <1>3, <1>4, <1>5, <1>6 DEF AInv

\* The next attempt is outstanding, and the chain waits for it.
LEMMA AskPreserves ==
  ASSUME AInv, IInv', Ask
  PROVE  AInv'
<1>1. attempt \in Nat /\ models \in Nat /\ models <= MaxModels /\ attempt < models
  BY AnalysisAssumption DEF AInv, AnalysisTypeOK, Ask
<1>2. attempt' = attempt + 1 /\ attempt' \in Requests
  BY <1>1, AnalysisAssumption DEF Ask
<1>3. frame' = [frame EXCEPT ![attempt'] = "suspended"] /\ res' = res
  BY DEF Ask, Start, Chain, Begin
<1>4. AnalysisTypeOK'
  BY <1>1, <1>2, AnalysisAssumption DEF AInv, IInv, AnalysisTypeOK, Ask, setup, life
<1>5. AttemptsInv'
  BY <1>1, <1>2, <1>3, AnalysisAssumption
  DEF AInv, IInv, TypeOK, AttemptsInv, Failed, Ask
<1>6. ChainInv'
  BY <1>1, <1>2, <1>3 DEF AInv, IInv, TypeOK, ChainInv, Ask, setup
<1>7. MainInv'
  BY DEF AInv, MainInv, Ask, life, Got
<1>. QED BY <1>4, <1>5, <1>6, <1>7 DEF AInv

\* Every model was tried, and every attempt failed.
LEMMA OutOfModelsPreserves ==
  ASSUME AInv, IInv', OutOfModels
  PROVE  AInv'
<1>1. frame' = frame /\ res' = res /\ models' = models
  BY DEF OutOfModels, Step, vars, setup
<1>2. attempt \in Nat /\ models \in Nat /\ models <= MaxModels /\ attempt = models
  BY AnalysisAssumption DEF AInv, AnalysisTypeOK, OutOfModels
<1>3. AnalysisTypeOK'
  BY DEF AInv, IInv, AnalysisTypeOK, OutOfModels, Step, setup, life
<1>4. AttemptsInv'
  BY <1>1 DEF AInv, AttemptsInv, Failed, OutOfModels
<1>5. \A k \in 1 .. models : Failed(k)'
  BY <1>1, <1>2, AnalysisAssumption DEF AInv, AttemptsInv, Failed, OutOfModels
<1>6. ChainInv'
  BY <1>1, <1>2, <1>5 DEF ChainInv, Decides, OutOfModels
<1>7. MainInv'
  BY DEF AInv, MainInv, OutOfModels, Step, life, Got
<1>. QED BY <1>3, <1>4, <1>6, <1>7 DEF AInv

\* The reply has a content, or the attempt is a failed one.
LEMMA JudgePreserves ==
  ASSUME AInv, IInv', Judge
  PROVE  AInv'
<1>1. frame' = frame /\ res' = res
  BY DEF Judge, Step, vars
<1>2. AnalysisTypeOK'
  BY DEF AInv, IInv, AnalysisTypeOK, Judge, Step, setup, life
<1>3. AttemptsInv'
  BY <1>1 DEF AInv, AttemptsInv, ChainInv, Failed, Judge
<1>4. ChainInv'
  BY <1>1 DEF AInv, ChainInv, HasContent, await_resume, Judge, Step, setup
<1>5. MainInv'
  BY DEF AInv, MainInv, Judge, Step, life, Got
<1>. QED BY <1>2, <1>3, <1>4, <1>5 DEF AInv

\* The first content decides.
LEMMA ReplyPreserves ==
  ASSUME AInv, IInv', Reply
  PROVE  AInv'
<1>1. UNCHANGED <<frame, res, body, models, m_schema, attempt>>
  BY DEF Reply, Step, vars, setup
<1>2. attempt \in Requests /\ attempt \in Nat /\ attempt <= models /\ models \in Nat
      /\ models <= MaxModels
  BY AnalysisAssumption DEF AInv, AnalysisTypeOK, ChainInv, Reply
<1>3. AnalysisTypeOK'
  BY <1>2 DEF AInv, IInv, AnalysisTypeOK, Reply, Step, setup, life
<1>4. AttemptsInv'
  BY <1>1 DEF AInv, AttemptsInv, Failed, Reply
<1>5. cpc' = "final" => Decides(result)'
  <2>. SUFFICES ASSUME cpc' = "final" PROVE Decides(result)'
    OBVIOUS
  <2>1. result' = IF body'[attempt] = "text" \/ ~validate_output(body[attempt])' THEN 0 ELSE attempt
    BY <1>1 DEF Reply, validate_output
  <2>2. frame'[attempt] = "finished" /\ HasContent(res[attempt])'
    BY <1>1 DEF AInv, ChainInv, Reply, HasContent, await_resume
  <2>3. \A j \in 1 .. attempt - 1 : Failed(j)'
    BY <1>1, <1>2, AnalysisAssumption DEF AInv, AttemptsInv, Failed
  <2>4. \A j \in attempt + 1 .. MaxModels : frame'[j] = "idle"
    BY <1>1, <1>2, AnalysisAssumption DEF AInv, AttemptsInv
  <2>5. attempt \in 1 .. models'
    BY <1>1, <1>2, AnalysisAssumption
  <2>. QED BY <1>1, <2>1, <2>2, <2>3, <2>4, <2>5 DEF Decides, HasContent, await_resume
<1>6. ChainInv'
  BY <1>1, <1>2, <1>5 DEF AInv, ChainInv, Reply, HasContent, await_resume
<1>7. MainInv'
  BY DEF AInv, MainInv, Reply, Step, life, Got
<1>. QED BY <1>3, <1>4, <1>6, <1>7 DEF AInv

\* The final awaiter changes nothing that main looks at.
LEMMA FinalSuspendPreserves ==
  ASSUME AInv, IInv', FinalSuspend
  PROVE  AInv'
<1>1. UNCHANGED <<frame, res, body, models, m_schema, result>>
  BY DEF FinalSuspend, vars, setup
<1>2. AnalysisTypeOK'
  BY DEF AInv, IInv, AnalysisTypeOK, FinalSuspend, setup, life
<1>3. AttemptsInv'
  BY <1>1 DEF AInv, AttemptsInv, Failed, FinalSuspend
<1>4. Decides(result) => Decides(result)'
  BY <1>1 DEF Decides, Failed, validate_output, HasContent, await_resume
<1>5. ChainInv'
  BY <1>1, <1>4 DEF AInv, ChainInv, FinalSuspend, HasContent, await_resume
<1>6. MainInv'
  BY DEF AInv, MainInv, FinalSuspend, life, Got
<1>. QED BY <1>2, <1>3, <1>5, <1>6 DEF AInv

\* The polling thread goes on with the chain: it was awaiting the one attempt
\* that is outstanding.
LEMMA ContinuePreserves ==
  ASSUME AInv, IInv', Continue
  PROVE  AInv'
<1>1. current \in Requests /\ frame[current] = "resumed"
  BY DEF AInv, IInv, TypeOK, CurrentInv, Continue, Finish
<1>2. cpc = "awaiting" /\ attempt \in Requests /\ current = attempt
  BY <1>1, OutstandingIsPresent
<1>3. frame' = [frame EXCEPT ![attempt] = "finished"] /\ res' = res
  BY <1>2 DEF Continue, Finish
<1>4. AnalysisTypeOK'
  BY DEF AInv, IInv, AnalysisTypeOK, Continue, setup, life
<1>5. AttemptsInv'
  BY <1>2, <1>3, AnalysisAssumption DEF AInv, IInv, TypeOK, AnalysisTypeOK, AttemptsInv, Failed, Continue
<1>6. ChainInv'
  BY <1>2, <1>3 DEF AInv, IInv, TypeOK, ChainInv, Continue, setup
<1>7. MainInv'
  BY <1>2 DEF AInv, MainInv, Continue, life, Got
<1>. QED BY <1>4, <1>5, <1>6, <1>7 DEF AInv

-----------------------------------------------------------------------------

\* ai_cli before it calls analyze.
LEMMA AnalysisInitEstablishes == AnalysisInit => AInv
<1>. SUFFICES ASSUME AnalysisInit PROVE AInv
  OBVIOUS
<1>1. IInv /\ TypeOK
  BY InitEstablishes DEF AnalysisInit, IInv
<1>2. \A r \in Requests : frame[r] = "idle"
  BY DEF AnalysisInit, Init
<1>3. AnalysisTypeOK
  <2>1. attempt \in 0 .. MaxModels
    BY AnalysisAssumption DEF AnalysisInit
  <2>. QED BY <1>1, <2>1 DEF AnalysisInit, AnalysisTypeOK
<1>4. AttemptsInv
  BY <1>2 DEF AnalysisInit, AttemptsInv, Failed
<1>5. ChainInv /\ MainInv
  BY AnalysisAssumption DEF AnalysisInit, ChainInv, MainInv, Got
<1>. QED BY <1>1, <1>3, <1>4, <1>5 DEF AInv

\* No step of either thread breaks the invariant.
LEMMA AnalysisNextPreserves == AInv /\ [AnalysisNext]_allvars => AInv'
<1>. SUFFICES ASSUME AInv, [AnalysisNext]_allvars PROVE AInv'
  OBVIOUS
<1>1. IInv'
  BY StepsOfManager, NextPreserves DEF AInv
<1>2. CASE UNCHANGED allvars
  <2>1. UNCHANGED <<frame, res, body, setup, chain, mpc, taken>>
    BY <1>2 DEF allvars, vars, chain, life
  <2>2. AttemptsInv' /\ ChainInv'
    BY <1>1, <2>1, SettledPreserves
  <2>. QED BY <1>1, <1>2, <2>2 DEF AInv, IInv, AnalysisTypeOK, MainInv, Got, allvars, setup, life
<1>3. CASE AnalysisNext /\ ~UNCHANGED allvars
  BY <1>1, <1>3, ManagerStepPreserves, GetResumesPreserves, NoHandlePreserves, AskPreserves,
     OutOfModelsPreserves, JudgePreserves, ReplyPreserves, FinalSuspendPreserves, ContinuePreserves
  DEF AnalysisNext, AnalysisTerminated, Coroutine
<1>. QED BY <1>2, <1>3

\* AInv holds in every reachable state.
THEOREM AnalysisInvariance == AnalysisSpec => []AInv
BY AnalysisInitEstablishes, AnalysisNextPreserves, PTL DEF AnalysisSpec

\* To CurlMultiManager the rest of the program is one of its environments: what
\* is proved of the manager holds here.
THEOREM ManagerUndisturbed == AnalysisSpec => Spec
<1>1. AnalysisInit => Init
  BY DEF AnalysisInit
<1>2. AInv /\ [AnalysisNext]_allvars => [Next]_vars
  BY StepsOfManager DEF AInv
<1>. QED BY <1>1, <1>2, AnalysisInvariance, PTL DEF AnalysisSpec, Spec

\* Every variable has its type.
THEOREM AnalysisTypeCorrect == AnalysisSpec => []AnalysisTypeOK
<1>1. AInv => AnalysisTypeOK
  BY DEF AInv
<1>. QED BY <1>1, AnalysisInvariance, PTL

\* What Task::get returns was decided by the models in their order, on whichever
\* threads the attempts ran (http_llm_client.cpp:86-121).
THEOREM AlwaysFirstSuccessDecides == AnalysisSpec => []FirstSuccessDecides
<1>1. AInv => FirstSuccessDecides
  BY DEF AInv, ChainInv, MainInv, FirstSuccessDecides
<1>. QED BY <1>1, AnalysisInvariance, PTL

\* No two attempts overlap, and the chain does not run while one is outstanding.
THEOREM AlwaysOneAttempt == AnalysisSpec => []OneAttemptAtATime
<1>1. AInv => OneAttemptAtATime
  BY OutstandingIsPresent DEF AInv, IInv, TypeOK, OneAttemptAtATime
<1>. QED BY <1>1, AnalysisInvariance, PTL

\* When main has the result, no request, handle, continuation or message is left.
THEOREM NeverLeftBehind == AnalysisSpec => []NothingLeftBehind
<1>1. AInv => NothingLeftBehind
  <2>. SUFFICES ASSUME AInv, Got PROVE NothingLeftBehind
    BY DEF NothingLeftBehind
  <2>1. \A k \in Requests : frame[k] \in {"idle", "finished"}
    BY DEF AInv, IInv, TypeOK, AttemptsInv, MainInv
  <2>2. \A k \in Requests : handle[k] = None
    BY <2>1 DEF AInv, IInv, HandleInv
  <2>3. \A h \in Easy : m_continuations[h] = None
    BY <2>1 DEF AInv, IInv, TypeOK, ContinuationInv
  <2>4. \A h \in Easy : transfer[h] = "detached"
    BY <2>3 DEF AInv, IInv, TransferInv
  <2>5. done_msgs = {}
    BY <2>4 DEF AInv, IInv, TypeOK, MessageInv, Messages
  <2>. QED BY <2>1, <2>2, <2>3, <2>4, <2>5 DEF NothingLeftBehind
<1>. QED BY <1>1, AnalysisInvariance, PTL

\* With a schema loaded, a content is returned only if it matches one that can be
\* used (schema_validator_util.hpp:49-65).
THEOREM AlwaysValidatedOnceLoaded == AnalysisSpec => []ValidatedOnceLoaded
<1>1. AInv => ValidatedOnceLoaded
  <2>. SUFFICES ASSUME AInv, m_schema # "empty", taken \in Requests
       PROVE  m_schema = "usable" /\ body[taken] = "valid"
    BY DEF ValidatedOnceLoaded
  <2>1. Decides(taken) /\ taken # 0
    BY ManagerAssumption, AnalysisAssumption DEF AInv, ChainInv, MainInv
  <2>. QED BY <2>1 DEF Decides, validate_output
<1>. QED BY <1>1, AnalysisInvariance, PTL
=============================================================================
