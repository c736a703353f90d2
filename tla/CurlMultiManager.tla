--------------------------- MODULE CurlMultiManager ---------------------------
(***************************************************************************)
(* CurlMultiManager with HttpAwaitable and the coroutine that awaits it    *)
(* (perform_async_post): one polling thread drives a libcurl multi handle, *)
(* any thread may register a suspended coroutine, and the polling thread   *)
(* resumes each coroutine when its transfer is done.  A resumed coroutine  *)
(* runs on the polling thread and may register the next request there.     *)
(*                                                                         *)
(* libcurl itself is external: a transfer attached to the multi handle     *)
(* ends, with some outcome, during some curl_multi_perform, and leaves one *)
(* message.  Calls into the multi handle are atomic with each other.       *)
(***************************************************************************)
CONSTANTS Requests,     \* executions of perform_async_post
          Easy,         \* addresses curl_easy_init can return
          Outcomes,     \* (CURLcode, HTTP status, body) a transfer can end with
          AddMayFail,   \* whether curl_multi_add_handle may fail
          None

ASSUME ManagerAssumption ==
  /\ None \notin Requests /\ None \notin Easy /\ None \notin Outcomes
  /\ AddMayFail \in BOOLEAN

VARIABLES
  manager,         \* lifetime of the static object behind instance()
  m_running,       \* the atomic flag run() tests
  m_mutex,         \* the request whose add_request holds the lock, or None
  m_continuations, \* easy handle -> registered request, or None
  transfer,        \* libcurl: what the multi handle does with an easy handle
  done_msgs,       \* libcurl: messages curl_multi_info_read has yet to return
  frame,           \* the coroutine of each request
  adder,           \* progress of each request's call of add_request
  handle,          \* the easy handle a request owns, or None
  body,            \* HttpResult::response_data (with the status it came with)
  res,             \* HttpResult::res and http_code, None as constructed
  wpc,             \* where the polling thread is in run()
  msg,             \* run(): the message being processed, or None
  current,         \* run(): the continuation taken out of the map, or None
  still_running    \* run(): whether curl_multi_perform left transfers running

app == <<frame, adder, handle>>
curl == <<transfer, done_msgs, body>>
worker == <<wpc, msg, current, still_running>>
vars == <<manager, m_running, m_mutex, m_continuations, transfer, done_msgs,
          frame, adder, handle, body, res, wpc, msg, current, still_running>>

Messages == [easy : Easy, res : Outcomes]

TypeOK ==
  /\ manager \in {"unborn", "alive", "joining", "destroyed"}
  /\ m_running \in BOOLEAN
  /\ m_mutex \in Requests \cup {None}
  /\ m_continuations \in [Easy -> Requests \cup {None}]
  /\ transfer \in [Easy -> {"detached", "running", "finished"}]
  /\ done_msgs \subseteq Messages
  /\ frame \in [Requests -> {"idle", "suspended", "resumed", "finished"}]
  /\ adder \in [Requests -> {"none", "call", "locked", "unlocked", "returned"}]
  /\ handle \in [Requests -> Easy \cup {None}]
  /\ body \in [Requests -> Outcomes \cup {None}]
  /\ res \in [Requests -> Outcomes \cup {None}]
  /\ wpc \in {"unborn", "check", "perform", "read", "detach", "resume",
              "continue", "after", "nested", "decide", "sleep", "wait", "exited"}
  /\ msg \in Messages \cup {None}
  /\ current \in Requests \cup {None}
  /\ still_running \in BOOLEAN

Init ==
  /\ manager = "unborn"
  /\ m_running = FALSE
  /\ m_mutex = None
  /\ m_continuations = [h \in Easy |-> None]
  /\ transfer = [h \in Easy |-> "detached"]
  /\ done_msgs = {}
  /\ frame = [r \in Requests |-> "idle"]
  /\ adder = [r \in Requests |-> "none"]
  /\ handle = [r \in Requests |-> None]
  /\ body = [r \in Requests |-> None]
  /\ res = [r \in Requests |-> None]
  /\ wpc = "unborn"
  /\ msg = None
  /\ current = None
  /\ still_running = FALSE

-----------------------------------------------------------------------------
(* The awaiting coroutine, up to its suspension, and add_request           *)

\* Mutant: one easy handle is reused for every request, without waiting.
SharedHandles == Easy

\* curl_easy_init never returns the address of a handle that is still alive.
FreeHandles == {h \in Easy : \A r \in Requests : handle[r] # h}

\* perform_async_post up to co_await: the handle is made and aimed at the
\* request's own response_data, the coroutine is suspended, and its
\* await_suspend is about to call add_request.
Begin(r, h) ==
  /\ frame[r] = "idle"
  /\ h \in FreeHandles
  /\ frame' = [frame EXCEPT ![r] = "suspended"]
  /\ adder' = [adder EXCEPT ![r] = "call"]
  /\ handle' = [handle EXCEPT ![r] = h]

\* A thread of the application starts a request.
Start(r, h) ==
  /\ manager \in {"unborn", "alive"}
  /\ Begin(r, h)
  /\ UNCHANGED <<manager, m_running, m_mutex, m_continuations, curl, res, worker>>

\* The first call of instance() runs the constructor, which starts the thread.
Construct(r) ==
  /\ manager = "unborn"
  /\ adder[r] = "call"
  /\ manager' = "alive"
  /\ m_running' = TRUE
  /\ wpc' = "check"
  /\ UNCHANGED <<m_mutex, m_continuations, curl, app, res, msg, current, still_running>>

\* Mutant: the handle is stored as the continuation.
AddLockSwapped(r) ==
  /\ manager # "unborn"
  /\ adder[r] = "call"
  /\ m_mutex = None
  /\ m_mutex' = r
  /\ m_continuations' = [m_continuations EXCEPT ![handle[r]] = handle[r]]
  /\ adder' = [adder EXCEPT ![r] = "locked"]
  /\ UNCHANGED <<manager, m_running, curl, frame, handle, res, worker>>

\* add_request: the lock is taken and the continuation stored.
AddLock(r) ==
  /\ manager # "unborn"
  /\ adder[r] = "call"
  /\ m_mutex = None
  /\ m_mutex' = r
  /\ m_continuations' = [m_continuations EXCEPT ![handle[r]] = r]
  /\ adder' = [adder EXCEPT ![r] = "locked"]
  /\ UNCHANGED <<manager, m_running, curl, frame, handle, res, worker>>

\* add_request: the transfer is attached, and the lock released.  The result
\* of curl_multi_add_handle is ignored, so a failure looks like a success.
AddAttach(r) ==
  /\ adder[r] = "locked"
  /\ \/ transfer' = [transfer EXCEPT ![handle[r]] = "running"]
     \/ AddMayFail /\ UNCHANGED transfer
  /\ m_mutex' = None
  /\ adder' = [adder EXCEPT ![r] = "unlocked"]
  /\ UNCHANGED <<manager, m_running, m_continuations, done_msgs, body, frame,
                 handle, res, worker>>

\* The polling thread is the one that runs the coroutine of r in add_request.
Nested(r) == wpc = "nested" /\ current = r

\* add_request: curl_multi_wakeup, which ends no curl_multi_wait and no sleep,
\* and the return; on the polling thread the resume() of run() returns next.
AddWakeup(r) ==
  /\ adder[r] = "unlocked"
  /\ adder' = [adder EXCEPT ![r] = "returned"]
  /\ IF Nested(r) THEN wpc' = "read" /\ current' = None
                  ELSE UNCHANGED <<wpc, current>>
  /\ UNCHANGED <<manager, m_running, m_mutex, m_continuations, curl, frame,
                 handle, res, msg, still_running>>

Add(r) == AddLock(r) \/ AddAttach(r) \/ AddWakeup(r)

-----------------------------------------------------------------------------
(* The polling thread                                                      *)

\* Mutant: the thread ends as soon as nothing is registered.
CheckIdleExit ==
  /\ wpc = "check"
  /\ wpc' = IF m_running /\ \E h \in Easy : m_continuations[h] # None
              THEN "perform" ELSE "exited"
  /\ UNCHANGED <<manager, m_running, m_mutex, m_continuations, curl, app, res,
                 msg, current, still_running>>

\* while (m_running)
Check ==
  /\ wpc = "check"
  /\ wpc' = IF m_running THEN "perform" ELSE "exited"
  /\ UNCHANGED <<manager, m_running, m_mutex, m_continuations, curl, app, res,
                 msg, current, still_running>>

Running == {h \in Easy : transfer[h] = "running"}

\* curl_multi_perform, under the lock: the transfers in F end, each with some
\* outcome; the response goes to the request the handle was aimed at.
PerformEnding(F) ==
  /\ wpc = "perform"
  /\ m_mutex = None
  /\ F \subseteq Running
  /\ \E o \in [F -> Outcomes] :
       /\ done_msgs' = done_msgs \cup {[easy |-> h, res |-> o[h]] : h \in F}
       /\ body' = [r \in Requests |-> IF handle[r] \in F THEN o[handle[r]] ELSE body[r]]
  /\ transfer' = [h \in Easy |-> IF h \in F THEN "finished" ELSE transfer[h]]
  /\ still_running' = (Running \ F # {})
  /\ wpc' = "read"
  /\ UNCHANGED <<manager, m_running, m_mutex, m_continuations, app, res, msg, current>>

Perform == \E F \in SUBSET Running : PerformEnding(F)

\* curl_multi_info_read, without the lock.
Read ==
  /\ wpc = "read"
  /\ \/ \E m \in done_msgs : /\ msg' = m
                             /\ done_msgs' = done_msgs \ {m}
                             /\ wpc' = "detach"
     \/ /\ done_msgs = {}
        /\ wpc' = "decide"
        /\ UNCHANGED <<msg, done_msgs>>
  /\ UNCHANGED <<manager, m_running, m_mutex, m_continuations, transfer, body, app,
                 res, current, still_running>>

\* Mutant: the continuation is not erased.
DetachKeepsContinuation ==
  /\ wpc = "detach"
  /\ m_mutex = None
  /\ current' = m_continuations[msg.easy]
  /\ transfer' = [transfer EXCEPT ![msg.easy] = "detached"]
  /\ wpc' = IF current' = None THEN "read" ELSE "resume"
  /\ UNCHANGED <<manager, m_running, m_mutex, m_continuations, done_msgs, body, app,
                 res, msg, still_running>>

\* Mutant: the easy handle stays in the multi handle.
DetachKeepsTransfer ==
  /\ wpc = "detach"
  /\ m_mutex = None
  /\ current' = m_continuations[msg.easy]
  /\ m_continuations' = [m_continuations EXCEPT ![msg.easy] = None]
  /\ wpc' = IF current' = None THEN "read" ELSE "resume"
  /\ UNCHANGED <<manager, m_running, m_mutex, curl, app, res, msg, still_running>>

\* Under the lock: the continuation leaves the map and the transfer the multi
\* handle.  A message without a continuation is dropped.
Detach ==
  /\ wpc = "detach"
  /\ m_mutex = None
  /\ current' = m_continuations[msg.easy]
  /\ m_continuations' = [m_continuations EXCEPT ![msg.easy] = None]
  /\ transfer' = [transfer EXCEPT ![msg.easy] = "detached"]
  /\ wpc' = IF current' = None THEN "read" ELSE "resume"
  /\ UNCHANGED <<manager, m_running, m_mutex, done_msgs, body, app, res, msg,
                 still_running>>

\* Mutant: the coroutine is resumed before the status is stored.
ResumeBeforeStatus ==
  /\ wpc = "resume"
  /\ frame' = [frame EXCEPT ![current] = "resumed"]
  /\ wpc' = "continue"
  /\ msg' = None
  /\ UNCHANGED <<manager, m_running, m_mutex, m_continuations, curl, adder, handle,
                 res, current, still_running>>

\* The status is stored and the coroutine resumed, with the lock released.
Resume ==
  /\ wpc = "resume"
  /\ res' = [res EXCEPT ![current] = msg.res]
  /\ frame' = [frame EXCEPT ![current] = "resumed"]
  /\ wpc' = "continue"
  /\ msg' = None
  /\ UNCHANGED <<manager, m_running, m_mutex, m_continuations, curl, adder, handle,
                 current, still_running>>

\* await_resume reads the result, the easy handle is freed, the coroutine ends
\* and the caller it was awaited by continues, still inside resume().
Finish ==
  /\ wpc = "continue"
  /\ frame' = [frame EXCEPT ![current] = "finished"]
  /\ handle' = [handle EXCEPT ![current] = None]
  /\ wpc' = "after"
  /\ UNCHANGED <<manager, m_running, m_mutex, m_continuations, curl, adder, res,
                 msg, current, still_running>>

\* The caller starts the next request on the polling thread ...
Chain(r, h) ==
  /\ wpc = "after"
  /\ Begin(r, h)
  /\ wpc' = "nested"
  /\ current' = r
  /\ UNCHANGED <<manager, m_running, m_mutex, m_continuations, curl, res, msg,
                 still_running>>

\* ... or has nothing more to await, and resume() returns to run().
Back ==
  /\ wpc = "after"
  /\ wpc' = "read"
  /\ current' = None
  /\ UNCHANGED <<manager, m_running, m_mutex, m_continuations, curl, app, res, msg,
                 still_running>>

\* The map is looked at without the lock: while an add_request is inserting,
\* either answer can be read.
LooksEmpty == \/ \A h \in Easy : m_continuations[h] = None
              \/ m_mutex # None

LooksUsed == \/ \E h \in Easy : m_continuations[h] # None
             \/ m_mutex # None

\* The choice between a 5 ms sleep and a curl_multi_wait of at most 50 ms.
Decide ==
  /\ wpc = "decide"
  /\ \/ ~still_running /\ LooksEmpty /\ wpc' = "sleep"
     \/ (still_running \/ LooksUsed) /\ wpc' = "wait"
  /\ UNCHANGED <<manager, m_running, m_mutex, m_continuations, curl, app, res, msg,
                 current, still_running>>

\* The sleep or the wait ends, at the latest when its time has passed.
Wake ==
  /\ wpc \in {"sleep", "wait"}
  /\ wpc' = "check"
  /\ UNCHANGED <<manager, m_running, m_mutex, m_continuations, curl, app, res, msg,
                 current, still_running>>

Poll == \/ Check \/ Perform \/ Read \/ Detach \/ Resume \/ Finish \/ Back
        \/ Decide \/ Wake
        \/ \E r \in Requests : Nested(r) /\ Add(r)

-----------------------------------------------------------------------------
(* The end of the process                                                  *)

\* No thread of the application is inside add_request; the polling thread may be.
Quiet == \A r \in Requests : adder[r] \in {"none", "returned"} \/ Nested(r)

\* Mutant: the flag is not cleared.
DestroyKeepsRunning ==
  /\ manager = "alive"
  /\ Quiet
  /\ manager' = "joining"
  /\ UNCHANGED <<m_running, m_mutex, m_continuations, curl, app, res, worker>>

\* The destructor stops the loop.
Destroy ==
  /\ manager = "alive"
  /\ Quiet
  /\ manager' = "joining"
  /\ m_running' = FALSE
  /\ UNCHANGED <<m_mutex, m_continuations, curl, app, res, worker>>

\* Mutant: the thread is detached, not joined.
JoinDetached ==
  /\ manager = "joining"
  /\ manager' = "destroyed"
  /\ transfer' = [h \in Easy |-> "detached"]
  /\ done_msgs' = {}
  /\ UNCHANGED <<m_running, m_mutex, m_continuations, body, app, res, worker>>

\* The join returns, and curl_multi_cleanup drops every transfer and message.
Join ==
  /\ manager = "joining"
  /\ wpc = "exited"
  /\ manager' = "destroyed"
  /\ transfer' = [h \in Easy |-> "detached"]
  /\ done_msgs' = {}
  /\ UNCHANGED <<m_running, m_mutex, m_continuations, body, app, res, worker>>

\* The process is over.
Terminated == manager = "destroyed" /\ UNCHANGED vars

Next == \/ \E r \in Requests :
             \/ \E h \in Easy : Start(r, h) \/ Chain(r, h)
             \/ Construct(r)
             \/ Add(r)
        \/ Check \/ Perform \/ Read \/ Detach \/ Resume \/ Finish \/ Back
        \/ Decide \/ Wake
        \/ Destroy \/ Join \/ Terminated

Spec == Init /\ [][Next]_vars

\* The scheduler runs every thread that can run; a running transfer ends at
\* the latest when its CURLOPT_TIMEOUT of 30 s has passed and curl_multi_perform
\* is called again.
Fairness ==
  /\ WF_vars(Poll)
  /\ \A r \in Requests : WF_vars(Construct(r)) /\ WF_vars(Add(r))
  /\ \A h \in Easy : SF_vars(\E F \in SUBSET Running : h \in F /\ PerformEnding(F))
  /\ WF_vars(Join)

FairSpec == Spec /\ Fairness

-----------------------------------------------------------------------------
(* Safety                                                                  *)

Registered(r) == adder[r] \notin {"none", "call"}

\* A continuation in the map, or taken out of it and about to be resumed, is a
\* coroutine that is still suspended and filed under the handle it owns: erase
\* (107) before resume (115) means no coroutine is resumed twice or after it ended.
NoDanglingContinuation ==
  /\ \A h \in Easy : m_continuations[h] # None =>
        /\ frame[m_continuations[h]] = "suspended"
        /\ handle[m_continuations[h]] = h
  /\ wpc = "resume" =>
        /\ frame[current] = "suspended"
        /\ \A h \in Easy : m_continuations[h] # current

\* A coroutine that goes on has the status (114) and the response data (the
\* write callback) of one and the same transfer, its own, although addresses of
\* easy handles come back for later requests.
WholeResult ==
  \A r \in Requests : frame[r] \in {"resumed", "finished"} =>
     /\ res[r] = body[r]
     /\ res[r] # None

\* While a transfer is known to the multi handle, its easy handle is owned by a
\* suspended coroutine: it is not freed (http_llm_client.cpp:78) or made again
\* before curl_multi_remove_handle.
CleanupDetached ==
  \A h \in Easy : transfer[h] # "detached" =>
     \E r \in Requests : handle[r] = h /\ frame[r] = "suspended" /\ Registered(r)

\* The ways in which the polling thread will come to a registered coroutine.
InFlight(r) ==
  LET h == handle[r] IN
     \/ transfer[h] = "running"
     \/ transfer[h] = "finished" /\ (\/ \E m \in done_msgs : m.easy = h
                                     \/ wpc = "detach" /\ msg.easy = h)

\* No suspended coroutine is forgotten: after add_request it is in the map with
\* a transfer that runs or left a message, or it is the one about to be resumed.
NoLostRequest ==
  ~AddMayFail /\ manager # "destroyed" =>
    \A r \in Requests : frame[r] = "suspended" /\ adder[r] \in {"unlocked", "returned"} =>
      \/ m_continuations[handle[r]] = r /\ InFlight(r)
      \/ wpc = "resume" /\ current = r

-----------------------------------------------------------------------------
(* The inductive invariant                                                 *)

MutexInv == \A r \in Requests : adder[r] = "locked" <=> m_mutex = r

\* A request owns an easy handle from its suspension until it is finished.
HandleInv ==
  /\ \A r \in Requests : handle[r] # None <=> frame[r] \in {"suspended", "resumed"}
  /\ \A r, q \in Requests : handle[r] = handle[q] /\ handle[r] # None => r = q

AdderInv == \A r \in Requests :
  /\ adder[r] = "none" <=> frame[r] = "idle"
  /\ adder[r] \in {"call", "locked"} => frame[r] = "suspended"

ContinuationInv == \A h \in Easy : m_continuations[h] # None =>
  /\ frame[m_continuations[h]] = "suspended"
  /\ handle[m_continuations[h]] = h
  /\ Registered(m_continuations[h])

RegisteredInv == \A r \in Requests : frame[r] = "suspended" /\ Registered(r) =>
  \/ m_continuations[handle[r]] = r
  \/ wpc = "resume" /\ current = r

TransferInv == \A h \in Easy : transfer[h] # "detached" =>
  /\ m_continuations[h] # None
  /\ adder[m_continuations[h]] # "locked"

\* A message belongs to a finished transfer, there is one per transfer, and it
\* carries the outcome the response data came with.
MessageInv ==
  /\ \A m \in done_msgs : /\ transfer[m.easy] = "finished"
                          /\ body[m_continuations[m.easy]] = m.res
  /\ \A m, n \in done_msgs : m.easy = n.easy => m = n
  /\ wpc = "detach" =>
       /\ msg \in Messages
       /\ transfer[msg.easy] = "finished"
       /\ body[m_continuations[msg.easy]] = msg.res
       /\ \A m \in done_msgs : m.easy # msg.easy

CurrentInv ==
  /\ wpc = "resume" =>
       /\ current # None
       /\ frame[current] = "suspended"
       /\ Registered(current) /\ adder[current] # "locked"
       /\ msg \in Messages
       /\ body[current] = msg.res
       /\ \A h \in Easy : m_continuations[h] # current
  /\ wpc = "continue" => current # None /\ frame[current] = "resumed"
  /\ wpc = "nested" => current # None /\ adder[current] \notin {"none", "returned"}
  /\ \A r \in Requests : frame[r] = "resumed" => wpc = "continue" /\ current = r

\* Only a running transfer can still be answered; an answered one is the only
\* way to a message.
BodyInv == \A r \in Requests :
  /\ body[r] # None /\ frame[r] = "suspended" => transfer[handle[r]] # "running"
  /\ frame[r] = "idle" \/ adder[r] \in {"call", "locked"} => body[r] = None

\* An entry of the map has its transfer, unless adding it failed, and a finished
\* transfer its message, until the destructor drops both.
AttachedInv ==
  manager # "destroyed" => \A h \in Easy :
    /\ ~AddMayFail /\ m_continuations[h] # None =>
         adder[m_continuations[h]] = "locked" \/ transfer[h] # "detached"
    /\ transfer[h] = "finished" =>
         \/ \E m \in done_msgs : m.easy = h
         \/ wpc = "detach" /\ msg.easy = h

ManagerInv ==
  /\ manager = "unborn" => /\ wpc = "unborn"
                           /\ \A r \in Requests : ~Registered(r)
  /\ manager \in {"joining", "destroyed"} => Quiet
  /\ manager = "destroyed" => wpc = "exited"

IInv == /\ TypeOK /\ MutexInv /\ HandleInv /\ AdderInv /\ ContinuationInv
        /\ RegisteredInv /\ TransferInv /\ MessageInv /\ CurrentInv /\ BodyInv
        /\ WholeResult /\ AttachedInv /\ ManagerInv

-----------------------------------------------------------------------------
(* Liveness, and the abstract specification                                *)

\* co_await ends: a suspended coroutine is resumed unless the process is ending
\* first (the comment of Task::get, coro_type.hpp:77, relies on it).
EveryRequestResumed ==
  \A r \in Requests : frame[r] = "suspended" ~> (frame[r] # "suspended" \/ ~m_running)

\* The destructor's join comes back: the polling thread sees the flag however it
\* idles and is never stuck on its own lock.
JoinReturns == manager = "joining" ~> manager = "destroyed"

\* Registering a request wakes the polling thread up, however it idles.
WakeupEndsIdling == [][\A r \in Requests : AddWakeup(r) => wpc' \notin {"sleep", "wait"}]_vars

\* Coroutines see an asynchronous HTTP service as AsyncHttp describes it.
Http == INSTANCE AsyncHttp WITH Answers <- Outcomes, phase <- frame,
          answer <- body, delivered <- res, open <- (manager # "destroyed")
Implements == Http!Spec
=============================================================================
