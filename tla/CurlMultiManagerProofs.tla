------------------------ MODULE CurlMultiManagerProofs ------------------------
(***************************************************************************)
(* For every set of requests, easy handles and outcomes: the invariants of *)
(* CurlMultiManager, and that it implements AsyncHttp.                     *)
(*                                                                         *)
(* IInv is inductive.  There is one lemma per action; its first step holds *)
(* the conjuncts that follow from themselves, and each other step cites    *)
(* the conjuncts it rests on.                                              *)
(***************************************************************************)
EXTENDS CurlMultiManager, TLAPS

\* A thread of the application starts a request: only the request and the handle
\* it takes change.
LEMMA StartPreserves ==
  ASSUME IInv, NEW r \in Requests, NEW h \in Easy, Start(r, h)
  PROVE  IInv'
<1>1. TypeOK' /\ TransferInv' /\ MessageInv' /\ BodyInv' /\ WholeResult'
  BY DEF IInv, TypeOK, TransferInv, MessageInv, BodyInv, WholeResult, Start,
     Begin, curl, worker
<1>2. MutexInv'
  BY DEF IInv, MutexInv, Start, Begin, AdderInv, curl, worker
<1>3. HandleInv'
  BY DEF IInv, HandleInv, Start, Begin, TypeOK, curl, worker, FreeHandles
<1>4. AdderInv'
  BY DEF IInv, AdderInv, Start, Begin, TypeOK, curl, worker
<1>5. ContinuationInv'
  BY DEF IInv, ContinuationInv, Start, Begin, Registered, curl, worker
<1>6. RegisteredInv'
  BY DEF IInv, RegisteredInv, Start, Begin, TypeOK, Registered, curl, worker
<1>7. CurrentInv'
  BY DEF IInv, CurrentInv, Start, Begin, Registered, curl, worker
<1>8. AttachedInv'
  BY DEF IInv, AttachedInv, Start, Begin, ContinuationInv, curl, worker
<1>9. ManagerInv'
  BY DEF IInv, ManagerInv, Start, Begin, Registered, curl, worker
<1>. QED BY <1>1, <1>2, <1>3, <1>4, <1>5, <1>6, <1>7, <1>8, <1>9 DEF IInv

\* The same on the polling thread.
LEMMA ChainPreserves ==
  ASSUME IInv, NEW r \in Requests, NEW h \in Easy, Chain(r, h)
  PROVE  IInv'
<1>1. TypeOK' /\ TransferInv' /\ MessageInv' /\ BodyInv' /\ WholeResult'
  BY DEF IInv, TypeOK, TransferInv, MessageInv, BodyInv, WholeResult, Chain,
     Begin, curl
<1>2. MutexInv'
  BY DEF IInv, MutexInv, Chain, Begin, AdderInv, curl
<1>3. HandleInv'
  BY DEF IInv, HandleInv, Chain, Begin, TypeOK, curl, FreeHandles
<1>4. AdderInv'
  BY DEF IInv, AdderInv, Chain, Begin, TypeOK, curl
<1>5. ContinuationInv'
  BY DEF IInv, ContinuationInv, Chain, Begin, Registered, curl
<1>6. RegisteredInv'
  BY DEF IInv, RegisteredInv, Chain, Begin, TypeOK, Registered, curl
<1>7. CurrentInv'
  BY ManagerAssumption DEF IInv, CurrentInv, Chain, Begin, TypeOK, curl
<1>8. AttachedInv'
  BY DEF IInv, AttachedInv, Chain, Begin, ContinuationInv, curl
<1>9. ManagerInv'
  BY DEF IInv, ManagerInv, Chain, Begin, Quiet, Nested, curl
<1>. QED BY <1>1, <1>2, <1>3, <1>4, <1>5, <1>6, <1>7, <1>8, <1>9 DEF IInv

\* The constructor starts the polling thread; no request is registered yet.
LEMMA ConstructPreserves ==
  ASSUME IInv, NEW r \in Requests, Construct(r)
  PROVE  IInv'
<1>1. TypeOK'
  BY DEF IInv, TypeOK, Construct, app, curl
<1>2. MutexInv' /\ HandleInv' /\ AdderInv' /\ TransferInv' /\ MessageInv' /\
      BodyInv' /\ WholeResult' /\ ManagerInv'
  BY DEF IInv, MutexInv, HandleInv, AdderInv, TransferInv, MessageInv,
     BodyInv, WholeResult, ManagerInv, Construct, app, curl
<1>3. ContinuationInv'
  BY DEF IInv, ContinuationInv, Construct, Registered, app, curl
<1>4. RegisteredInv'
  BY DEF IInv, RegisteredInv, Construct, ManagerInv, Registered, app, curl
<1>5. CurrentInv'
  BY DEF IInv, CurrentInv, Construct, ManagerInv, app, curl
<1>6. AttachedInv'
  BY DEF IInv, AttachedInv, Construct, ManagerInv, app, curl
<1>. QED BY <1>1, <1>2, <1>3, <1>4, <1>5, <1>6 DEF IInv

\* The map entry of the handle is free, since the handle is the request's own.
LEMMA AddLockPreserves ==
  ASSUME IInv, NEW r \in Requests, AddLock(r)
  PROVE  IInv'
<1>1. TypeOK' /\ HandleInv' /\ AdderInv' /\ BodyInv' /\ WholeResult'
  BY DEF IInv, TypeOK, HandleInv, AdderInv, BodyInv, WholeResult, AddLock,
     curl, worker
<1>2. MutexInv'
  BY ManagerAssumption DEF IInv, MutexInv, AddLock, TypeOK, curl, worker
<1>3. ContinuationInv'
  BY DEF IInv, ContinuationInv, AddLock, TypeOK, AdderInv, Registered, curl,
     worker
<1>4. RegisteredInv'
  BY DEF IInv, RegisteredInv, AddLock, TypeOK, HandleInv, Registered, curl,
     worker
<1>5. TransferInv'
  BY DEF IInv, TransferInv, AddLock, TypeOK, HandleInv, ContinuationInv,
     Registered, curl, worker
<1>6. MessageInv'
  BY DEF IInv, MessageInv, AddLock, TypeOK, HandleInv, ContinuationInv,
     TransferInv, curl, worker
<1>7. CurrentInv'
  BY DEF IInv, CurrentInv, AddLock, Registered, curl, worker
<1>8. AttachedInv'
  BY DEF IInv, AttachedInv, AddLock, TypeOK, curl, worker
<1>9. ManagerInv'
  BY DEF IInv, ManagerInv, AddLock, Quiet, Nested, curl, worker
<1>. QED BY <1>1, <1>2, <1>3, <1>4, <1>5, <1>6, <1>7, <1>8, <1>9 DEF IInv

\* The transfer of a registered request starts to run.
LEMMA AddAttachPreserves ==
  ASSUME IInv, NEW r \in Requests, AddAttach(r)
  PROVE  IInv'
<1>1. TypeOK' /\ HandleInv' /\ AdderInv' /\ WholeResult'
  BY DEF IInv, TypeOK, HandleInv, AdderInv, WholeResult, AddAttach, worker
<1>2. MutexInv'
  BY ManagerAssumption DEF IInv, MutexInv, AddAttach, TypeOK, worker
<1>3. ContinuationInv'
  BY DEF IInv, ContinuationInv, AddAttach, Registered, worker
<1>4. RegisteredInv'
  BY DEF IInv, RegisteredInv, AddAttach, Registered, worker
<1>5. TransferInv'
  BY ManagerAssumption DEF IInv, TransferInv, AddAttach, TypeOK, AdderInv,
     RegisteredInv, CurrentInv, Registered, worker
<1>6. MessageInv'
  BY DEF IInv, MessageInv, AddAttach, TypeOK, AdderInv, RegisteredInv,
     TransferInv, CurrentInv, Registered, Messages, worker
<1>7. CurrentInv'
  BY DEF IInv, CurrentInv, AddAttach, Registered, worker
<1>8. BodyInv'
  BY DEF IInv, BodyInv, AddAttach, TypeOK, HandleInv, worker
<1>9. AttachedInv'
  BY DEF IInv, AttachedInv, AddAttach, TypeOK, ContinuationInv, worker
<1>10. ManagerInv'
  BY DEF IInv, ManagerInv, AddAttach, Registered, Quiet, Nested, worker
<1>. QED BY <1>1, <1>2, <1>3, <1>4, <1>5, <1>6, <1>7, <1>8, <1>9, <1>10 DEF IInv

\* The call of add_request returns.
LEMMA AddWakeupPreserves ==
  ASSUME IInv, NEW r \in Requests, AddWakeup(r)
  PROVE  IInv'
<1>1. TypeOK'
  BY DEF IInv, TypeOK, AddWakeup, curl
<1>2. MutexInv' /\ HandleInv' /\ AdderInv' /\ TransferInv' /\ MessageInv' /\
      BodyInv' /\ WholeResult'
  BY DEF IInv, MutexInv, HandleInv, AdderInv, TransferInv, MessageInv,
     BodyInv, WholeResult, AddWakeup, curl
<1>3. ContinuationInv'
  BY DEF IInv, ContinuationInv, AddWakeup, Registered, curl
<1>4. RegisteredInv'
  BY DEF IInv, RegisteredInv, AddWakeup, Registered, Nested, curl
<1>5. CurrentInv'
  BY DEF IInv, CurrentInv, AddWakeup, Registered, Nested, curl
<1>6. AttachedInv'
  BY DEF IInv, AttachedInv, AddWakeup, Nested, curl
<1>7. ManagerInv'
  BY DEF IInv, ManagerInv, AddWakeup, TypeOK, Registered, Quiet, Nested, curl
<1>. QED BY <1>1, <1>2, <1>3, <1>4, <1>5, <1>6, <1>7 DEF IInv

\* The polling thread tests the flag.
LEMMA CheckPreserves ==
  ASSUME IInv, Check
  PROVE  IInv'
<1>1. TypeOK'
  BY DEF IInv, TypeOK, Check, app, curl
<1>2. MutexInv' /\ HandleInv' /\ AdderInv' /\ TransferInv' /\ MessageInv' /\
      CurrentInv' /\ BodyInv' /\ WholeResult' /\ AttachedInv'
  BY DEF IInv, MutexInv, HandleInv, AdderInv, TransferInv, MessageInv,
     CurrentInv, BodyInv, WholeResult, AttachedInv, Check, app, curl
<1>3. ContinuationInv'
  BY DEF IInv, ContinuationInv, Check, Registered, app, curl
<1>4. RegisteredInv'
  BY DEF IInv, RegisteredInv, Check, Registered, app, curl
<1>5. ManagerInv'
  BY DEF IInv, ManagerInv, Check, Quiet, Nested, app, curl
<1>. QED BY <1>1, <1>2, <1>3, <1>4, <1>5 DEF IInv

\* The transfers in F end: each leaves the one message of its handle.
LEMMA PerformEndingPreserves ==
  ASSUME IInv, NEW F \in SUBSET Easy, PerformEnding(F)
  PROVE  IInv'
<1>1. MutexInv' /\ HandleInv' /\ AdderInv' /\ CurrentInv'
  BY DEF IInv, MutexInv, HandleInv, AdderInv, CurrentInv, PerformEnding, app
<1>2. TypeOK'
  BY DEF IInv, TypeOK, PerformEnding, Messages, app
<1>3. ContinuationInv'
  BY DEF IInv, ContinuationInv, PerformEnding, Registered, app
<1>4. RegisteredInv'
  BY DEF IInv, RegisteredInv, PerformEnding, Registered, app
<1>5. TransferInv'
  BY DEF IInv, TransferInv, PerformEnding, app, Running
<1>6. MessageInv'
  BY DEF IInv, MessageInv, PerformEnding, TypeOK, ContinuationInv,
     TransferInv, Messages, Running
<1>7. BodyInv'
  BY DEF IInv, BodyInv, PerformEnding, TypeOK, HandleInv, ContinuationInv,
     TransferInv, Registered, app, Running
<1>8. WholeResult'
  BY DEF IInv, WholeResult, PerformEnding, TypeOK, HandleInv, ContinuationInv,
     TransferInv, app, Running
<1>9. AttachedInv'
  <2>1. PICK o \in [F -> Outcomes] :
          done_msgs' = done_msgs \cup {[easy |-> h, res |-> o[h]] : h \in F}
    BY DEF PerformEnding
  <2>2. SUFFICES ASSUME manager' # "destroyed", NEW h \in Easy
        PROVE /\ ~AddMayFail /\ m_continuations'[h] # None =>
                   \/ adder'[m_continuations'[h]] = "locked"
                   \/ transfer'[h] # "detached"
              /\ transfer'[h] = "finished" => \E m \in done_msgs' : m.easy = h
    BY DEF AttachedInv
  <2>3. CASE h \in F
    <3>1. [easy |-> h, res |-> o[h]] \in done_msgs'
      BY <2>1, <2>3
    <3>. QED BY <2>3, <3>1 DEF PerformEnding
  <2>4. CASE h \notin F
    <3>1. transfer'[h] = transfer[h] /\ done_msgs \subseteq done_msgs' /\ wpc # "detach"
      BY <2>1, <2>4 DEF PerformEnding
    <3>2. UNCHANGED <<m_continuations, adder, manager>>
      BY DEF PerformEnding, app
    <3>. QED BY <2>2, <3>1, <3>2 DEF IInv, AttachedInv
  <2>. QED BY <2>3, <2>4
<1>10. ManagerInv'
  BY DEF IInv, ManagerInv, PerformEnding, Quiet, Nested, app
<1>. QED BY <1>1, <1>2, <1>3, <1>4, <1>5, <1>6, <1>7, <1>8, <1>9, <1>10 DEF IInv

\* A message leaves the queue and is the one being processed, or none is left.
LEMMA ReadPreserves ==
  ASSUME IInv, Read
  PROVE  IInv'
<1>1. TypeOK'
  BY DEF IInv, TypeOK, Read, app
<1>2. MutexInv' /\ HandleInv' /\ AdderInv' /\ TransferInv' /\ CurrentInv' /\
      BodyInv' /\ WholeResult' /\ AttachedInv'
  BY DEF IInv, MutexInv, HandleInv, AdderInv, TransferInv, CurrentInv,
     BodyInv, WholeResult, AttachedInv, Read, app
<1>3. ContinuationInv'
  BY DEF IInv, ContinuationInv, Read, Registered, app
<1>4. RegisteredInv'
  BY DEF IInv, RegisteredInv, Read, Registered, app
<1>5. MessageInv'
  BY ManagerAssumption DEF IInv, MessageInv, Read, TypeOK, MutexInv,
     HandleInv, AdderInv, ContinuationInv, RegisteredInv, TransferInv,
     CurrentInv, BodyInv, WholeResult, AttachedInv, ManagerInv, Registered,
     Quiet, Nested, Messages, app
<1>6. ManagerInv'
  BY DEF IInv, ManagerInv, Read, Quiet, Nested, app
<1>. QED BY <1>1, <1>2, <1>3, <1>4, <1>5, <1>6 DEF IInv

\* The continuation and the transfer of one handle are dropped together.
LEMMA DetachPreserves ==
  ASSUME IInv, Detach
  PROVE  IInv'
<1>1. MutexInv' /\ HandleInv' /\ AdderInv' /\ MessageInv' /\ BodyInv' /\
      WholeResult'
  BY DEF IInv, MutexInv, HandleInv, AdderInv, MessageInv, BodyInv,
     WholeResult, Detach, app
<1>2. TypeOK'
  BY DEF IInv, TypeOK, Detach, MessageInv, Messages, app
<1>3. ContinuationInv'
  BY DEF IInv, ContinuationInv, Detach, Registered, app
<1>4. RegisteredInv'
  BY DEF IInv, RegisteredInv, Detach, Registered, app
<1>5. TransferInv'
  BY DEF IInv, TransferInv, Detach, TypeOK, app
<1>6. CurrentInv'
  BY DEF IInv, CurrentInv, Detach, TypeOK, ContinuationInv, TransferInv,
     MessageInv, Registered, Messages, app
<1>7. AttachedInv'
  BY DEF IInv, AttachedInv, Detach, TypeOK, app
<1>8. ManagerInv'
  BY DEF IInv, ManagerInv, Detach, Quiet, Nested, app
<1>. QED BY <1>1, <1>2, <1>3, <1>4, <1>5, <1>6, <1>7, <1>8 DEF IInv

\* The status joins the response data of the same transfer.
LEMMA ResumePreserves ==
  ASSUME IInv, Resume
  PROVE  IInv'
<1>1. MutexInv' /\ TransferInv' /\ MessageInv' /\ BodyInv' /\ AttachedInv'
  BY DEF IInv, MutexInv, TransferInv, MessageInv, BodyInv, AttachedInv,
     Resume, curl
<1>2. TypeOK'
  BY DEF IInv, TypeOK, Resume, CurrentInv, curl
<1>3. HandleInv'
  BY DEF IInv, HandleInv, Resume, CurrentInv, curl
<1>4. AdderInv'
  BY DEF IInv, AdderInv, Resume, CurrentInv, Registered, curl
<1>5. ContinuationInv'
  BY DEF IInv, ContinuationInv, Resume, CurrentInv, Registered, curl
<1>6. RegisteredInv'
  BY DEF IInv, RegisteredInv, Resume, TypeOK, Registered, curl
<1>7. CurrentInv'
  BY DEF IInv, CurrentInv, Resume, TypeOK, curl
<1>8. WholeResult'
  BY ManagerAssumption DEF IInv, WholeResult, Resume, TypeOK, CurrentInv,
     Messages, curl
<1>9. ManagerInv'
  BY DEF IInv, ManagerInv, Resume, Quiet, Nested, curl
<1>. QED BY <1>1, <1>2, <1>3, <1>4, <1>5, <1>6, <1>7, <1>8, <1>9 DEF IInv

\* The handle is released; nothing knows it any more.
LEMMA FinishPreserves ==
  ASSUME IInv, Finish
  PROVE  IInv'
<1>1. TypeOK' /\ MutexInv' /\ TransferInv' /\ MessageInv' /\ AttachedInv'
  BY DEF IInv, TypeOK, MutexInv, TransferInv, MessageInv, AttachedInv, Finish,
     curl
<1>2. HandleInv'
  BY DEF IInv, HandleInv, Finish, TypeOK, curl
<1>3. AdderInv'
  BY DEF IInv, AdderInv, Finish, CurrentInv, curl
<1>4. ContinuationInv'
  BY DEF IInv, ContinuationInv, Finish, CurrentInv, Registered, curl
<1>5. RegisteredInv'
  BY DEF IInv, RegisteredInv, Finish, CurrentInv, Registered, curl
<1>6. CurrentInv'
  BY DEF IInv, CurrentInv, Finish, TypeOK, curl
<1>7. BodyInv'
  BY DEF IInv, BodyInv, Finish, CurrentInv, curl
<1>8. WholeResult'
  BY DEF IInv, WholeResult, Finish, CurrentInv, curl
<1>9. ManagerInv'
  BY DEF IInv, ManagerInv, Finish, Quiet, Nested, curl
<1>. QED BY <1>1, <1>2, <1>3, <1>4, <1>5, <1>6, <1>7, <1>8, <1>9 DEF IInv

\* resume() returns to the polling thread.
LEMMA BackPreserves ==
  ASSUME IInv, Back
  PROVE  IInv'
<1>1. TypeOK'
  BY DEF IInv, TypeOK, Back, app, curl
<1>2. MutexInv' /\ HandleInv' /\ AdderInv' /\ TransferInv' /\ MessageInv' /\
      CurrentInv' /\ BodyInv' /\ WholeResult' /\ AttachedInv'
  BY DEF IInv, MutexInv, HandleInv, AdderInv, TransferInv, MessageInv,
     CurrentInv, BodyInv, WholeResult, AttachedInv, Back, app, curl
<1>3. ContinuationInv'
  BY DEF IInv, ContinuationInv, Back, Registered, app, curl
<1>4. RegisteredInv'
  BY DEF IInv, RegisteredInv, Back, Registered, app, curl
<1>5. ManagerInv'
  BY DEF IInv, ManagerInv, Back, Quiet, Nested, app, curl
<1>. QED BY <1>1, <1>2, <1>3, <1>4, <1>5 DEF IInv

\* The polling thread decides how to idle.
LEMMA DecidePreserves ==
  ASSUME IInv, Decide
  PROVE  IInv'
<1>1. TypeOK'
  BY DEF IInv, TypeOK, Decide, app, curl
<1>2. MutexInv' /\ HandleInv' /\ AdderInv' /\ TransferInv' /\ MessageInv' /\
      CurrentInv' /\ BodyInv' /\ WholeResult' /\ AttachedInv'
  BY DEF IInv, MutexInv, HandleInv, AdderInv, TransferInv, MessageInv,
     CurrentInv, BodyInv, WholeResult, AttachedInv, Decide, app, curl
<1>3. ContinuationInv'
  BY DEF IInv, ContinuationInv, Decide, Registered, app, curl
<1>4. RegisteredInv'
  BY DEF IInv, RegisteredInv, Decide, Registered, app, curl
<1>5. ManagerInv'
  BY DEF IInv, ManagerInv, Decide, Quiet, Nested, app, curl
<1>. QED BY <1>1, <1>2, <1>3, <1>4, <1>5 DEF IInv

\* The polling thread comes round again.
LEMMA WakePreserves ==
  ASSUME IInv, Wake
  PROVE  IInv'
<1>1. TypeOK'
  BY DEF IInv, TypeOK, Wake, app, curl
<1>2. MutexInv' /\ HandleInv' /\ AdderInv' /\ TransferInv' /\ MessageInv' /\
      CurrentInv' /\ BodyInv' /\ WholeResult' /\ AttachedInv'
  BY DEF IInv, MutexInv, HandleInv, AdderInv, TransferInv, MessageInv,
     CurrentInv, BodyInv, WholeResult, AttachedInv, Wake, app, curl
<1>3. ContinuationInv'
  BY DEF IInv, ContinuationInv, Wake, Registered, app, curl
<1>4. RegisteredInv'
  BY DEF IInv, RegisteredInv, Wake, Registered, app, curl
<1>5. ManagerInv'
  BY DEF IInv, ManagerInv, Wake, Quiet, Nested, app, curl
<1>. QED BY <1>1, <1>2, <1>3, <1>4, <1>5 DEF IInv

\* The destructor asks the polling thread to stop.
LEMMA DestroyPreserves ==
  ASSUME IInv, Destroy
  PROVE  IInv'
<1>1. TypeOK'
  BY DEF IInv, TypeOK, Destroy, app, curl, worker
<1>2. MutexInv' /\ HandleInv' /\ AdderInv' /\ TransferInv' /\ MessageInv' /\
      BodyInv' /\ WholeResult' /\ AttachedInv'
  BY DEF IInv, MutexInv, HandleInv, AdderInv, TransferInv, MessageInv,
     BodyInv, WholeResult, AttachedInv, Destroy, app, curl, worker
<1>3. ContinuationInv'
  BY DEF IInv, ContinuationInv, Destroy, Registered, app, curl, worker
<1>4. RegisteredInv'
  BY DEF IInv, RegisteredInv, Destroy, Registered, app, curl, worker
<1>5. CurrentInv'
  BY DEF IInv, CurrentInv, Destroy, Registered, app, curl, worker
<1>6. ManagerInv'
  BY DEF IInv, ManagerInv, Destroy, Quiet, Nested, app, curl, worker
<1>. QED BY <1>1, <1>2, <1>3, <1>4, <1>5, <1>6 DEF IInv

\* Every transfer and message is gone.
LEMMA JoinPreserves ==
  ASSUME IInv, Join
  PROVE  IInv'
<1>1. TypeOK'
  BY DEF IInv, TypeOK, Join, app, worker
<1>2. MutexInv' /\ HandleInv' /\ AdderInv' /\ TransferInv' /\ MessageInv' /\
      CurrentInv' /\ WholeResult' /\ AttachedInv'
  BY DEF IInv, MutexInv, HandleInv, AdderInv, TransferInv, MessageInv,
     CurrentInv, WholeResult, AttachedInv, Join, app, worker
<1>3. ContinuationInv'
  BY DEF IInv, ContinuationInv, Join, Registered, app, worker
<1>4. RegisteredInv'
  BY DEF IInv, RegisteredInv, Join, Registered, app, worker
<1>5. BodyInv'
  BY DEF IInv, BodyInv, Join, TypeOK, HandleInv, app, worker
<1>6. ManagerInv'
  BY DEF IInv, ManagerInv, Join, Quiet, Nested, app, worker
<1>. QED BY <1>1, <1>2, <1>3, <1>4, <1>5, <1>6 DEF IInv

-----------------------------------------------------------------------------

\* Before the first call there is nothing in map, multi handle or queue.
LEMMA InitEstablishes == Init => IInv
<1>. SUFFICES ASSUME Init PROVE IInv
  OBVIOUS
<1>1. TypeOK
  BY DEF Init, TypeOK, Messages
<1>2. MutexInv /\ HandleInv /\ AdderInv /\ ContinuationInv /\ RegisteredInv
  BY ManagerAssumption
     DEF Init, MutexInv, HandleInv, AdderInv, ContinuationInv, RegisteredInv, Registered
<1>3. TransferInv /\ MessageInv /\ CurrentInv /\ BodyInv /\ WholeResult
  BY DEF Init, TransferInv, MessageInv, CurrentInv, BodyInv, WholeResult
<1>4. AttachedInv /\ ManagerInv
  BY DEF Init, AttachedInv, ManagerInv, Registered
<1>. QED BY <1>1, <1>2, <1>3, <1>4 DEF IInv

\* The invariant speaks of the variables of the manager only.
LEMMA StutterPreserves ==
  ASSUME IInv, UNCHANGED vars
  PROVE  IInv'
<1>1. TypeOK' /\ MutexInv' /\ HandleInv' /\ AdderInv' /\ WholeResult'
  BY DEF IInv, vars, TypeOK, MutexInv, HandleInv, AdderInv, WholeResult
<1>2. ContinuationInv' /\ RegisteredInv' /\ TransferInv'
  BY DEF IInv, vars, ContinuationInv, RegisteredInv, TransferInv, Registered
<1>3. MessageInv' /\ CurrentInv' /\ BodyInv'
  BY DEF IInv, vars, MessageInv, CurrentInv, BodyInv, Registered, Messages
<1>4. AttachedInv' /\ ManagerInv'
  BY DEF IInv, vars, AttachedInv, ManagerInv, Registered, Quiet, Nested
<1>. QED BY <1>1, <1>2, <1>3, <1>4 DEF IInv

\* Every step keeps the inductive invariant.
LEMMA NextPreserves == IInv /\ [Next]_vars => IInv'
<1>. SUFFICES ASSUME IInv, [Next]_vars PROVE IInv'
  OBVIOUS
<1>1. ASSUME NEW r \in Requests, NEW h \in Easy, Start(r, h) PROVE IInv'
  BY <1>1, StartPreserves
<1>2. ASSUME NEW r \in Requests, NEW h \in Easy, Chain(r, h) PROVE IInv'
  BY <1>2, ChainPreserves
<1>3. ASSUME NEW r \in Requests, Construct(r) PROVE IInv'
  BY <1>3, ConstructPreserves
<1>4. ASSUME NEW r \in Requests, Add(r) PROVE IInv'
  BY <1>4, AddLockPreserves, AddAttachPreserves, AddWakeupPreserves DEF Add
<1>5. CASE Check \/ Read \/ Detach \/ Resume
  BY <1>5, CheckPreserves, ReadPreserves, DetachPreserves, ResumePreserves
<1>6. CASE Perform
  <2>1. PICK F \in SUBSET Running : PerformEnding(F)
    BY <1>6 DEF Perform
  <2>. QED BY <2>1, PerformEndingPreserves DEF Running
<1>7. CASE Finish \/ Back \/ Decide \/ Wake
  BY <1>7, FinishPreserves, BackPreserves, DecidePreserves, WakePreserves
<1>8. CASE Destroy \/ Join
  BY <1>8, DestroyPreserves, JoinPreserves
<1>9. CASE Terminated \/ UNCHANGED vars
  BY <1>9, StutterPreserves DEF Terminated
<1>. QED BY <1>1, <1>2, <1>3, <1>4, <1>5, <1>6, <1>7, <1>8, <1>9 DEF Next

\* The inductive invariant holds in every reachable state.
THEOREM Invariance == Spec => []IInv
<1>. QED BY InitEstablishes, NextPreserves, PTL DEF Spec

\* Every variable has its type.
THEOREM TypeCorrect == Spec => []TypeOK
<1>1. IInv => TypeOK
  BY DEF IInv
<1>. QED BY <1>1, Invariance, PTL

\* The map never holds, and the polling thread never resumes, a coroutine that is
\* not suspended (run(), erase before resume).
THEOREM NeverDangling == Spec => []NoDanglingContinuation
<1>1. IInv => NoDanglingContinuation
  BY DEF IInv, ContinuationInv, CurrentInv, NoDanglingContinuation
<1>. QED BY <1>1, Invariance, PTL

\* A coroutine goes on with the status and the data of its own transfer, however
\* addresses of easy handles are reused.
THEOREM AlwaysWhole == Spec => []WholeResult
<1>1. IInv => WholeResult
  BY DEF IInv
<1>. QED BY <1>1, Invariance, PTL

\* No easy handle is freed or reused while the multi handle knows it.
THEOREM AlwaysDetachedBeforeCleanup == Spec => []CleanupDetached
<1>1. IInv => CleanupDetached
  BY DEF IInv, TypeOK, TransferInv, ContinuationInv, CleanupDetached
<1>. QED BY <1>1, Invariance, PTL

\* As long as curl_multi_add_handle succeeds, no registered coroutine is forgotten.
THEOREM NothingLost == Spec => []NoLostRequest
<1>1. IInv => NoLostRequest
  <2>. SUFFICES ASSUME IInv, ~AddMayFail, manager # "destroyed", NEW r \in Requests,
                       frame[r] = "suspended", adder[r] \in {"unlocked", "returned"},
                       ~(wpc = "resume" /\ current = r)
       PROVE  m_continuations[handle[r]] = r /\ InFlight(r)
    BY DEF NoLostRequest
  <2>1. handle[r] \in Easy /\ m_continuations[handle[r]] = r
    BY DEF IInv, TypeOK, HandleInv, RegisteredInv, Registered
  <2>2. transfer[handle[r]] \in {"running", "finished"}
    BY <2>1, ManagerAssumption DEF IInv, TypeOK, AttachedInv
  <2>. QED BY <2>1, <2>2 DEF IInv, AttachedInv, InFlight
<1>. QED BY <1>1, Invariance, PTL

-----------------------------------------------------------------------------
(* CurlMultiManager implements AsyncHttp                                   *)

\* No request was made yet, as in AsyncHttp.
LEMMA InitImplements == Init => Http!Init
  BY DEF Init, Http!Init

\* perform_async_post suspends: the coroutine issues its request.
LEMMA BeginImplements ==
  ASSUME IInv, NEW r \in Requests, NEW h \in Easy, Start(r, h) \/ Chain(r, h)
  PROVE  Http!Issue(r)
  BY DEF IInv, TypeOK, ManagerInv, Start, Chain, Begin, Http!Issue, curl, worker

\* The write callbacks of the transfers in F: only a running transfer is answered,
\* and its request has no answer yet.
LEMMA PerformImplements ==
  ASSUME IInv, NEW F \in SUBSET Easy, PerformEnding(F)
  PROVE  Http!Respond
<1>1. manager # "destroyed" /\ manager' = manager
  BY DEF IInv, ManagerInv, PerformEnding
<1>2. PICK o \in [F -> Outcomes] :
        body' = [r \in Requests |-> IF handle[r] \in F THEN o[handle[r]] ELSE body[r]]
  BY DEF PerformEnding
<1>3. body' \in [Requests -> Outcomes \cup {None}]
  BY <1>2 DEF IInv, TypeOK
<1>4. ASSUME NEW r \in Requests, body'[r] # body[r]
      PROVE  frame[r] = "suspended" /\ body[r] = None
  <2>1. handle[r] \in F /\ transfer[handle[r]] = "running"
    BY <1>2, <1>4 DEF IInv, TypeOK, PerformEnding, Running
  <2>2. m_continuations[handle[r]] # None
    BY <2>1 DEF IInv, TransferInv
  <2>3. frame[r] = "suspended"
    BY <2>1, <2>2, ManagerAssumption DEF IInv, TypeOK, ContinuationInv, HandleInv
  <2>. QED BY <2>1, <2>3 DEF IInv, BodyInv
<1>. QED BY <1>1, <1>3, <1>4 DEF Http!Respond, PerformEnding, app

\* The coroutine is resumed: Deliver.
LEMMA ResumeImplements ==
  ASSUME IInv, Resume
  PROVE  Http!Deliver(current)
<1>1. /\ manager # "destroyed" /\ manager' = manager
      /\ frame[current] = "suspended" /\ msg.res = body[current] /\ body[current] # None
  BY ManagerAssumption
     DEF IInv, TypeOK, Messages, CurrentInv, ManagerInv, Resume
<1>. QED BY <1>1 DEF Resume, Http!Deliver, curl

\* The coroutine ends: Complete.
LEMMA FinishImplements ==
  ASSUME IInv, Finish
  PROVE  Http!Complete(current)
  BY DEF IInv, CurrentInv, ManagerInv, Finish, Http!Complete, curl

\* The manager is destroyed: Close.
LEMMA JoinImplements ==
  ASSUME IInv, Join
  PROVE  Http!Close
  BY DEF IInv, CurrentInv, Join, Http!Close, app

\* Every step is one of AsyncHttp or none.
LEMMA NextImplements == IInv /\ [Next]_vars => [Http!Next]_Http!avars
<1>. SUFFICES ASSUME IInv, [Next]_vars PROVE Http!Next \/ UNCHANGED Http!avars
  OBVIOUS
<1>1. ASSUME NEW r \in Requests, NEW h \in Easy, Start(r, h) \/ Chain(r, h)
      PROVE  Http!Next
  BY <1>1, BeginImplements DEF Http!Next
<1>2. CASE Perform
  <2>1. PICK F \in SUBSET Running : PerformEnding(F)
    BY <1>2 DEF Perform
  <2>. QED BY <2>1, PerformImplements DEF Running, Http!Next
<1>3. CASE Resume \/ Finish
  <2>1. current \in Requests
    BY <1>3 DEF IInv, TypeOK, CurrentInv, Resume, Finish
  <2>. QED BY <1>3, <2>1, ResumeImplements, FinishImplements DEF Http!Next
<1>4. CASE Join
  BY <1>4, JoinImplements DEF Http!Next
<1>5. CASE \/ \E r \in Requests : Construct(r) \/ Add(r)
           \/ Check \/ Read \/ Detach \/ Back \/ Decide \/ Wake
           \/ Destroy \/ Terminated \/ UNCHANGED vars
  BY <1>5 DEF IInv, ManagerInv, Construct, Add, AddLock, AddAttach, AddWakeup, Check,
         Read, Detach, Back, Decide, Wake, Destroy, Terminated, vars, Http!avars, app, curl
<1>. QED BY <1>1, <1>2, <1>3, <1>4, <1>5 DEF Next

\* Whatever the threads do, the coroutines see AsyncHttp: one request, at most one
\* answer, at most one resumption with that answer, none after the destructor.
THEOREM Implementation == Spec => Implements
<1>1. Init /\ [][Next]_vars /\ []IInv => Http!Init /\ [][Http!Next]_Http!avars
  BY InitImplements, NextImplements, PTL
<1>. QED BY <1>1, Invariance, PTL DEF Spec, Implements, Http!Spec
=============================================================================
