------------------------------ MODULE AsyncHttp ------------------------------
(***************************************************************************)
(* What "co_await an HTTP request" promises the coroutine, with no thread, *)
(* no handle and no queue: a request is issued once, the network answers   *)
(* it at most once, the coroutine is resumed at most once and with exactly *)
(* that answer, and once the service is closed no coroutine is resumed.    *)
(* CurlMultiManager implements this specification.                         *)
(***************************************************************************)
CONSTANTS Requests,     \* executions of perform_async_post
          Answers,      \* what a transfer can end with
          None          \* no answer yet

VARIABLES phase,        \* where each awaiting coroutine is
          answer,       \* what the network answered
          delivered,    \* what the coroutine was resumed with
          open          \* the service still exists

avars == <<phase, answer, delivered, open>>

Init == /\ phase = [r \in Requests |-> "idle"]
        /\ answer = [r \in Requests |-> None]
        /\ delivered = [r \in Requests |-> None]
        /\ open = TRUE

\* A coroutine suspends on a new request.
Issue(r) == /\ open
            /\ phase[r] = "idle"
            /\ phase' = [phase EXCEPT ![r] = "suspended"]
            /\ UNCHANGED <<answer, delivered, open>>

\* The network answers some of the suspended requests, each for the first time.
Respond == /\ open
           /\ answer' \in [Requests -> Answers \cup {None}]
           /\ \A r \in Requests : answer'[r] # answer[r] =>
                 /\ phase[r] = "suspended"
                 /\ answer[r] = None
           /\ UNCHANGED <<phase, delivered, open>>

\* A suspended coroutine continues with the answer of its own request.
Deliver(r) == /\ open
              /\ phase[r] = "suspended"
              /\ answer[r] # None
              /\ phase' = [phase EXCEPT ![r] = "resumed"]
              /\ delivered' = [delivered EXCEPT ![r] = answer[r]]
              /\ UNCHANGED <<answer, open>>

\* The coroutine has consumed the answer and runs to its end.
Complete(r) == /\ open
               /\ phase[r] = "resumed"
               /\ phase' = [phase EXCEPT ![r] = "finished"]
               /\ UNCHANGED <<answer, delivered, open>>

\* The service is destroyed; a request still suspended stays so for ever.
Close == /\ open
         /\ \A r \in Requests : phase[r] # "resumed"
         /\ open' = FALSE
         /\ UNCHANGED <<phase, answer, delivered>>

Next == \/ \E r \in Requests : Issue(r) \/ Deliver(r) \/ Complete(r)
        \/ Respond
        \/ Close

Spec == Init /\ [][Next]_avars
=============================================================================
