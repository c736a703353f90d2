------------------------- MODULE CircuitBreakerHistory -------------------------
(***************************************************************************)
(* CircuitBreaker with the history of the calls its promises are about,    *)
(* seen from outside: which calls overlap and in what order they end.      *)
(***************************************************************************)
EXTENDS CircuitBreaker, TLC

VARIABLES
  overlapped,   \* thread -> its record_ call overlaps one of the other kind
  in_a_row,     \* record_failure calls that ended, and overlapped no
                \* record_success, since the last record_success
  blamed,       \* record_failure calls begun since the last record_success
                \* that overlapped none of them; both up to Threshold
  first_read    \* when the first of the failures that were last recorded at
                \* the same time read the clock

hvars == <<vars, overlapped, in_a_row, blamed, first_read>>

Failing(t) == pc[t] \in Failure
Succeeding(t) == pc[t] \in Success

HistoryTypeOK ==
  /\ TypeOK
  /\ overlapped \in [Threads -> BOOLEAN]
  /\ in_a_row \in 0 .. Threshold /\ blamed \in 0 .. Threshold
  /\ first_read \in 0 .. MaxNow

HInit == /\ Init
         /\ overlapped = [t \in Threads |-> FALSE]
         /\ in_a_row = 0 /\ blamed = 0 /\ first_read = 0

UpTo(n) == IF n > Threshold THEN Threshold ELSE n

Begins == \E t \in Threads : ~Failing(t) /\ Failing(t)'
EndsClean == \E t \in Threads : Failing(t) /\ ~Failing(t)' /\ ~overlapped[t]
Forgives == \E t \in Threads : Succeeding(t) /\ ~Succeeding(t)' /\ ~overlapped[t]

Stamping == \E t \in Threads : pc[t] = "stamp"
Reads == \E t \in Threads : pc[t] = "clock" /\ pc'[t] = "stamp"

Record ==
  /\ overlapped' = [t \in Threads |->
       \/ Failing(t)' /\ (overlapped[t] \/ \E u \in Threads : Succeeding(u)')
       \/ Succeeding(t)' /\ (overlapped[t] \/ \E u \in Threads : Failing(u)')]
  /\ in_a_row' = IF \E t \in Threads : Succeeding(t)' THEN 0
                 ELSE UpTo(in_a_row + IF EndsClean THEN 1 ELSE 0)
  /\ blamed' = IF Forgives THEN 0 ELSE UpTo(blamed + IF Begins THEN 1 ELSE 0)
  /\ first_read' = IF Reads /\ ~Stamping THEN now ELSE first_read

HNext == Next /\ Record

HSpec == HInit /\ [][HNext]_hvars

Symmetry == Permutations(Threads)

-----------------------------------------------------------------------------

\* However the threads interleave, the breaker does not miss an outage: after
\* Threshold failures recorded with no success recorded at the same time or in
\* between, it is not closed (record_failure, 54-60).
TripsInOutage == in_a_row = Threshold => m_state # "CLOSED"

\* The breaker does not block a healthy provider: while it is open, at least
\* Threshold failures were recorded after the last success that was recorded
\* apart from any failure (record_success, 49-52).
OpenIsDeserved == m_state = "OPEN" => blamed = Threshold

\* A late thread can shorten the pause by the time it overlapped with others and
\* no more: when a request is let through and no failure is being stored, the
\* reset timeout has passed since the first of the failures that were last
\* recorded at the same time, a probe's own among them (allow_request, 39-42,
\* and record_failure, 56).
PauseIsKept ==
  [][\A t \in Threads :
       pc[t] = "compare" /\ pc'[t] = "probe" /\ ~Stamping => now > first_read + ResetTimeout]_hvars
=============================================================================
