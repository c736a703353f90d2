---------------------------- MODULE CircuitBreaker ----------------------------
(***************************************************************************)
(* CircuitBreaker, shared by threads that ask it before every request and  *)
(* record the outcome after it.  Only m_failure_count is atomic; m_state   *)
(* and m_last_failure_time are plain fields, read and written by the       *)
(* threads one access at a time.                                           *)
(***************************************************************************)
EXTENDS Integers, FiniteSets

CONSTANTS Threads,
          Threshold,    \* m_failure_threshold
          ResetTimeout, \* m_reset_timeout
          MaxNow,       \* bound on the steady clock
          MaxCount      \* bound on m_failure_count

ASSUME BreakerAssumption ==
  /\ Threshold \in Nat \ {0} /\ ResetTimeout \in Nat
  /\ MaxNow \in Nat /\ MaxCount \in Nat
  /\ IsFiniteSet(Threads)

VARIABLES
  m_state, m_failure_count, m_last_failure_time,
  now,          \* the steady clock
  pc,           \* thread -> where it is in its call, or between two calls
  read_at       \* thread -> what it last read off the clock

vars == <<m_state, m_failure_count, m_last_failure_time, now, pc, read_at>>
fields == <<m_state, m_failure_count, m_last_failure_time>>

Failure == {"count", "clock", "stamp", "check", "open"}     \* record_failure
Success == {"reset", "close"}                               \* record_success

TypeOK ==
  /\ m_state \in {"CLOSED", "OPEN", "HALF_OPEN"}
  /\ m_failure_count \in 0 .. MaxCount
  /\ m_last_failure_time \in 0 .. MaxNow
  /\ now \in 0 .. MaxNow
  /\ pc \in [Threads -> {"idle", "now", "compare", "probe", "asking"} \cup Failure \cup Success]
  /\ read_at \in [Threads -> 0 .. MaxNow]

Init ==
  /\ m_state = "CLOSED"
  /\ m_failure_count = 0
  /\ m_last_failure_time = 0
  /\ now = 0
  /\ pc = [t \in Threads |-> "idle"]
  /\ read_at = [t \in Threads |-> 0]

Goto(t, from, to) == pc[t] = from /\ pc' = [pc EXCEPT ![t] = to]

ReadClock(t) == read_at' = [read_at EXCEPT ![t] = now]

Tick ==
  /\ now < MaxNow
  /\ now' = now + 1
  /\ UNCHANGED <<fields, pc, read_at>>

-----------------------------------------------------------------------------
(* allow_request                                                           *)

Allow(t) ==
  /\ Goto(t, "idle", IF m_state = "OPEN" THEN "now" ELSE "asking")
  /\ UNCHANGED <<fields, now, read_at>>

ReadNow(t) ==
  /\ Goto(t, "now", "compare")
  /\ ReadClock(t)
  /\ UNCHANGED <<fields, now>>

\* Too early: the request is not made.
Compare(t) ==
  /\ Goto(t, "compare", IF read_at[t] - m_last_failure_time > ResetTimeout
                          THEN "probe" ELSE "idle")
  /\ UNCHANGED <<fields, now, read_at>>

Probe(t) ==
  /\ Goto(t, "probe", "asking")
  /\ m_state' = "HALF_OPEN"
  /\ UNCHANGED <<m_failure_count, m_last_failure_time, now, read_at>>

-----------------------------------------------------------------------------
(* The request, and record_success or record_failure                       *)

Succeeds(t) ==
  /\ Goto(t, "asking", "reset")
  /\ UNCHANGED <<fields, now, read_at>>

Fails(t) ==
  /\ m_failure_count + Cardinality({u \in Threads : pc[u] \in Failure}) < MaxCount
  /\ Goto(t, "asking", "count")
  /\ UNCHANGED <<fields, now, read_at>>

\* Mutant: a success closes the breaker but forgets no failure.
ResetNothing(t) ==
  /\ Goto(t, "reset", "close")
  /\ UNCHANGED <<fields, now, read_at>>

Reset(t) ==
  /\ Goto(t, "reset", "close")
  /\ m_failure_count' = 0
  /\ UNCHANGED <<m_state, m_last_failure_time, now, read_at>>

Close(t) ==
  /\ Goto(t, "close", "idle")
  /\ m_state' = "CLOSED"
  /\ UNCHANGED <<m_failure_count, m_last_failure_time, now, read_at>>

\* Mutant: the counter is not atomic: of two threads that increment it at a time
\* one overwrites what the other has just written.
CountNotAtomic(t) ==
  /\ Goto(t, "count", "clock")
  /\ \/ m_failure_count' = m_failure_count + 1
     \/ /\ \E u \in Threads \ {t} : pc[u] = "clock"
        /\ UNCHANGED m_failure_count
  /\ UNCHANGED <<m_state, m_last_failure_time, now, read_at>>

Count(t) ==
  /\ Goto(t, "count", "clock")
  /\ m_failure_count' = m_failure_count + 1
  /\ UNCHANGED <<m_state, m_last_failure_time, now, read_at>>

FailureNow(t) ==
  /\ Goto(t, "clock", "stamp")
  /\ ReadClock(t)
  /\ UNCHANGED <<fields, now>>

\* Mutant: the time until which requests are refused is stored.
StampDeadline(t) ==
  /\ Goto(t, "stamp", "check")
  /\ m_last_failure_time' = read_at[t] + ResetTimeout
  /\ UNCHANGED <<m_state, m_failure_count, now, read_at>>

\* Mutant: the time of a failed probe is not stored.
StampWhenClosed(t) ==
  /\ Goto(t, "stamp", "check")
  /\ m_last_failure_time' = IF m_state = "CLOSED" THEN read_at[t] ELSE m_last_failure_time
  /\ UNCHANGED <<m_state, m_failure_count, now, read_at>>

\* The thread may be late, and overwrite the time of a later failure.
Stamp(t) ==
  /\ Goto(t, "stamp", "check")
  /\ m_last_failure_time' = read_at[t]
  /\ UNCHANGED <<m_state, m_failure_count, now, read_at>>

Check(t) ==
  /\ Goto(t, "check", IF m_failure_count >= Threshold THEN "open" ELSE "idle")
  /\ UNCHANGED <<fields, now, read_at>>

Open(t) ==
  /\ Goto(t, "open", "idle")
  /\ m_state' = "OPEN"
  /\ UNCHANGED <<m_failure_count, m_last_failure_time, now, read_at>>

Next == \/ Tick
        \/ \E t \in Threads :
             \/ Allow(t) \/ ReadNow(t) \/ Compare(t) \/ Probe(t)
             \/ Succeeds(t) \/ Reset(t) \/ Close(t)
             \/ Fails(t) \/ Count(t) \/ FailureNow(t) \/ Stamp(t) \/ Check(t) \/ Open(t)

Spec == Init /\ [][Next]_vars
=============================================================================
