------------------------- MODULE CircuitBreakerProofs -------------------------
(***************************************************************************)
(* For any number of threads, any threshold and any timeout: what          *)
(* CircuitBreakerHistory says of the breaker.  The plain fields may be     *)
(* written in any order; the proofs rest on the atomic counter, which      *)
(* never counts fewer failures than were recorded in a row and never more  *)
(* than are to blame, and on the order of the fields' writes within a call.*)
(***************************************************************************)
EXTENDS CircuitBreakerHistory, FiniteSetTheorems, TLAPS

\* The failures that are about to be counted.
Counting == {t \in Threads : pc[t] = "count"}

\* Those that are counted and not over, and overlap no success.
Counted == {t \in Threads : pc[t] \in Failure \ {"count"} /\ ~overlapped[t]}

\* A failure and a success that are recorded at the same time both know it.
OverlapInv == \A t, u \in Threads : Failing(t) /\ Succeeding(u) => overlapped[t] /\ overlapped[u]

\* The counter has every failure of the present row.
RowInv ==
  /\ \A t \in Threads : Succeeding(t) => in_a_row = 0
  /\ in_a_row + Cardinality(Counted) <= m_failure_count
  /\ TripsInOutage

\* Every failure in the counter is to blame; a success that overlapped no failure
\* leaves the counter empty.
BlameInv ==
  /\ blamed < Threshold => m_failure_count + Cardinality(Counting) <= blamed
  /\ \A t \in Threads : pc[t] = "close" /\ ~overlapped[t] => m_failure_count = 0
  /\ \A t \in Threads : pc[t] = "open" => blamed = Threshold
  /\ OpenIsDeserved

\* The time stored, when no thread is about to store one, is none before the
\* first of the failures that were last recorded together.
PauseInv ==
  /\ \A t \in Threads : read_at[t] <= now /\ (pc[t] = "stamp" => first_read <= read_at[t])
  /\ ~Stamping => first_read <= m_last_failure_time

HInv == /\ HistoryTypeOK /\ OverlapInv /\ RowInv /\ BlameInv /\ PauseInv
        /\ m_failure_count + Cardinality(Counting) <= MaxCount

-----------------------------------------------------------------------------
(* What a step does to the history                                         *)

\* The outcomes of one thread's step.
LEMMA HistoryOfStep ==
  ASSUME HistoryTypeOK, NEW t \in Threads, NEW x, pc' = [pc EXCEPT ![t] = x]
  PROVE  /\ Begins <=> pc[t] \notin Failure /\ x \in Failure
         /\ EndsClean <=> pc[t] \in Failure /\ x \notin Failure /\ ~overlapped[t]
         /\ Forgives <=> pc[t] \in Success /\ x \notin Success /\ ~overlapped[t]
<1>. DEFINE P == [Threads -> {"idle", "now", "compare", "probe", "asking"} \cup Failure \cup Success]
<1>1. pc \in P
  BY DEF HistoryTypeOK, TypeOK
<1>2. pc'[t] = x /\ \A u \in Threads \ {t} : pc'[u] = pc[u]
  BY <1>1
<1>. QED BY <1>2 DEF Begins, EndsClean, Forgives, Failing, Succeeding

\* Saturation.
LEMMA UpToBounds ==
  ASSUME NEW n \in Nat
  PROVE  /\ UpTo(n) \in 0 .. Threshold /\ UpTo(n) <= n
         /\ UpTo(n) < Threshold => UpTo(n) = n
BY BreakerAssumption DEF UpTo

\* Overlaps are marked as they arise.
LEMMA OverlapsMarked == Record => OverlapInv'
BY DEF Record, OverlapInv

\* Sets of threads are finite.
LEMMA ThreadSets ==
  ASSUME NEW S \in SUBSET Threads
  PROVE  IsFiniteSet(S) /\ Cardinality(S) \in Nat
BY BreakerAssumption, FS_Subset, FS_CardinalityType

\* How a step of t changes the two sets.
LEMMA SetsOfStep ==
  ASSUME HistoryTypeOK, Record, NEW t \in Threads, NEW x, pc' = [pc EXCEPT ![t] = x],
         x \in Failure \ {"count"} => pc[t] \in Failure
  PROVE  /\ Cardinality(Counting') = Cardinality(Counting)
                                     - (IF pc[t] = "count" THEN 1 ELSE 0)
                                     + (IF x = "count" THEN 1 ELSE 0)
         /\ Cardinality(Counted') <= Cardinality(Counted) + (IF pc[t] = "count" THEN 1 ELSE 0)
         /\ EndsClean /\ pc[t] # "count" => Cardinality(Counted') <= Cardinality(Counted) - 1
<1>. DEFINE P == [Threads -> {"idle", "now", "compare", "probe", "asking"} \cup Failure \cup Success]
<1>1. pc \in P
  BY DEF HistoryTypeOK, TypeOK
<1>2. pc'[t] = x /\ \A u \in Threads \ {t} : pc'[u] = pc[u]
  BY <1>1
<1>3. /\ Counting \in SUBSET Threads /\ IsFiniteSet(Counting) /\ Cardinality(Counting) \in Nat
      /\ Counted \in SUBSET Threads /\ IsFiniteSet(Counted) /\ Cardinality(Counted) \in Nat
  BY ThreadSets DEF Counting, Counted
<1>4. \A u \in Threads : u \in Counted' => u \in Counted \/ u = t
  BY <1>2 DEF Counted, Record, Failing
<1>5. t \in Counted' => x \in Failure \ {"count"} /\ ~overlapped[t]
  BY <1>2 DEF Counted, Record, Failing
<1>6. Cardinality(Counting') = Cardinality(Counting) - (IF pc[t] = "count" THEN 1 ELSE 0)
                                     + (IF x = "count" THEN 1 ELSE 0)
  <2>1. Counting' = IF x = "count" THEN (Counting \ {t}) \cup {t} ELSE Counting \ {t}
    BY <1>2 DEF Counting
  <2>2. /\ IsFiniteSet(Counting \ {t})
        /\ Cardinality(Counting \ {t}) = Cardinality(Counting) - (IF pc[t] = "count" THEN 1 ELSE 0)
    BY <1>3, FS_RemoveElement DEF Counting
  <2>3. Cardinality((Counting \ {t}) \cup {t}) = Cardinality(Counting \ {t}) + 1
    BY <2>2, FS_AddElement
  <2>. QED BY <1>3, <2>1, <2>2, <2>3
<1>7. CASE pc[t] = "count"
  <2>1. Counted' \subseteq Counted \cup {t}
    BY <1>4 DEF Counted
  <2>2. IsFiniteSet(Counted \cup {t}) /\ Cardinality(Counted \cup {t}) <= Cardinality(Counted) + 1
    <3>1. /\ IsFiniteSet(Counted \cup {t})
          /\ Cardinality(Counted \cup {t}) =
                 IF t \in Counted THEN Cardinality(Counted) ELSE Cardinality(Counted) + 1
      BY <1>3, FS_AddElement
    <3>. QED BY <1>3, <3>1
  <2>3. Cardinality(Counted') <= Cardinality(Counted \cup {t})
    BY <2>1, <2>2, FS_Subset
  <2>4. Cardinality(Counted') \in Nat /\ Cardinality(Counted \cup {t}) \in Nat
    BY <1>3, <2>2, FS_CardinalityType, ThreadSets DEF Counted
  <2>. QED BY <1>3, <1>6, <1>7, <2>2, <2>3, <2>4
<1>8. CASE pc[t] # "count"
  <2>1. Counted' \subseteq Counted
    BY <1>4, <1>5, <1>8 DEF Counted
  <2>2. Cardinality(Counted') <= Cardinality(Counted)
    BY <1>3, <2>1, FS_Subset
  <2>3. ASSUME EndsClean PROVE Cardinality(Counted') <= Cardinality(Counted) - 1
    <3>1. t \in Counted /\ t \notin Counted'
      BY <1>5, <1>8, <2>3, HistoryOfStep DEF Counted
    <3>2. Counted' \subseteq Counted \ {t}
      BY <2>1, <3>1
    <3>3. IsFiniteSet(Counted \ {t}) /\ Cardinality(Counted \ {t}) = Cardinality(Counted) - 1
      BY <1>3, <3>1, FS_RemoveElement
    <3>. QED BY <3>2, <3>3, FS_Subset
  <2>. QED BY <1>3, <1>6, <1>8, <2>2, <2>3
<1>. QED BY <1>7, <1>8

\* The history has its types after every step.
LEMMA RecordTypes ==
  ASSUME HistoryTypeOK, Record
  PROVE  /\ overlapped' \in [Threads -> BOOLEAN]
         /\ in_a_row' \in 0 .. Threshold /\ blamed' \in 0 .. Threshold
         /\ first_read' \in 0 .. MaxNow
<1>1. overlapped' \in [Threads -> BOOLEAN]
  BY DEF Record, HistoryTypeOK
<1>2. in_a_row \in Nat /\ blamed \in Nat /\ 0 \in 0 .. Threshold
  BY BreakerAssumption DEF HistoryTypeOK
<1>3. in_a_row' \in 0 .. Threshold /\ blamed' \in 0 .. Threshold
  <2>1. UpTo(in_a_row + IF EndsClean THEN 1 ELSE 0) \in 0 .. Threshold
    BY <1>2, UpToBounds
  <2>2. UpTo(blamed + IF Begins THEN 1 ELSE 0) \in 0 .. Threshold
    BY <1>2, UpToBounds
  <2>. QED BY <1>2, <2>1, <2>2 DEF Record
<1>4. first_read' \in 0 .. MaxNow
  BY DEF Record, HistoryTypeOK, TypeOK
<1>. QED BY <1>1, <1>3, <1>4


-----------------------------------------------------------------------------
(* The rules every step of a thread obeys                                  *)

Rules(t, x) ==
  /\ pc' = [pc EXCEPT ![t] = x]
  /\ x \in Failure \ {"count"} => pc[t] \in Failure
  /\ pc[t] = "count" => x = "clock"
  /\ x = "count" => /\ pc[t] \notin Failure \cup Success
                    /\ m_failure_count + Cardinality(Counting) < MaxCount
  /\ x = "close" => pc[t] = "reset"
  /\ m_failure_count' = IF x = "close" THEN 0
                        ELSE m_failure_count + (IF pc[t] = "count" THEN 1 ELSE 0)
  /\ pc[t] \in Failure /\ x \notin Failure => m_state' = "OPEN" \/ m_failure_count < Threshold
  /\ x = "open" => m_failure_count >= Threshold
  /\ pc[t] \in Success /\ x \notin Success => pc[t] = "close" /\ m_state' = "CLOSED"
  /\ m_state' = "CLOSED" => m_state = "CLOSED" \/ pc[t] = "close"
  /\ m_state' = "OPEN" => m_state = "OPEN" \/ pc[t] = "open"

\* A thread outside of record_failure and record_success.
LEMMA AskingObeys ==
  ASSUME HInv, NEW t \in Threads,
         Allow(t) \/ ReadNow(t) \/ Compare(t) \/ Probe(t) \/ Succeeds(t)
  PROVE  \E x : Rules(t, x)
<1>1. m_failure_count \in Nat
  BY DEF HInv, HistoryTypeOK, TypeOK
<1>2. CASE Allow(t)
  <2>. DEFINE x == IF m_state = "OPEN" THEN "now" ELSE "asking"
  <2>1. Rules(t, x)
    BY <1>1, <1>2 DEF Allow, Goto, fields, Rules, Failure, Success
  <2>. QED BY <2>1
<1>3. CASE ReadNow(t)
  <2>1. Rules(t, "compare")
    BY <1>1, <1>3 DEF ReadNow, Goto, fields, Rules, Failure, Success
  <2>. QED BY <2>1
<1>4. CASE Compare(t)
  <2>. DEFINE x == IF read_at[t] - m_last_failure_time > ResetTimeout THEN "probe" ELSE "idle"
  <2>1. Rules(t, x)
    BY <1>1, <1>4 DEF Compare, Goto, fields, Rules, Failure, Success
  <2>. QED BY <2>1
<1>5. CASE Probe(t)
  <2>1. Rules(t, "asking")
    BY <1>1, <1>5 DEF Probe, Goto, Rules, Failure, Success
  <2>. QED BY <2>1
<1>6. CASE Succeeds(t)
  <2>1. Rules(t, "reset")
    BY <1>1, <1>6 DEF Succeeds, Goto, fields, Rules, Failure, Success
  <2>. QED BY <2>1
<1>. QED BY <1>2, <1>3, <1>4, <1>5, <1>6

\* record_success.
LEMMA SuccessObeys ==
  ASSUME HInv, NEW t \in Threads, Reset(t) \/ Close(t)
  PROVE  \E x : Rules(t, x)
<1>1. m_failure_count \in Nat
  BY DEF HInv, HistoryTypeOK, TypeOK
<1>2. CASE Reset(t)
  <2>1. Rules(t, "close")
    BY <1>1, <1>2 DEF Reset, Goto, Rules, Failure, Success
  <2>. QED BY <2>1
<1>3. CASE Close(t)
  <2>1. Rules(t, "idle")
    BY <1>1, <1>3 DEF Close, Goto, Rules, Failure, Success
  <2>. QED BY <2>1
<1>. QED BY <1>2, <1>3

\* A failure begins within the bound on the counter.
LEMMA FailsObeys ==
  ASSUME HInv, NEW t \in Threads, Fails(t)
  PROVE  Rules(t, "count")
<1>1. m_failure_count \in Nat
  BY DEF HInv, HistoryTypeOK, TypeOK
<1>. DEFINE F == {u \in Threads : pc[u] \in Failure}
<1>2. Cardinality(Counting) \in Nat /\ Cardinality(F) \in Nat /\ IsFiniteSet(F)
  BY ThreadSets DEF Counting
<1>3. Cardinality(Counting) <= Cardinality(F)
  BY <1>2, FS_Subset DEF Counting, Failure
<1>4. m_failure_count + Cardinality(F) < MaxCount
  BY DEF Fails
<1>5. m_failure_count + Cardinality(Counting) < MaxCount
  BY <1>1, <1>2, <1>3, <1>4, BreakerAssumption
<1>. QED BY <1>1, <1>5 DEF Fails, Goto, fields, Rules, Failure, Success

\* record_failure: the counter first, the state last.
LEMMA FailureObeys ==
  ASSUME HInv, NEW t \in Threads,
         Count(t) \/ FailureNow(t) \/ Stamp(t) \/ Check(t) \/ Open(t)
  PROVE  \E x : Rules(t, x)
<1>1. m_failure_count \in Nat /\ Threshold \in Nat
  BY BreakerAssumption DEF HInv, HistoryTypeOK, TypeOK
<1>2. CASE Count(t)
  <2>1. Rules(t, "clock")
    BY <1>1, <1>2 DEF Count, Goto, Rules, Failure, Success
  <2>. QED BY <2>1
<1>3. CASE FailureNow(t)
  <2>1. Rules(t, "stamp")
    BY <1>1, <1>3 DEF FailureNow, Goto, fields, Rules, Failure, Success
  <2>. QED BY <2>1
<1>4. CASE Stamp(t)
  <2>1. Rules(t, "check")
    BY <1>1, <1>4 DEF Stamp, Goto, Rules, Failure, Success
  <2>. QED BY <2>1
<1>5. CASE Check(t)
  <2>. DEFINE x == IF m_failure_count >= Threshold THEN "open" ELSE "idle"
  <2>1. Rules(t, x)
    BY <1>1, <1>5 DEF Check, Goto, fields, Rules, Failure, Success
  <2>. QED BY <2>1
<1>6. CASE Open(t)
  <2>1. Rules(t, "idle")
    BY <1>1, <1>6 DEF Open, Goto, Rules, Failure, Success
  <2>. QED BY <2>1
<1>. QED BY <1>2, <1>3, <1>4, <1>5, <1>6

\* A step that obeys the rules preserves what the counter stands for.
LEMMA RulesPreserve ==
  ASSUME HInv, Record, NEW t \in Threads, NEW x, Rules(t, x)
  PROVE  /\ OverlapInv' /\ RowInv' /\ BlameInv'
         /\ m_failure_count' + Cardinality(Counting') <= MaxCount
<1>. DEFINE P == [Threads -> {"idle", "now", "compare", "probe", "asking"} \cup Failure \cup Success]
<1>1. pc \in P /\ m_failure_count \in Nat /\ in_a_row \in Nat /\ blamed \in Nat
      /\ in_a_row <= Threshold /\ blamed <= Threshold /\ Threshold \in Nat \ {0} /\ MaxCount \in Nat
  BY BreakerAssumption DEF HInv, HistoryTypeOK, TypeOK
<1>2. pc'[t] = x /\ \A u \in Threads \ {t} : pc'[u] = pc[u]
  BY <1>1 DEF Rules
<1>3. /\ Cardinality(Counting) \in Nat /\ Cardinality(Counting') \in Nat
      /\ Cardinality(Counted) \in Nat /\ Cardinality(Counted') \in Nat
  BY ThreadSets DEF Counting, Counted
<1>4. /\ Cardinality(Counting') = Cardinality(Counting)
                                     - (IF pc[t] = "count" THEN 1 ELSE 0)
                                     + (IF x = "count" THEN 1 ELSE 0)
      /\ Cardinality(Counted') <= Cardinality(Counted) + (IF pc[t] = "count" THEN 1 ELSE 0)
      /\ EndsClean /\ pc[t] # "count" => Cardinality(Counted') <= Cardinality(Counted) - 1
  BY SetsOfStep DEF HInv, Rules
<1>5. /\ Begins <=> pc[t] \notin Failure /\ x \in Failure
      /\ EndsClean <=> pc[t] \in Failure /\ x \notin Failure /\ ~overlapped[t]
      /\ Forgives <=> pc[t] \in Success /\ x \notin Success /\ ~overlapped[t]
  BY HistoryOfStep DEF HInv, Rules
<1>6. OverlapInv'
  BY OverlapsMarked
<1>7. m_failure_count' + Cardinality(Counting') <= MaxCount
  BY <1>1, <1>3, <1>4 DEF HInv, Rules, Failure, Success
<1>8. RowInv'
  <2>1. \A u \in Threads : Succeeding(u)' => in_a_row' = 0
    BY DEF Record
  <2>2. in_a_row' <= in_a_row + (IF EndsClean THEN 1 ELSE 0) /\ in_a_row' \in Nat
    BY <1>1, UpToBounds DEF Record
  <2>3. in_a_row' + Cardinality(Counted') <= m_failure_count'
    <3>1. CASE x = "close"
      <4>1. Succeeding(t)'
        BY <1>2, <3>1 DEF Succeeding, Success
      <4>2. Counted' = {}
        BY <1>6, <4>1 DEF Counted, OverlapInv, Failing
      <4>3. Cardinality(Counted') = 0
        BY <4>2, FS_EmptySet
      <4>. QED BY <2>1, <3>1, <4>1, <4>3 DEF Rules
    <3>2. CASE x # "close" /\ EndsClean
      <4>1. pc[t] # "count"
        BY <1>5, <3>2 DEF Rules, Failure
      <4>2. m_failure_count' = m_failure_count
        BY <1>1, <3>2, <4>1 DEF Rules
      <4>. QED BY <1>1, <1>3, <1>4, <2>2, <3>2, <4>1, <4>2 DEF HInv, RowInv
    <3>3. CASE x # "close" /\ ~EndsClean
      <4>1. m_failure_count' = m_failure_count + (IF pc[t] = "count" THEN 1 ELSE 0)
        BY <3>3 DEF Rules
      <4>. QED BY <1>1, <1>3, <1>4, <2>2, <3>3, <4>1 DEF HInv, RowInv
    <3>. QED BY <3>1, <3>2, <3>3
  <2>4. ASSUME in_a_row' = Threshold, m_state' = "CLOSED" PROVE FALSE
    <3>1. CASE pc[t] = "close"
      <4>1. in_a_row = 0 /\ ~EndsClean
        BY <1>5, <3>1 DEF HInv, RowInv, Succeeding, Success, Failure
      <4>. QED BY <1>1, <2>2, <2>4, <4>1
    <3>2. CASE m_state = "CLOSED" /\ pc[t] # "close"
      <4>1. in_a_row < Threshold
        BY <1>1, <3>2 DEF HInv, RowInv, TripsInOutage
      <4>2. EndsClean
        BY <1>1, <2>2, <2>4, <4>1
      <4>3. m_failure_count < Threshold
        BY <1>5, <2>4, <4>2 DEF Rules
      <4>4. m_failure_count' = m_failure_count
        BY <1>1, <1>5, <4>2 DEF Rules, Failure
      <4>. QED BY <1>1, <1>3, <2>2, <2>3, <2>4, <4>3, <4>4
    <3>. QED BY <2>4, <3>1, <3>2 DEF Rules
  <2>. QED BY <2>1, <2>3, <2>4 DEF RowInv, TripsInOutage
<1>9. BlameInv'
  <2>1. Forgives => /\ blamed' = 0 /\ m_failure_count' = 0 /\ Cardinality(Counting') = 0
                    /\ \A u \in Threads : ~Failing(u)'
    <3>. SUFFICES ASSUME Forgives
         PROVE  /\ blamed' = 0 /\ m_failure_count' = 0 /\ Cardinality(Counting') = 0
                /\ \A u \in Threads : ~Failing(u)'
      OBVIOUS
    <3>1. pc[t] = "close" /\ ~overlapped[t] /\ x \notin Success
      BY <1>5 DEF Rules
    <3>2. x \notin Failure
      BY <3>1 DEF Rules, Failure, Success
    <3>3. \A u \in Threads : ~Failing(u)
      BY <3>1 DEF HInv, OverlapInv, Succeeding, Success
    <3>4. \A u \in Threads : ~Failing(u)'
      BY <1>2, <3>2, <3>3 DEF Failing
    <3>5. Counting' = {}
      BY <3>4 DEF Counting, Failing, Failure
    <3>6. m_failure_count' = 0
      BY <1>1, <3>1 DEF HInv, BlameInv, Rules
    <3>. QED BY <3>4, <3>5, <3>6, FS_EmptySet DEF Record
  <2>2. ~Forgives => /\ blamed' \in 0 .. Threshold
                     /\ blamed' <= blamed + (IF Begins THEN 1 ELSE 0)
                     /\ blamed' < Threshold => blamed' = blamed + (IF Begins THEN 1 ELSE 0)
    BY <1>1, UpToBounds DEF Record
  <2>3. blamed' < Threshold => m_failure_count' + Cardinality(Counting') <= blamed'
    <3>1. CASE Forgives
      BY <2>1, <3>1
    <3>2. CASE ~Forgives /\ blamed' < Threshold
      <4>1. blamed < Threshold /\ m_failure_count + Cardinality(Counting) <= blamed
        BY <1>1, <2>2, <3>2 DEF HInv, BlameInv
      <4>2. x = "count" => Begins
        BY <1>5 DEF Rules, Failure, Success
      <4>3. pc[t] = "count" => x # "count"
        BY DEF Rules
      <4>4. m_failure_count' <= m_failure_count + (IF pc[t] = "count" THEN 1 ELSE 0)
            /\ m_failure_count' \in Nat
        BY <1>1 DEF Rules
      <4>. QED BY <1>1, <1>3, <1>4, <2>2, <3>2, <4>1, <4>2, <4>3, <4>4
    <3>. QED BY <3>1, <3>2
  <2>4. ASSUME NEW u \in Threads, pc'[u] = "close", ~overlapped'[u] PROVE m_failure_count' = 0
    <3>1. CASE u = t
      BY <1>2, <2>4, <3>1 DEF Rules
    <3>2. CASE u # t
      <4>1. pc[u] = "close" /\ ~overlapped[u]
        BY <1>2, <2>4, <3>2 DEF Record, Succeeding, Success
      <4>2. m_failure_count = 0
        BY <4>1 DEF HInv, BlameInv
      <4>3. pc[t] # "count"
        BY <4>1 DEF HInv, OverlapInv, Failing, Succeeding, Failure, Success
      <4>. QED BY <4>2, <4>3 DEF Rules
    <3>. QED BY <3>1, <3>2
  <2>5. blamed = Threshold /\ ~Forgives => blamed' = Threshold
    BY <1>1, <2>2
  <2>6. ASSUME NEW u \in Threads, pc'[u] = "open" PROVE blamed' = Threshold
    <3>1. ~Forgives
      BY <2>1, <2>6 DEF Failing, Failure
    <3>2. CASE u = t
      <4>1. m_failure_count >= Threshold
        BY <1>2, <2>6, <3>2 DEF Rules
      <4>2. blamed = Threshold
        BY <1>1, <1>3, <4>1 DEF HInv, BlameInv
      <4>. QED BY <2>5, <3>1, <4>2
    <3>3. CASE u # t
      BY <1>2, <2>5, <2>6, <3>1, <3>3 DEF HInv, BlameInv
    <3>. QED BY <3>2, <3>3
  <2>7. m_state' = "OPEN" => blamed' = Threshold
    <3>1. m_state' = "OPEN" => ~Forgives
      BY <1>5 DEF Rules
    <3>2. m_state' = "OPEN" => blamed = Threshold
      BY DEF HInv, BlameInv, OpenIsDeserved, Rules
    <3>. QED BY <2>5, <3>1, <3>2
  <2>. QED BY <2>3, <2>4, <2>6, <2>7 DEF BlameInv, OpenIsDeserved
<1>. QED BY <1>6, <1>7, <1>8, <1>9

-----------------------------------------------------------------------------
(* The clock                                                               *)

\* Each field keeps its type; the counter because Fails leaves room for it.
LEMMA TypePreserves ==
  ASSUME HInv, Next, m_failure_count' + Cardinality(Counting') <= MaxCount
  PROVE  TypeOK'
<1>. USE DEF HInv, HistoryTypeOK, TypeOK, Goto, fields, ReadClock, Failure, Success
<1>1. CASE Tick
  BY <1>1, BreakerAssumption DEF Tick
<1>2. ASSUME NEW t \in Threads, Allow(t) \/ ReadNow(t) \/ Compare(t) \/ Probe(t) \/ Succeeds(t)
      PROVE  TypeOK'
  BY <1>2 DEF Allow, ReadNow, Compare, Probe, Succeeds
<1>3. ASSUME NEW t \in Threads, Reset(t) \/ Close(t) PROVE TypeOK'
  BY <1>3, BreakerAssumption DEF Reset, Close
<1>4. ASSUME NEW t \in Threads, Count(t) PROVE TypeOK'
  <2>1. Cardinality(Counting') \in Nat
    BY ThreadSets DEF Counting
  <2>2. m_failure_count' \in Nat /\ m_failure_count' <= MaxCount
    BY <1>4, <2>1, BreakerAssumption DEF Count
  <2>3. m_failure_count' \in 0 .. MaxCount
    BY <2>2, BreakerAssumption
  <2>. QED BY <1>4, <2>3 DEF Count
<1>5. ASSUME NEW t \in Threads, Fails(t) \/ FailureNow(t) \/ Stamp(t) \/ Check(t) \/ Open(t)
      PROVE  TypeOK'
  BY <1>5 DEF Fails, FailureNow, Stamp, Check, Open
<1>. QED BY <1>1, <1>2, <1>3, <1>4, <1>5 DEF Next

\* A thread that is about to store a time read it no earlier than the first of
\* those that are; the last of them to store leaves no earlier time.
LEMMA PausePreserves ==
  ASSUME HInv, Next, Record
  PROVE  PauseInv'
<1>. DEFINE P == [Threads -> {"idle", "now", "compare", "probe", "asking"} \cup Failure \cup Success]
<1>1. /\ pc \in P /\ read_at \in [Threads -> Nat] /\ now \in Nat
      /\ m_last_failure_time \in Nat /\ first_read \in Nat
  BY DEF HInv, HistoryTypeOK, TypeOK
<1>2. \A u \in Threads : read_at[u] <= now /\ (pc[u] = "stamp" => first_read <= read_at[u])
  BY DEF HInv, PauseInv
<1>3. CASE Tick
  <2>1. ~Reads
    BY <1>3 DEF Tick, Reads
  <2>2. UNCHANGED <<pc, read_at, first_read, m_last_failure_time>> /\ now' = now + 1
    BY <1>3, <2>1 DEF Tick, Record, fields
  <2>. QED BY <1>1, <1>2, <2>2 DEF HInv, PauseInv, Stamping
<1>4. ASSUME NEW t \in Threads, FailureNow(t) PROVE PauseInv'
  <2>1. /\ pc[t] = "clock" /\ pc' = [pc EXCEPT ![t] = "stamp"]
        /\ read_at' = [read_at EXCEPT ![t] = now]
        /\ now' = now /\ m_last_failure_time' = m_last_failure_time
    BY <1>4 DEF FailureNow, Goto, ReadClock, fields
  <2>2. pc'[t] = "stamp" /\ Reads /\ Stamping'
    BY <1>1, <2>1 DEF Reads, Stamping
  <2>3. CASE Stamping
    <3>1. first_read' = first_read
      BY <2>3 DEF Record
    <3>2. first_read <= now
      BY <1>1, <1>2, <2>3 DEF Stamping
    <3>. QED BY <1>1, <1>2, <2>1, <2>2, <3>1, <3>2 DEF PauseInv
  <2>4. CASE ~Stamping
    <3>1. first_read' = now
      BY <2>2, <2>4 DEF Record
    <3>. QED BY <1>1, <1>2, <2>1, <2>2, <2>4, <3>1 DEF PauseInv, Stamping
  <2>. QED BY <2>3, <2>4
<1>5. ASSUME NEW t \in Threads, Stamp(t) PROVE PauseInv'
  <2>1. /\ pc[t] = "stamp" /\ pc' = [pc EXCEPT ![t] = "check"]
        /\ m_last_failure_time' = read_at[t]
        /\ now' = now /\ read_at' = read_at
    BY <1>5 DEF Stamp, Goto
  <2>2. first_read' = first_read
    BY <1>1, <2>1 DEF Record, Reads
  <2>. QED BY <1>1, <1>2, <2>1, <2>2 DEF PauseInv
<1>6. ASSUME NEW t \in Threads, NEW x, pc' = [pc EXCEPT ![t] = x], pc[t] # "stamp", x # "stamp",
             \/ read_at' = read_at
             \/ read_at' = [read_at EXCEPT ![t] = now],
             now' = now, m_last_failure_time' = m_last_failure_time
      PROVE  PauseInv'
  <2>1. ~Reads
    BY <1>1, <1>6 DEF Reads
  <2>2. first_read' = first_read
    BY <2>1 DEF Record
  <2>3. \A u \in Threads : pc'[u] = "stamp" <=> pc[u] = "stamp"
    BY <1>1, <1>6
  <2>4. \A u \in Threads : read_at'[u] <= now' /\ (pc'[u] = "stamp" => read_at'[u] = read_at[u])
    BY <1>1, <1>2, <1>6
  <2>. QED BY <1>1, <1>2, <1>6, <2>2, <2>3, <2>4 DEF HInv, PauseInv, Stamping
<1>7. ASSUME NEW t \in Threads,
             Allow(t) \/ ReadNow(t) \/ Compare(t) \/ Probe(t) \/ Succeeds(t) \/ Reset(t)
             \/ Close(t) \/ Fails(t) \/ Count(t) \/ Check(t) \/ Open(t)
      PROVE  PauseInv'
  <2>1. now' = now /\ m_last_failure_time' = m_last_failure_time
    BY <1>7 DEF Allow, ReadNow, Compare, Probe, Succeeds, Reset, Close, Fails, Count, Check, Open,
                fields
  <2>2. \/ read_at' = read_at
        \/ read_at' = [read_at EXCEPT ![t] = now]
    BY <1>7 DEF Allow, ReadNow, Compare, Probe, Succeeds, Reset, Close, Fails, Count, Check, Open,
                ReadClock
  <2>3. \E x : pc' = [pc EXCEPT ![t] = x] /\ pc[t] # "stamp" /\ x # "stamp"
    <3>1. CASE Allow(t)
      BY <3>1 DEF Allow, Goto
    <3>2. CASE Compare(t)
      BY <3>2 DEF Compare, Goto
    <3>3. CASE Check(t)
      BY <3>3 DEF Check, Goto
    <3>4. CASE ReadNow(t) \/ Probe(t) \/ Succeeds(t) \/ Reset(t) \/ Close(t) \/ Fails(t) \/ Count(t) \/ Open(t)
      BY <3>4 DEF ReadNow, Probe, Succeeds, Reset, Close, Fails, Count, Open, Goto
    <3>. QED BY <1>7, <3>1, <3>2, <3>3, <3>4
  <2>4. PICK x : pc' = [pc EXCEPT ![t] = x] /\ pc[t] # "stamp" /\ x # "stamp"
    BY <2>3
  <2>. QED BY <1>6, <2>1, <2>2, <2>4
<1>. QED BY <1>3, <1>4, <1>5, <1>7 DEF Next

-----------------------------------------------------------------------------

\* Time passes between two accesses.
LEMMA TickPreserves ==
  ASSUME HInv, Tick, Record
  PROVE  /\ OverlapInv' /\ RowInv' /\ BlameInv'
         /\ m_failure_count' + Cardinality(Counting') <= MaxCount
<1>1. UNCHANGED <<pc, m_state, m_failure_count>>
  BY DEF Tick, fields
<1>2. ~Begins /\ ~EndsClean /\ ~Forgives
  BY <1>1 DEF Begins, EndsClean, Forgives, Failing, Succeeding
<1>3. in_a_row \in 0 .. Threshold /\ blamed \in 0 .. Threshold
  BY DEF HInv, HistoryTypeOK
<1>4. UpTo(in_a_row) = in_a_row /\ UpTo(blamed) = blamed
  BY <1>3, BreakerAssumption DEF UpTo
<1>5. blamed' = blamed
  BY <1>2, <1>3, <1>4, BreakerAssumption DEF Record
<1>6. in_a_row' = in_a_row
  <2>1. (\E u \in Threads : Succeeding(u)') => in_a_row = 0
    BY <1>1 DEF Succeeding, HInv, RowInv
  <2>. QED BY <1>2, <1>3, <1>4, <2>1, BreakerAssumption DEF Record
<1>7. Counting' = Counting
  BY <1>1 DEF Counting
<1>8. Cardinality(Counted') <= Cardinality(Counted)
      /\ Cardinality(Counted) \in Nat /\ Cardinality(Counted') \in Nat
  <2>1. Counted' \subseteq Counted
    BY <1>1 DEF Counted, Record, Failing
  <2>. QED BY <2>1, ThreadSets, FS_Subset DEF Counted
<1>9. RowInv'
  BY <1>1, <1>3, <1>6, <1>8 DEF HInv, HistoryTypeOK, TypeOK, RowInv, TripsInOutage, Succeeding
<1>10. \A u \in Threads : pc'[u] = "close" /\ ~overlapped'[u] => ~overlapped[u]
  BY <1>1 DEF Record, Succeeding, Success
<1>11. BlameInv'
  BY <1>1, <1>5, <1>7, <1>10 DEF HInv, BlameInv, OpenIsDeserved
<1>. QED BY <1>1, <1>7, <1>9, <1>11, OverlapsMarked DEF HInv

\* No step breaks the invariant.
LEMMA HNextPreserves == HInv /\ [HNext]_hvars => HInv'
<1>. SUFFICES ASSUME HInv, [HNext]_hvars PROVE HInv'
  OBVIOUS
<1>1. CASE HNext
  <2>1. /\ OverlapInv' /\ RowInv' /\ BlameInv'
        /\ m_failure_count' + Cardinality(Counting') <= MaxCount
    <3>1. CASE Tick
      BY <1>1, <3>1, TickPreserves DEF HNext
    <3>2. ASSUME NEW t \in Threads, \E x : Rules(t, x)
          PROVE  /\ OverlapInv' /\ RowInv' /\ BlameInv'
                 /\ m_failure_count' + Cardinality(Counting') <= MaxCount
      BY <1>1, <3>2, RulesPreserve DEF HNext
    <3>. QED BY <1>1, <3>1, <3>2, AskingObeys, SuccessObeys, FailsObeys, FailureObeys DEF HNext, Next
  <2>2. HistoryTypeOK'
    BY <1>1, <2>1, TypePreserves, RecordTypes DEF HNext, HInv, HistoryTypeOK
  <2>3. PauseInv'
    BY <1>1, PausePreserves DEF HNext
  <2>. QED BY <2>1, <2>2, <2>3 DEF HInv
<1>2. CASE UNCHANGED hvars
  <2>. USE <1>2 DEF hvars, vars
  <2>1. HistoryTypeOK' /\ OverlapInv'
    BY DEF HInv, HistoryTypeOK, TypeOK, OverlapInv, Failing, Succeeding
  <2>2. Counting' = Counting /\ Counted' = Counted
    BY DEF Counting, Counted
  <2>3. RowInv' /\ BlameInv'
    BY <2>2 DEF HInv, RowInv, BlameInv, TripsInOutage, OpenIsDeserved, Succeeding
  <2>4. PauseInv'
    BY DEF HInv, PauseInv, Stamping
  <2>. QED BY <2>1, <2>2, <2>3, <2>4 DEF HInv
<1>. QED BY <1>1, <1>2

\* A breaker before its first call.
LEMMA HInitEstablishes == HInit => HInv
<1>. SUFFICES ASSUME HInit PROVE HInv
  OBVIOUS
<1>1. \A t \in Threads : pc[t] = "idle"
  BY DEF HInit, Init
<1>2. Counting = {} /\ Counted = {}
  BY <1>1 DEF Counting, Counted, Failure
<1>3. Cardinality(Counting) = 0 /\ Cardinality(Counted) = 0
  BY <1>2, FS_EmptySet
<1>4. 0 \in 0 .. MaxCount /\ 0 \in 0 .. MaxNow /\ 0 \in 0 .. Threshold
  BY BreakerAssumption
<1>5. HistoryTypeOK
  BY <1>4 DEF HInit, Init, HistoryTypeOK, TypeOK
<1>6. OverlapInv /\ PauseInv
  BY <1>1 DEF HInit, Init, OverlapInv, PauseInv, Failing, Failure
<1>7. RowInv /\ BlameInv
  BY <1>1, <1>3, BreakerAssumption
  DEF HInit, Init, RowInv, BlameInv, TripsInOutage, OpenIsDeserved
<1>. QED BY <1>3, <1>5, <1>6, <1>7, BreakerAssumption DEF HInv, HInit, Init

\* HInv holds of every behaviour.
THEOREM HistoryInvariance == HSpec => []HInv
BY HInitEstablishes, HNextPreserves, PTL DEF HSpec

\* Every variable has its type, the history included.
THEOREM HistoryTypeCorrect == HSpec => []HistoryTypeOK
<1>1. HInv => HistoryTypeOK
  BY DEF HInv
<1>. QED BY <1>1, HistoryInvariance, PTL

\* Threshold failures in a row trip the breaker, in whatever order the threads
\* write the plain fields (record_failure, 54-60).
THEOREM AlwaysTrips == HSpec => []TripsInOutage
<1>1. HInv => TripsInOutage
  BY DEF HInv, RowInv
<1>. QED BY <1>1, HistoryInvariance, PTL

\* An open breaker has Threshold failures after the last success that was apart
\* from any (record_success, 49-52).
THEOREM AlwaysDeserved == HSpec => []OpenIsDeserved
<1>1. HInv => OpenIsDeserved
  BY DEF HInv, BlameInv
<1>. QED BY <1>1, HistoryInvariance, PTL

\* No request is let through before the timeout has passed since the first of the
\* failures that were last recorded together (allow_request, 39-42).
THEOREM PauseAlwaysKept == HSpec => PauseIsKept
<1>1. HInv /\ [HNext]_hvars =>
        [\A t \in Threads :
           pc[t] = "compare" /\ pc'[t] = "probe" /\ ~Stamping =>
             now > first_read + ResetTimeout]_hvars
  <2>. SUFFICES ASSUME HInv, HNext, NEW t \in Threads,
                       pc[t] = "compare", pc'[t] = "probe", ~Stamping
       PROVE  now > first_read + ResetTimeout
    OBVIOUS
  <2>. DEFINE P == [Threads -> {"idle", "now", "compare", "probe", "asking"} \cup Failure \cup Success]
  <2>1. /\ pc \in P /\ read_at \in [Threads -> Nat] /\ now \in Nat
        /\ m_last_failure_time \in Nat /\ first_read \in Nat
    BY DEF HInv, HistoryTypeOK, TypeOK
  <2>2. Compare(t)
    BY <2>1 DEF HNext, Next, Tick, Allow, ReadNow, Compare, Probe, Succeeds, Reset, Close, Fails,
                Count, FailureNow, Stamp, Check, Open, Goto, fields
  <2>3. read_at[t] - m_last_failure_time > ResetTimeout
    BY <2>1, <2>2 DEF Compare, Goto
  <2>4. read_at[t] <= now /\ first_read <= m_last_failure_time
    BY DEF HInv, PauseInv
  <2>. QED BY <2>1, <2>3, <2>4, BreakerAssumption
<1>. QED BY <1>1, HistoryInvariance, PTL DEF HSpec, PauseIsKept
=============================================================================
