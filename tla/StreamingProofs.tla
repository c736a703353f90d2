---------------------------- MODULE StreamingProofs ----------------------------
(***************************************************************************)
(* For a response of any length: what Streaming promises.  Consumer and    *)
(* body are coroutines of each other, so the inductive invariant says for  *)
(* each pair of places they can be at which frames exist, which of them    *)
(* runs, and how many words are on their way from one to the other.        *)
(***************************************************************************)
EXTENDS Streaming, TLAPS

\* Where the consumer is, and the frame of analyze_stream.
ConsumerInv ==
  /\ upc = "start" => frame["stream"] = "none" /\ spc = "entry"
  /\ upc = "begin" => frame["stream"] = "suspended" /\ spc = "entry"
  /\ upc = "next" => frame["stream"] = "suspended"
  /\ upc = "leave" => frame["stream"] \in {"suspended", "final"}
  /\ upc = "over" => frame["stream"] = "none" /\ frame["tokens"] = "none"
  /\ upc = "test" => frame["stream"] = IF control # "consumer" THEN "running"
                                       ELSE IF at_end["stream"] THEN "final"
                                       ELSE "suspended"
  /\ upc # "test" => control = "consumer"
  /\ broke => upc \in {"leave", "over"}

\* Where the body of analyze_stream is, and the frame of query_stream.
BodyInv ==
  /\ spc \in {"entry", "return"} => frame["tokens"] = "none" /\ control # "tokens"
  /\ spc = "entry" => upc \in {"start", "begin"} \/ control = "stream"
  /\ spc = "begin" => frame["tokens"] = "suspended" /\ control = "stream"
  /\ spc = "test" => /\ control # "consumer"
                     /\ frame["tokens"] = IF control = "tokens" THEN "running"
                                          ELSE IF at_end["tokens"] THEN "final"
                                          ELSE "suspended"
  /\ spc = "next" => /\ control # "tokens"
                     /\ upc # "over" => frame["tokens"] = "suspended"
  /\ frame["stream"] = "final" => spc = "return"
  /\ spc \in {"begin", "test", "next"} => Piped

\* The words that were read are those received, and at most one that is in a
\* current_value.
WordsInv ==
  /\ read <= words
  /\ received = [i \in 1 .. Len(received) |-> i]
  /\ spc \in {"entry", "begin"} => read = 0 /\ Len(received) = 0
  /\ spc = "test" =>
       \/ control = "tokens" /\ Len(received) = read
       \/ control = "stream" /\ at_end["tokens"] /\ read = words /\ Len(received) = words
       \/ /\ control = "stream" /\ ~at_end["tokens"]
          /\ read = Len(received) + 1 /\ current_value["tokens"] = read
  /\ spc = "next" =>
       IF control = "consumer" /\ upc = "test"
         THEN read = Len(received) + 1 /\ current_value["stream"] = read
         ELSE Len(received) = read
  /\ spc = "return" =>
       /\ read = words /\ Len(received) = words
       /\ upc # "next" /\ (upc = "test" /\ control = "consumer" => at_end["stream"])
  /\ upc \in {"leave", "over"} /\ ~broke => spc = "return"

\* A stream that is not piped is at its one value, before it or after it.
SingleInv ==
  /\ spc = "entry" => received = <<>>
  /\ spc = "return" =>
       IF upc = "test" /\ control = "consumer" /\ ~at_end["stream"]
         THEN received = <<>> /\ current_value["stream"] = 0
         ELSE received = <<0>>

IInv == /\ TypeOK /\ ~past_end /\ ConsumerInv /\ BodyInv
        /\ Piped => WordsInv
        /\ ~Piped => SingleInv
-----------------------------------------------------------------------------

\* The next word is read and stored, or the generator ends with the last one.
LEMMA NextTokenPreserves ==
  ASSUME IInv, NextToken
  PROVE  IInv'
<1>. USE DEF NextToken, setup, Gens, Piped, Values
<1>1. spc = "test" /\ upc = "test"
  BY DEF IInv, TypeOK, ConsumerInv, BodyInv
<1>2. read \in Nat /\ words \in Nat /\ words <= MaxTokens
  BY StreamAssumption DEF IInv, TypeOK
<1>3. CASE read < words /\ read' = read + 1 /\ YieldValue("tokens", read')
  <2>1. read' \in 0 .. MaxTokens
    BY <1>2, <1>3, StreamAssumption
  <2>2. /\ current_value' = [current_value EXCEPT !["tokens"] = read']
        /\ frame' = [frame EXCEPT !["tokens"] = "suspended"]
        /\ at_end' = [at_end EXCEPT !["tokens"] = FALSE]
        /\ control' = "stream" /\ past_end' = past_end
    BY <1>3 DEF YieldValue, User
  <2>3. TypeOK' /\ ~past_end'
    BY <2>1, <2>2 DEF IInv, TypeOK
  <2>4. ConsumerInv' /\ BodyInv'
    BY <1>1, <2>2 DEF IInv, TypeOK, ConsumerInv, BodyInv
  <2>5. Piped => WordsInv'
    BY <1>1, <1>2, <1>3, <2>2 DEF IInv, TypeOK, ConsumerInv, WordsInv
  <2>. QED BY <1>1, <2>3, <2>4, <2>5 DEF IInv, BodyInv
<1>4. CASE read = words /\ FinalSuspend("tokens") /\ UNCHANGED read
  <2>1. /\ frame' = [frame EXCEPT !["tokens"] = "final"]
        /\ at_end' = [at_end EXCEPT !["tokens"] = TRUE]
        /\ control' = "stream" /\ past_end' = past_end
        /\ current_value' = current_value
    BY <1>4 DEF FinalSuspend, User
  <2>2. TypeOK' /\ ~past_end'
    BY <1>4, <2>1 DEF IInv, TypeOK
  <2>3. ConsumerInv' /\ BodyInv'
    BY <1>1, <2>1 DEF IInv, TypeOK, ConsumerInv, BodyInv
  <2>4. Piped => WordsInv'
    BY <1>1, <1>2, <1>4, <2>1 DEF IInv, TypeOK, ConsumerInv, WordsInv
  <2>. QED BY <1>1, <2>2, <2>3, <2>4 DEF IInv, BodyInv
<1>. QED BY <1>3, <1>4

\* The one value of a stream that is not piped.
LEMMA SingleValuePreserves ==
  ASSUME IInv, SingleValue
  PROVE  IInv'
<1>. USE DEF SingleValue, Body, InBody, YieldValue, User, setup, Gens, Piped, Values
<1>1. TypeOK' /\ ~past_end'
  BY StreamAssumption DEF IInv, TypeOK, ConsumerInv, BodyInv, WordsInv, SingleInv
<1>2. ConsumerInv'
  BY DEF IInv, TypeOK, ConsumerInv, BodyInv
<1>3. BodyInv'
  BY DEF IInv, TypeOK, ConsumerInv, BodyInv
<1>4. Piped => WordsInv'
  BY DEF IInv, TypeOK, ConsumerInv, BodyInv, WordsInv
<1>5. ~Piped => SingleInv'
  BY DEF IInv, TypeOK, ConsumerInv, BodyInv, SingleInv
<1>. QED BY <1>1, <1>2, <1>3, <1>4, <1>5 DEF IInv

\* An exception leaves everything where it is.
LEMMA BodyThrowsPreserves ==
  ASSUME IInv, BodyThrows
  PROVE  IInv'
<1>. USE DEF BodyThrows, Body, InBody, setup, Gens, Piped, Values
<1>1. TypeOK' /\ ~past_end'
  BY DEF IInv, TypeOK, ConsumerInv, BodyInv, WordsInv, SingleInv
<1>2. ConsumerInv'
  BY DEF IInv, TypeOK, ConsumerInv, BodyInv
<1>3. BodyInv'
  BY DEF IInv, TypeOK, ConsumerInv, BodyInv
<1>4. Piped => WordsInv'
  BY DEF IInv, TypeOK, ConsumerInv, BodyInv, WordsInv
<1>5. ~Piped => SingleInv'
  BY DEF IInv, TypeOK, ConsumerInv, BodyInv, SingleInv
<1>. QED BY <1>1, <1>2, <1>3, <1>4, <1>5 DEF IInv

\* The loop over query_stream is entered with nothing read.
LEMMA OpenTokensPreserves ==
  ASSUME IInv, OpenTokens
  PROVE  IInv'
<1>. USE DEF OpenTokens, Body, InBody, Created, setup, Gens, Piped, Values
<1>1. TypeOK' /\ ~past_end'
  BY DEF IInv, TypeOK, ConsumerInv, BodyInv, WordsInv, SingleInv
<1>2. ConsumerInv'
  BY DEF IInv, TypeOK, ConsumerInv, BodyInv
<1>3. BodyInv'
  BY DEF IInv, TypeOK, ConsumerInv, BodyInv
<1>4. Piped => WordsInv'
  BY DEF IInv, TypeOK, ConsumerInv, BodyInv, WordsInv
<1>5. ~Piped => SingleInv'
  BY DEF IInv, TypeOK, ConsumerInv, BodyInv, SingleInv
<1>. QED BY <1>1, <1>2, <1>3, <1>4, <1>5 DEF IInv

\* query_stream is suspended whenever the loop asks it.
LEMMA AskTokenPreserves ==
  ASSUME IInv, AskToken
  PROVE  IInv'
<1>. USE DEF AskToken, Body, InBody, Resume, User, setup, Gens, Piped, Values
<1>1. TypeOK' /\ ~past_end'
  BY DEF IInv, TypeOK, ConsumerInv, BodyInv, WordsInv, SingleInv
<1>2. ConsumerInv'
  BY DEF IInv, TypeOK, ConsumerInv, BodyInv
<1>3. BodyInv'
  BY DEF IInv, TypeOK, ConsumerInv, BodyInv
<1>4. Piped => WordsInv'
  BY DEF IInv, TypeOK, ConsumerInv, BodyInv, WordsInv
<1>5. ~Piped => SingleInv'
  BY DEF IInv, TypeOK, ConsumerInv, BodyInv, SingleInv
<1>. QED BY <1>1, <1>2, <1>3, <1>4, <1>5 DEF IInv

\* The word moves from one current_value to the other.
LEMMA PassTokenPreserves ==
  ASSUME IInv, PassToken
  PROVE  IInv'
<1>. USE DEF PassToken, Body, InBody, YieldValue, User, setup, Gens, Piped, Values
<1>1. TypeOK' /\ ~past_end'
  BY DEF IInv, TypeOK, ConsumerInv, BodyInv, WordsInv, SingleInv
<1>2. ConsumerInv'
  BY DEF IInv, TypeOK, ConsumerInv, BodyInv
<1>3. BodyInv'
  BY DEF IInv, TypeOK, ConsumerInv, BodyInv
<1>4. Piped => WordsInv'
  BY DEF IInv, TypeOK, ConsumerInv, BodyInv, WordsInv
<1>5. ~Piped => SingleInv'
  BY DEF IInv, TypeOK, ConsumerInv, BodyInv, SingleInv
<1>. QED BY <1>1, <1>2, <1>3, <1>4, <1>5 DEF IInv

\* The loop over query_stream ends after the last word.
LEMMA CloseTokensPreserves ==
  ASSUME IInv, CloseTokens
  PROVE  IInv'
<1>. USE DEF CloseTokens, Body, InBody, Destroyed, setup, Gens, Piped, Values
<1>1. TypeOK' /\ ~past_end'
  BY DEF IInv, TypeOK, ConsumerInv, BodyInv, WordsInv, SingleInv
<1>2. ConsumerInv'
  BY DEF IInv, TypeOK, ConsumerInv, BodyInv
<1>3. BodyInv'
  BY DEF IInv, TypeOK, ConsumerInv, BodyInv
<1>4. Piped => WordsInv'
  BY DEF IInv, TypeOK, ConsumerInv, BodyInv, WordsInv
<1>5. ~Piped => SingleInv'
  BY DEF IInv, TypeOK, ConsumerInv, BodyInv, SingleInv
<1>. QED BY <1>1, <1>2, <1>3, <1>4, <1>5 DEF IInv

\* The body ends with no generator left in it.
LEMMA EndStreamPreserves ==
  ASSUME IInv, EndStream
  PROVE  IInv'
<1>. USE DEF EndStream, Body, InBody, FinalSuspend, User, setup, Gens, Piped, Values
<1>1. TypeOK' /\ ~past_end'
  BY DEF IInv, TypeOK, ConsumerInv, BodyInv, WordsInv, SingleInv
<1>2. ConsumerInv'
  BY DEF IInv, TypeOK, ConsumerInv, BodyInv
<1>3. BodyInv'
  BY DEF IInv, TypeOK, ConsumerInv, BodyInv
<1>4. Piped => WordsInv'
  BY DEF IInv, TypeOK, ConsumerInv, BodyInv, WordsInv
<1>5. ~Piped => SingleInv'
  BY DEF IInv, TypeOK, ConsumerInv, BodyInv, SingleInv
<1>. QED BY <1>1, <1>2, <1>3, <1>4, <1>5 DEF IInv

\* The stream is created, and nothing of its body has run.
LEMMA OpenStreamPreserves ==
  ASSUME IInv, OpenStream
  PROVE  IInv'
<1>. USE DEF OpenStream, At, Outside, Created, setup, Gens, Piped, Values
<1>1. TypeOK' /\ ~past_end'
  BY DEF IInv, TypeOK, ConsumerInv, BodyInv, WordsInv, SingleInv
<1>2. ConsumerInv'
  BY DEF IInv, TypeOK, ConsumerInv, BodyInv
<1>3. BodyInv'
  BY DEF IInv, TypeOK, ConsumerInv, BodyInv
<1>4. Piped => WordsInv'
  BY DEF IInv, TypeOK, ConsumerInv, BodyInv, WordsInv
<1>5. ~Piped => SingleInv'
  BY DEF IInv, TypeOK, ConsumerInv, BodyInv, SingleInv
<1>. QED BY <1>1, <1>2, <1>3, <1>4, <1>5 DEF IInv

\* analyze_stream is suspended whenever the consumer asks it.
LEMMA AskStreamPreserves ==
  ASSUME IInv, AskStream
  PROVE  IInv'
<1>. USE DEF AskStream, At, Outside, Resume, User, setup, Gens, Piped, Values
<1>1. TypeOK' /\ ~past_end'
  BY DEF IInv, TypeOK, ConsumerInv, BodyInv, WordsInv, SingleInv
<1>2. ConsumerInv'
  BY DEF IInv, TypeOK, ConsumerInv, BodyInv
<1>3. BodyInv'
  BY DEF IInv, TypeOK, ConsumerInv, BodyInv
<1>4. Piped => WordsInv'
  BY DEF IInv, TypeOK, ConsumerInv, BodyInv, WordsInv
<1>5. ~Piped => SingleInv'
  BY DEF IInv, TypeOK, ConsumerInv, BodyInv, SingleInv
<1>. QED BY <1>1, <1>2, <1>3, <1>4, <1>5 DEF IInv

\* The consumer receives the word after those it has; or the one value.
LEMMA ReceivePreserves ==
  ASSUME IInv, Receive
  PROVE  IInv'
<1>. USE DEF Receive, At, Outside, setup, Gens, Piped, Values
<1>1. spc \in {"next", "return"}
  BY DEF IInv, TypeOK, ConsumerInv, BodyInv
<1>2. Piped => /\ spc = "next" /\ read = Len(received) + 1
               /\ current_value["stream"] = read /\ read <= words
               /\ received = [i \in 1 .. Len(received) |-> i]
  BY <1>1 DEF IInv, WordsInv
<1>3. ~Piped => spc = "return" /\ received = <<>> /\ current_value["stream"] = 0
  BY <1>1 DEF IInv, SingleInv, BodyInv
<1>4. TypeOK' /\ ~past_end'
  <2>1. current_value["stream"] \in 0 .. MaxTokens
    BY <1>2, <1>3, StreamAssumption DEF IInv, TypeOK
  <2>2. Len(received) <= MaxTokens
    BY <1>2, <1>3, StreamAssumption DEF IInv, TypeOK
  <2>3. received' \in Seq(0 .. MaxTokens) /\ Len(received') <= MaxTokens + 1
    BY <2>1, <2>2, StreamAssumption DEF IInv, TypeOK
  <2>. QED BY <2>3 DEF IInv, TypeOK
<1>5. ConsumerInv'
  BY DEF IInv, TypeOK, ConsumerInv, BodyInv
<1>6. BodyInv'
  BY DEF IInv, TypeOK, ConsumerInv, BodyInv
<1>7. Piped => WordsInv'
  <2>. SUFFICES ASSUME Piped PROVE WordsInv'
    OBVIOUS
  <2>1. received' = [i \in 1 .. Len(received') |-> i]
    BY <1>2 DEF IInv, TypeOK
  <2>2. Len(received') = read
    BY <1>2 DEF IInv, TypeOK
  <2>. QED BY <1>2, <2>1, <2>2 DEF IInv, TypeOK, WordsInv
<1>8. ~Piped => SingleInv'
  BY <1>3 DEF IInv, TypeOK, SingleInv
<1>. QED BY <1>4, <1>5, <1>6, <1>7, <1>8 DEF IInv

\* The consumer's loop ends only with a stream that is at its end.
LEMMA LoopEndsPreserves ==
  ASSUME IInv, LoopEnds
  PROVE  IInv'
<1>. USE DEF LoopEnds, At, Outside, setup, Gens, Piped, Values
<1>1. TypeOK' /\ ~past_end'
  BY DEF IInv, TypeOK, ConsumerInv, BodyInv, WordsInv, SingleInv
<1>2. ConsumerInv'
  BY DEF IInv, TypeOK, ConsumerInv, BodyInv
<1>3. BodyInv'
  BY DEF IInv, TypeOK, ConsumerInv, BodyInv
<1>4. Piped => WordsInv'
  BY DEF IInv, TypeOK, ConsumerInv, BodyInv, WordsInv
<1>5. ~Piped => SingleInv'
  BY DEF IInv, TypeOK, ConsumerInv, BodyInv, SingleInv
<1>. QED BY <1>1, <1>2, <1>3, <1>4, <1>5 DEF IInv

\* The frame of query_stream goes with the one of analyze_stream.
LEMMA CloseStreamPreserves ==
  ASSUME IInv, CloseStream
  PROVE  IInv'
<1>. USE DEF CloseStream, At, Outside, Destroyed, setup, Gens, Piped, Values
<1>1. TypeOK' /\ ~past_end'
  BY DEF IInv, TypeOK, ConsumerInv, BodyInv, WordsInv, SingleInv
<1>2. ConsumerInv'
  BY DEF IInv, TypeOK, ConsumerInv, BodyInv
<1>3. BodyInv'
  BY DEF IInv, TypeOK, ConsumerInv, BodyInv
<1>4. Piped => WordsInv'
  BY DEF IInv, TypeOK, ConsumerInv, BodyInv, WordsInv
<1>5. ~Piped => SingleInv'
  BY DEF IInv, TypeOK, ConsumerInv, BodyInv, SingleInv
<1>. QED BY <1>1, <1>2, <1>3, <1>4, <1>5 DEF IInv

\* Nothing is created, read or received.
LEMMA InitEstablishes == Init => IInv
<1>. SUFFICES ASSUME Init PROVE IInv
  OBVIOUS
<1>1. TypeOK /\ ~past_end
  <2>1. received \in Seq(Values) /\ Len(received) <= MaxTokens + 1
    BY StreamAssumption DEF Init
  <2>2. read \in Values /\ current_value \in [Gens -> Values \cup {None}]
    BY StreamAssumption DEF Init, Values
  <2>. QED BY <2>1, <2>2 DEF Init, TypeOK, Gens
<1>2. ConsumerInv /\ BodyInv /\ SingleInv
  BY DEF Init, ConsumerInv, BodyInv, SingleInv, Gens
<1>3. WordsInv
  <2>1. received = [i \in 1 .. Len(received) |-> i] /\ Len(received) = 0
    BY DEF Init
  <2>2. read <= words
    BY StreamAssumption DEF Init, Values
  <2>. QED BY <2>1, <2>2 DEF Init, WordsInv
<1>. QED BY <1>1, <1>2, <1>3 DEF IInv

\* The invariant speaks of these variables only.
LEMMA StutterPreserves == IInv /\ UNCHANGED vars => IInv'
BY DEF IInv, TypeOK, ConsumerInv, BodyInv, WordsInv, SingleInv, vars, Piped

\* No step of the consumer or of a body breaks the invariant.
LEMMA NextPreserves == IInv /\ [Next]_vars => IInv'
BY StutterPreserves, NextTokenPreserves, SingleValuePreserves, BodyThrowsPreserves,
     OpenTokensPreserves, AskTokenPreserves, PassTokenPreserves,
     CloseTokensPreserves, EndStreamPreserves, OpenStreamPreserves,
     AskStreamPreserves, ReceivePreserves, LoopEndsPreserves,
     CloseStreamPreserves
     DEF Next, Terminated

-----------------------------------------------------------------------------

\* IInv holds of every behaviour.
THEOREM Invariance == Spec => []IInv
BY InitEstablishes, NextPreserves, PTL DEF Spec

\* The words arrive once and in order: with WordsInv or SingleInv.
LEMMA InvOnceInOrder == IInv => OnceInOrder
<1>. SUFFICES ASSUME IInv PROVE OnceInOrder
  OBVIOUS
<1>1. read \in Nat /\ words \in Nat /\ Len(received) \in Nat
  BY StreamAssumption DEF IInv, TypeOK, Values
<1>2. CASE Piped
  <2>1. spc \in {"entry", "begin", "test", "next", "return"}
    BY DEF IInv, TypeOK
  <2>2. read = Len(received) \/ read = Len(received) + 1
    BY <1>1, <1>2, <2>1 DEF IInv, WordsInv
  <2>3. received = [i \in 1 .. Len(received) |-> i]
    BY <1>2 DEF IInv, WordsInv
  <2>4. upc \in {"leave", "over"} /\ ~broke => Len(received) = words
    BY <1>2 DEF IInv, WordsInv
  <2>5. upc \in {"leave", "over"} /\ ~broke => received = [i \in 1 .. words |-> i]
    BY <2>3, <2>4
  <2>6. Len(received) <= read /\ read <= Len(received) + 1
    BY <1>1, <2>2
  <2>. QED BY <1>2, <2>3, <2>5, <2>6 DEF OnceInOrder
<1>3. CASE ~Piped
  BY <1>3 DEF IInv, TypeOK, ConsumerInv, BodyInv, SingleInv, OnceInOrder
<1>. QED BY <1>2, <1>3

\* A frame of query_stream lives in one of analyze_stream that is in its loop.
LEMMA InvNoOrphanFrame == IInv => NoOrphanFrame
BY DEF IInv, TypeOK, ConsumerInv, BodyInv, NoOrphanFrame, Gens

\* Each word of query_stream reaches the consumer once and in order.
THEOREM AlwaysOnceInOrder == Spec => []OnceInOrder
BY Invariance, InvOnceInOrder, PTL

\* No generator is resumed unless it is suspended.
THEOREM AlwaysResumedWhenSuspended == Spec => []ResumedWhenSuspended
<1>1. IInv => ResumedWhenSuspended
  BY DEF IInv, ResumedWhenSuspended
<1>. QED BY Invariance, <1>1, PTL

\* No frame outlives the one that owns it, and none is left in the end.
THEOREM NeverOrphanFrame == Spec => []NoOrphanFrame
BY Invariance, InvNoOrphanFrame, PTL
=============================================================================
