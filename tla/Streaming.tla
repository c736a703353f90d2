------------------------------- MODULE Streaming -------------------------------
(***************************************************************************)
(* A plugin's analyze_stream, consumed by a range-for loop: the consumer's *)
(* generator runs the plugin's body, which itself consumes the generator   *)
(* of HttpLLMClient::query_stream.  Both are coroutine frames on the       *)
(* consumer's stack; a frame runs when it is resumed and hands control     *)
(* back when it yields or ends.                                            *)
(***************************************************************************)
EXTENDS Naturals, Sequences

CONSTANTS MaxTokens,    \* bound on the words of the mock response (it has 7)
          None

ASSUME StreamAssumption == MaxTokens \in Nat

\* How a plugin makes its stream: from the tokens of query_stream, or of the one
\* result of analyze; whether it accepts an input that is not an object; and
\* whether it has a default mode, which its init_impl takes from the configuration.
Embeddings == [source |-> "analyze", any_input |-> TRUE, own_mode |-> FALSE]
Keywords == [source |-> "tokens", any_input |-> TRUE, own_mode |-> FALSE]
Normalization == [source |-> "tokens", any_input |-> TRUE, own_mode |-> FALSE]
PromptOpt == [source |-> "tokens", any_input |-> TRUE, own_mode |-> FALSE]
QA == [source |-> "tokens", any_input |-> FALSE, own_mode |-> FALSE]
SbomHeuristic == [source |-> "tokens", any_input |-> TRUE, own_mode |-> FALSE]
Summarization == [source |-> "tokens", any_input |-> TRUE, own_mode |-> TRUE]
TextAnalysis == [source |-> "tokens", any_input |-> TRUE, own_mode |-> FALSE]
TextOptimization == [source |-> "tokens", any_input |-> TRUE, own_mode |-> FALSE]

Plugins == {Embeddings, Keywords, Normalization, PromptOpt, QA, SbomHeuristic,
            Summarization, TextAnalysis, TextOptimization}

Gens == {"stream", "tokens"}                  \* analyze_stream, query_stream
User == [stream |-> "consumer", tokens |-> "stream"]

VARIABLES
  plugin, input,
  llm,            \* an LLM client is given
  words,          \* how many tokens query_stream has
  frame,          \* generator -> none, suspended, running, final
  current_value,  \* generator -> promise().current_value: a word, or 0 for a
                  \* result of analyze or an error text
  at_end,         \* generator -> Iterator::done of the loop that consumes it
  control,        \* what is running: the consumer or a generator
  upc, spc,       \* where the consumer and the body of analyze_stream are
  read,           \* the words taken out of the string stream
  received,       \* what the consumer's loop has seen
  broke,          \* the consumer left its loop by a break
  past_end,       \* a frame was resumed that was not suspended
  aborted         \* std::terminate

vars == <<plugin, input, llm, words, frame, current_value, at_end, control, upc,
          spc, read, received, broke, past_end, aborted>>
setup == <<plugin, input, llm, words>>

Values == 0 .. MaxTokens

TypeOK ==
  /\ plugin \in Plugins /\ input \in {"object", "other"}
  /\ llm \in BOOLEAN /\ words \in Values
  /\ frame \in [Gens -> {"none", "suspended", "running", "final"}]
  /\ current_value \in [Gens -> Values \cup {None}]
  /\ at_end \in [Gens -> BOOLEAN]
  /\ control \in Gens \cup {"consumer"}
  /\ upc \in {"start", "begin", "test", "next", "leave", "over"}
  /\ spc \in {"entry", "begin", "test", "next", "return"}
  /\ read \in Values
  /\ received \in Seq(Values) /\ Len(received) <= MaxTokens + 1
  /\ broke \in BOOLEAN /\ past_end \in BOOLEAN /\ aborted \in BOOLEAN

Init ==
  /\ plugin \in Plugins /\ input \in {"object", "other"}
  /\ llm \in BOOLEAN /\ words \in Values
  /\ frame = [g \in Gens |-> "none"]
  /\ current_value = [g \in Gens |-> None]
  /\ at_end = [g \in Gens |-> FALSE]
  /\ control = "consumer"
  /\ upc = "start" /\ spc = "entry"
  /\ read = 0 /\ received = <<>>
  /\ broke = FALSE /\ past_end = FALSE /\ aborted = FALSE

-----------------------------------------------------------------------------
(* Generator                                                               *)

\* handle.resume() in begin and operator++; defined only for a suspended frame.
Resume(g) ==
  /\ control = User[g]
  /\ control' = g
  /\ frame' = [frame EXCEPT ![g] = "running"]
  /\ past_end' = (past_end \/ frame[g] # "suspended")
  /\ UNCHANGED <<current_value, at_end>>

\* co_yield: the value is stored, the frame suspended, and resume() returns.
YieldValue(g, v) ==
  /\ current_value' = [current_value EXCEPT ![g] = v]
  /\ frame' = [frame EXCEPT ![g] = "suspended"]
  /\ at_end' = [at_end EXCEPT ![g] = FALSE]
  /\ control' = User[g]
  /\ UNCHANGED past_end

\* Mutant: the iterator does not look at done() again.
FinalSuspendUnseen(g) ==
  /\ frame' = [frame EXCEPT ![g] = "final"]
  /\ control' = User[g]
  /\ UNCHANGED <<current_value, at_end, past_end>>

\* The body ends: the frame stays, at its final suspension point.
FinalSuspend(g) ==
  /\ frame' = [frame EXCEPT ![g] = "final"]
  /\ at_end' = [at_end EXCEPT ![g] = TRUE]
  /\ control' = User[g]
  /\ UNCHANGED <<current_value, past_end>>

\* The frame exists, suspended before its first statement.
Created(f, g) == [f EXCEPT ![g] = "suspended"]

\* Mutant: what the locals of the destroyed frame own is forgotten.
DestroyedAlone(g) == [frame EXCEPT ![g] = "none"]

\* ~Generator destroys the frame and with it the locals of its body: the
\* generator that analyze_stream is looping over.
Destroyed(g) == [f \in Gens |-> IF f = g \/ g = "stream" THEN "none" ELSE frame[f]]

-----------------------------------------------------------------------------
(* HttpLLMClient::query_stream                                             *)

\* Mutant: a word is taken out of the string stream twice in a turn.
NextTokenSkips ==
  /\ control = "tokens"
  /\ \/ /\ read + 1 < words
        /\ read' = read + 2
        /\ YieldValue("tokens", read')
     \/ /\ read + 1 >= words
        /\ FinalSuspend("tokens")
        /\ UNCHANGED read
  /\ UNCHANGED <<setup, upc, spc, received, broke, aborted>>

\* Mutant: the state of the string stream is looked at before the word is read.
NextTokenPastEnd ==
  /\ control = "tokens"
  /\ \/ /\ read <= words
        /\ read' = read + 1
        /\ YieldValue("tokens", read')
     \/ /\ read > words
        /\ FinalSuspend("tokens")
        /\ UNCHANGED read
  /\ UNCHANGED <<setup, upc, spc, received, broke, aborted>>

\* while (ss >> token) co_yield token;
NextToken ==
  /\ control = "tokens"
  /\ \/ /\ read < words
        /\ read' = read + 1
        /\ YieldValue("tokens", read')
     \/ /\ read = words
        /\ FinalSuspend("tokens")
        /\ UNCHANGED read
  /\ UNCHANGED <<setup, upc, spc, received, broke, aborted>>

-----------------------------------------------------------------------------
(* Plugin::analyze_stream                                                  *)

Body(pc) == control = "stream" /\ spc = pc
InBody == UNCHANGED <<setup, upc, read, received, broke>>

\* Without a client, or with the result or the error of analyze (whose get()
\* blocks the consumer), the stream is one value.
SingleValue ==
  /\ Body("entry")
  /\ ~llm \/ plugin.source = "analyze"
  /\ YieldValue("stream", 0)
  /\ spc' = "return"
  /\ UNCHANGED aborted /\ InBody

\* The plugin parses an input it does not accept, or analyze the content it got.
BodyThrows ==
  /\ Body("entry")
  /\ llm
  /\ \/ input = "other" /\ ~plugin.any_input
     \/ plugin.source = "analyze"
  /\ aborted' = TRUE
  /\ UNCHANGED <<frame, current_value, at_end, control, past_end, spc>> /\ InBody

OpenTokens ==
  /\ Body("entry")
  /\ llm /\ plugin.source = "tokens"
  /\ input = "object" \/ plugin.any_input
  /\ frame' = Created(frame, "tokens")
  /\ spc' = "begin"
  /\ UNCHANGED <<current_value, at_end, control, past_end, aborted>> /\ InBody

\* The loop's begin() or operator++ resumes query_stream.
AskToken ==
  /\ Body("begin") \/ Body("next")
  /\ Resume("tokens")
  /\ spc' = "test"
  /\ UNCHANGED aborted /\ InBody

PassToken ==
  /\ Body("test")
  /\ ~at_end["tokens"]
  /\ YieldValue("stream", current_value["tokens"])
  /\ spc' = "next"
  /\ UNCHANGED aborted /\ InBody

CloseTokens ==
  /\ Body("test")
  /\ at_end["tokens"]
  /\ frame' = Destroyed("tokens")
  /\ spc' = "return"
  /\ UNCHANGED <<current_value, at_end, control, past_end, aborted>> /\ InBody

EndStream ==
  /\ Body("return")
  /\ FinalSuspend("stream")
  /\ UNCHANGED <<spc, aborted>> /\ InBody

-----------------------------------------------------------------------------
(* The consumer: for (const auto& t : plugin->analyze_stream(...)) ...     *)

At(pc) == control = "consumer" /\ upc = pc
Outside == UNCHANGED <<setup, spc, read, aborted>>

OpenStream ==
  /\ At("start")
  /\ frame' = Created(frame, "stream")
  /\ upc' = "begin"
  /\ UNCHANGED <<current_value, at_end, control, past_end, received, broke>> /\ Outside

AskStream ==
  /\ At("begin") \/ At("next")
  /\ Resume("stream")
  /\ upc' = "test"
  /\ UNCHANGED <<received, broke>> /\ Outside

\* The body of the loop, which may end with a break.
Receive ==
  /\ At("test")
  /\ ~at_end["stream"]
  /\ received' = Append(received, current_value["stream"])
  /\ \/ upc' = "next" /\ UNCHANGED broke
     \/ upc' = "leave" /\ broke' = TRUE
  /\ UNCHANGED <<frame, current_value, at_end, control, past_end>> /\ Outside

LoopEnds ==
  /\ At("test")
  /\ at_end["stream"]
  /\ upc' = "leave"
  /\ UNCHANGED <<frame, current_value, at_end, control, past_end, received, broke>> /\ Outside

CloseStream ==
  /\ At("leave")
  /\ frame' = Destroyed("stream")
  /\ upc' = "over"
  /\ UNCHANGED <<current_value, at_end, control, past_end, received, broke>> /\ Outside

Terminated == (upc = "over" \/ aborted) /\ UNCHANGED vars

Next == \/ /\ ~aborted
           /\ \/ NextToken
              \/ SingleValue \/ BodyThrows \/ OpenTokens \/ AskToken \/ PassToken
              \/ CloseTokens \/ EndStream
              \/ OpenStream \/ AskStream \/ Receive \/ LoopEnds \/ CloseStream
        \/ Terminated

Spec == Init /\ [][Next]_vars

-----------------------------------------------------------------------------
(* Properties                                                              *)

Piped == llm /\ plugin.source = "tokens"

\* Through both generators the consumer sees the words of query_stream one by
\* one, in order and each once, never more than one word behind what was read
\* from the stream, and all of them if it stays to the end; a stream that is not
\* piped has exactly one value (coro_type.hpp:97-128, http_llm_client.cpp:126-133).
OnceInOrder ==
  /\ Piped => /\ received = [i \in 1 .. Len(received) |-> i]
              /\ Len(received) <= read /\ read <= Len(received) + 1
  /\ upc \in {"leave", "over"} /\ ~broke =>
       received = IF Piped THEN [i \in 1 .. words |-> i] ELSE <<0>>

\* No generator is resumed that is not suspended: none that is at its end, none
\* that is running, and none that is destroyed (coro_type.hpp:114, 123).
ResumedWhenSuspended == ~past_end

\* A frame of query_stream lives in a frame of analyze_stream that is in its
\* loop, wherever the consumer breaks off; in the end no frame is left.
NoOrphanFrame ==
  /\ frame["tokens"] # "none" =>
       frame["stream"] \in {"suspended", "running"} /\ spc \in {"begin", "test", "next"}
  /\ upc = "over" => \A g \in Gens : frame[g] = "none"
=============================================================================
