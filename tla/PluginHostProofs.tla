---------------------------- MODULE PluginHostProofs ----------------------------
(***************************************************************************)
(* For any schemas and any number of calls of init: what PluginHost        *)
(* promises, and that everything Streaming promises of a stream still      *)
(* holds when init and analyze are called around it.                       *)
(***************************************************************************)
EXTENDS PluginHost, StreamingProofs

\* Besides what ModeFollowsSuccess says: while an init is under way there is a
\* configuration, and a prompt made before it is marked; a prompt that is not
\* marked names the schema that is loaded.
HostInv ==
  /\ HostTypeOK
  /\ IInv
  /\ ModeFollowsSuccess
  /\ ipc # "idle" => m_config # None /\ (query # None => query.stale)
  /\ query # None /\ ~query.stale => query.schema = m_schema

-----------------------------------------------------------------------------

\* init: the configuration is kept, and every prompt that is out is marked.
LEMMA ParseConfigPreserves ==
  ASSUME HostInv, NEW c \in Configs, ParseConfig(c)
  PROVE  HostInv'
<1>1. IInv' /\ plugin' = plugin
  BY StutterPreserves DEF HostInv, ParseConfig, vars
<1>2. HostTypeOK'
  BY <1>1 DEF HostInv, HostTypeOK, IInv, ParseConfig, Fails, Prompts, vars
<1>3. ModeFollowsSuccess'
  BY <1>1 DEF HostInv, HostTypeOK, ModeFollowsSuccess, ParseConfig, Between, Fails, Prompts
<1>. QED
  BY HostAssumption, <1>1, <1>2, <1>3
  DEF HostInv, HostTypeOK, ParseConfig, Between, Fails, Prompts

\* The schema may change, but every prompt that is out is marked by now.
LEMMA LoadSchemaPreserves ==
  ASSUME HostInv, LoadSchema
  PROVE  HostInv'
<1>1. IInv' /\ plugin' = plugin
  BY StutterPreserves DEF HostInv, LoadSchema, vars
<1>2. HostTypeOK'
  BY <1>1 DEF HostInv, HostTypeOK, IInv, LoadSchema, Fails, Contents
<1>3. ModeFollowsSuccess'
  BY <1>1 DEF HostInv, HostTypeOK, ModeFollowsSuccess, LoadSchema, Fails
<1>. QED BY <1>1, <1>2, <1>3 DEF HostInv, LoadSchema, Fails

\* init_impl: only an init that succeeds changes the mode.
LEMMA InitImplPreserves ==
  ASSUME HostInv, InitImpl
  PROVE  HostInv'
<1>1. IInv' /\ plugin' = plugin
  BY StutterPreserves DEF HostInv, InitImpl, vars
<1>2. HostTypeOK'
  BY <1>1 DEF HostInv, HostTypeOK, IInv, InitImpl, Fails, ModeIn
<1>3. ModeFollowsSuccess'
  BY <1>1 DEF HostInv, HostTypeOK, ModeFollowsSuccess, InitImpl, Fails, ModeIn
<1>. QED BY <1>1, <1>2, <1>3 DEF HostInv, InitImpl, Fails

\* A prompt carries the mode and the schema of this moment.
LEMMA PromptIsFresh ==
  ASSUME HostInv, NEW i \in Inputs
  PROVE  /\ PromptOf(i) \in Prompts
         /\ ~PromptOf(i).stale /\ PromptOf(i).schema = m_schema
         /\ PromptOf(i).mode \in {"given", m_default_mode}
BY DEF HostInv, HostTypeOK, PromptOf, parse_input, Prompts

\* analyze builds a prompt and waits.
LEMMA AskPreserves ==
  ASSUME HostInv, NEW i \in Inputs, Ask(i)
  PROVE  HostInv'
<1>1. IInv' /\ plugin' = plugin
  BY StutterPreserves DEF HostInv, Ask, vars
<1>2. HostTypeOK'
  BY <1>1, PromptIsFresh DEF HostInv, HostTypeOK, IInv, Ask
<1>3. ModeFollowsSuccess'
  BY <1>1, PromptIsFresh DEF HostInv, HostTypeOK, ModeFollowsSuccess, Ask, Between
<1>. QED BY <1>1, <1>2, <1>3, PromptIsFresh DEF HostInv, Ask, Between

\* A reply, or none, ends the analysis.
LEMMA AnswerPreserves ==
  ASSUME HostInv, Unanswered \/ \E o \in Replies : Answer(o)
  PROVE  HostInv'
<1>1. IInv' /\ plugin' = plugin
  BY StutterPreserves DEF HostInv, Answer, Unanswered, vars
<1>2. HostTypeOK'
  BY <1>1 DEF HostInv, HostTypeOK, IInv, Answer, Unanswered
<1>3. ModeFollowsSuccess'
  BY <1>1 DEF HostInv, HostTypeOK, ModeFollowsSuccess, Answer, Unanswered
<1>. QED BY <1>1, <1>2, <1>3 DEF HostInv, Answer, Unanswered

\* The race ends the process and changes nothing else.
LEMMA RacePreserves ==
  ASSUME HostInv, Race
  PROVE  HostInv'
<1>1. IInv' /\ plugin' = plugin
  BY DEF HostInv, Race, base, setup, IInv, TypeOK, ConsumerInv, BodyInv, WordsInv, SingleInv,
     Piped
<1>. QED BY <1>1 DEF HostInv, HostTypeOK, IInv, ModeFollowsSuccess, Race, base

\* No step of a stream changes what is given to it.
LEMMA PluginStays == [Next]_vars => plugin' = plugin
BY DEF Next, Terminated, NextToken, SingleValue, BodyThrows, OpenTokens, AskToken, PassToken,
   CloseTokens, EndStream, OpenStream, AskStream, Receive, LoopEnds, CloseStream, InBody, Outside,
   setup, vars

\* A step of a stream makes a prompt, keeps it, or ends with it.
LEMMA StreamPreserves ==
  ASSUME HostInv, Stream
  PROVE  HostInv'
<1>1. IInv' /\ plugin' = plugin
  BY NextPreserves, PluginStays DEF HostInv, Stream
<1>2. query' = None \/ query' = query \/ \E i \in Inputs : query' = PromptOf(i)
  BY DEF Stream, Inputs
<1>3. HostTypeOK'
  BY <1>1, <1>2, PromptIsFresh DEF HostInv, HostTypeOK, IInv, Stream, base
<1>4. ModeFollowsSuccess'
  BY <1>1, <1>2, PromptIsFresh DEF HostInv, HostTypeOK, ModeFollowsSuccess, Stream, base
<1>. QED BY <1>1, <1>2, <1>3, <1>4, PromptIsFresh DEF HostInv, Stream, base

\* No call of the host, and no step of a stream, breaks the invariant.
LEMMA HostNextPreserves == HostInv /\ [HostNext]_hostvars => HostInv'
<1>. SUFFICES ASSUME HostInv, [HostNext]_hostvars PROVE HostInv'
  OBVIOUS
<1>1. CASE UNCHANGED hostvars
  <2>1. IInv'
    BY <1>1, StutterPreserves DEF HostInv, hostvars
  <2>. QED BY <1>1, <2>1 DEF HostInv, HostTypeOK, IInv, ModeFollowsSuccess, hostvars, vars, base
<1>2. CASE HostNext /\ ~UNCHANGED hostvars
  BY <1>2, ParseConfigPreserves, LoadSchemaPreserves, InitImplPreserves, AskPreserves,
     AnswerPreserves, RacePreserves, StreamPreserves DEF HostNext, Stopped
<1>. QED BY <1>1, <1>2

\* A plugin object before its first init.
LEMMA HostInitEstablishes == HostInit => HostInv
<1>. SUFFICES ASSUME HostInit PROVE HostInv
  OBVIOUS
<1>1. IInv
  BY InitEstablishes DEF HostInit
<1>2. None # "executive"
  BY HostAssumption DEF Configs
<1>3. HostTypeOK
  BY <1>1 DEF HostInit, HostTypeOK, IInv, Contents
<1>4. ModeFollowsSuccess
  BY <1>2 DEF HostInit, ModeFollowsSuccess, ModeIn
<1>. QED BY <1>1, <1>3, <1>4 DEF HostInit, HostInv

-----------------------------------------------------------------------------

\* HostInv holds of every behaviour.
THEOREM HostInvariance == HostSpec => []HostInv
BY HostInitEstablishes, HostNextPreserves, PTL DEF HostSpec

\* The type invariant.
THEOREM HostTypeCorrect == HostSpec => []HostTypeOK
<1>1. HostInv => HostTypeOK
  BY DEF HostInv
<1>. QED BY HostInvariance, <1>1, PTL

\* An init that fails does not touch the mode; one that succeeds sets it
\* (summarization_plugin.cpp:70-73).
THEOREM ModeAlwaysFollowsSuccess == HostSpec => []ModeFollowsSuccess
<1>1. HostInv => ModeFollowsSuccess
  BY DEF HostInv
<1>. QED BY HostInvariance, <1>1, PTL

\* What Streaming promises of a stream holds when init and analyze are called
\* before, after and around it.
THEOREM StreamsUndisturbed == HostSpec => [](OnceInOrder /\ ResumedWhenSuspended /\ NoOrphanFrame)
<1>1. HostInv => OnceInOrder /\ ResumedWhenSuspended /\ NoOrphanFrame
  BY InvOnceInOrder, InvNoOrphanFrame DEF HostInv, IInv, ResumedWhenSuspended
<1>. QED BY HostInvariance, <1>1, PTL

\* A reply is accepted against the schema that its prompt named, unless init came
\* between (text_analysis_plugin.cpp:35-45).
THEOREM AlwaysAcceptedAsTold == HostSpec => AcceptedAsTold
<1>1. HostInv /\ [HostNext]_hostvars =>
        [\A o \in Replies :
           Answer(o) /\ answer' = "accepted" /\ ~query.stale =>
             query.schema = "empty" \/ query.schema \in o]_hostvars
  BY DEF HostInv, HostTypeOK, Answer, validate_output
<1>. QED BY HostInvariance, <1>1, PTL DEF HostSpec, AcceptedAsTold
=============================================================================
