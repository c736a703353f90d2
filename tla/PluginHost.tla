------------------------------ MODULE PluginHost ------------------------------
(***************************************************************************)
(* One plugin object, derived from BasePlugin, in the hands of a host that *)
(* uses the whole interface on one thread: init as often as it likes,      *)
(* analyze (suspended until its reply comes), and analyze_stream, which is *)
(* Streaming.  ai_cli calls analyze only.                                  *)
(***************************************************************************)
EXTENDS Streaming

CONSTANT Schemas        \* schemas that valijson can use

VARIABLES
  m_config,     \* a configuration, or None
  m_schema,     \* a usable schema, "unusable", or "empty"
  m_default_mode,
  ipc,          \* where init is
  outcome,      \* of the latest init: None, "ok" or "failed"
  query,        \* the prompt of the analysis or stream in progress, or None
  answer,       \* of the latest analysis: None, "accepted" or "refused"
  good          \* history: the configuration of the latest init that succeeded

base == <<m_config, m_schema, m_default_mode, ipc, outcome, answer, good>>
hostvars == <<vars, base, query>>

\* Not JSON; an object without a mode, with the mode "executive", or with a mode
\* that is no string (or no object at all).
Configs == {"malformed", "plain", "executive", "ill_typed"}
Contents == Schemas \cup {"empty", "unusable"}
Replies == SUBSET Schemas   \* a reply is known by the schemas that it matches

\* An input: with a mode, without one, or one that is no such object.
Inputs == {"mode", "no_mode", "malformed"}
Prompts == [mode : {"given", "short", "executive"}, schema : Contents, stale : BOOLEAN]

\* None is told apart from what it stands in place of.
ASSUME HostAssumption == None \notin Configs \cup Prompts

HostTypeOK ==
  /\ TypeOK
  /\ m_config \in (Configs \ {"malformed"}) \cup {None}
  /\ m_schema \in Contents
  /\ m_default_mode \in {"short", "executive"}
  /\ ipc \in {"idle", "schema", "impl"}
  /\ outcome \in {None, "ok", "failed"} /\ answer \in {None, "accepted", "refused"}
  /\ query \in Prompts \cup {None}
  /\ good \in (Configs \ {"malformed"}) \cup {None}

HostInit ==
  /\ Init
  /\ m_config = None /\ m_schema = "empty" /\ m_default_mode = "short"
  /\ ipc = "idle" /\ outcome = None /\ query = None /\ answer = None /\ good = None

-----------------------------------------------------------------------------
(* BasePlugin::init                                                        *)

\* The host is between two calls: before or after its loop over a stream, or when
\* it has the stream and has not started the loop.  (Within the loop init would
\* change no more of the stream: its prompt is made.)
Between == upc \in {"start", "begin", "over"} /\ ipc = "idle" /\ ~aborted

Fails == outcome' = "failed" /\ ipc' = "idle"

\* The configuration is parsed, and kept.
ParseConfig(c) ==
  /\ Between
  /\ \/ /\ c = "malformed" /\ Fails
        /\ UNCHANGED <<m_config, query>>
     \/ /\ c # "malformed"
        /\ m_config' = c /\ ipc' = "schema"
        /\ query' = IF query = None THEN None ELSE [query EXCEPT !.stale = TRUE]
        /\ UNCHANGED outcome
  /\ UNCHANGED <<vars, m_schema, m_default_mode, answer, good>>

\* The schema file is not there; or it is gone when it is opened, or not JSON; or
\* it has some content.
LoadSchema ==
  /\ ipc = "schema"
  /\ \/ ipc' = "impl" /\ UNCHANGED <<m_schema, outcome>>
     \/ Fails /\ UNCHANGED m_schema
     \/ m_schema' \in Contents /\ ipc' = "impl" /\ UNCHANGED outcome
  /\ UNCHANGED <<vars, m_config, m_default_mode, answer, good, query>>

ModeIn(c) == IF c = "executive" THEN "executive" ELSE "short"

\* Mutant: a mode that is no string is replaced by the default before init fails.
InitImplResets ==
  /\ ipc = "impl"
  /\ m_default_mode' = IF plugin.own_mode THEN ModeIn(m_config) ELSE m_default_mode
  /\ \/ /\ plugin.own_mode /\ m_config = "ill_typed" /\ Fails
        /\ UNCHANGED good
     \/ /\ ~plugin.own_mode \/ m_config # "ill_typed"
        /\ good' = m_config
        /\ outcome' = "ok" /\ ipc' = "idle"
  /\ UNCHANGED <<vars, m_config, m_schema, answer, query>>

\* init_impl: only Summarization has one.
InitImpl ==
  /\ ipc = "impl"
  /\ \/ /\ plugin.own_mode /\ m_config = "ill_typed" /\ Fails
        /\ UNCHANGED <<m_default_mode, good>>
     \/ /\ ~plugin.own_mode \/ m_config # "ill_typed"
        /\ m_default_mode' = IF plugin.own_mode THEN ModeIn(m_config) ELSE m_default_mode
        /\ good' = m_config
        /\ outcome' = "ok" /\ ipc' = "idle"
  /\ UNCHANGED <<vars, m_config, m_schema, answer, query>>

-----------------------------------------------------------------------------
(* analyze, around its await of query                                      *)

\* An input that is not an object, or has other types in it, is taken as a text.
parse_input(i) == IF i = "mode" THEN "given" ELSE m_default_mode

\* The prompt: the mode, and the instruction to match the schema.
PromptOf(i) == [mode |-> parse_input(i), schema |-> m_schema, stale |-> FALSE]

Ask(i) ==
  /\ Between /\ llm /\ upc \in {"start", "over"} /\ query = None
  /\ query' = PromptOf(i)
  /\ answer' = None
  /\ UNCHANGED <<vars, m_config, m_schema, m_default_mode, ipc, outcome, good>>

\* Mutant: a schema that cannot be parsed is taken for no schema.
ValidateLeniently(o) == m_schema \in o \cup {"empty", "unusable"}

\* No schema: everything is valid; a schema that valijson cannot use: nothing is.
validate_output(o) == m_schema \in o \cup {"empty"}

\* The reply comes, and is validated against the schema that is loaded by now.
Answer(o) ==
  /\ ~aborted /\ upc \in {"start", "over"} /\ query # None
  /\ answer' = IF validate_output(o) THEN "accepted" ELSE "refused"
  /\ query' = None
  /\ UNCHANGED <<vars, m_config, m_schema, m_default_mode, ipc, outcome, good>>

\* The request fails, or the content is no JSON and the plugin catches that.
Unanswered ==
  /\ ~aborted /\ upc \in {"start", "over"} /\ query # None
  /\ answer' = "refused"
  /\ query' = None
  /\ UNCHANGED <<vars, m_config, m_schema, m_default_mode, ipc, outcome, good>>

\* The reply comes on another thread, while init writes to m_schema.
Race ==
  /\ ~aborted /\ upc \in {"start", "over"} /\ query # None /\ ipc = "schema"
  /\ aborted' = TRUE
  /\ UNCHANGED <<setup, frame, current_value, at_end, control, upc, spc, read,
                 received, broke, past_end, base, query>>

-----------------------------------------------------------------------------
(* analyze_stream                                                          *)

\* The prompt is made when the loop starts, and not when the stream is: the frame
\* is suspended before its first statement.
Stream ==
  /\ ipc = "idle" /\ (query = None \/ upc \notin {"start", "over"})
  /\ Next
  /\ IF frame'["tokens"] = "none" THEN query' = None
     ELSE IF query # None THEN UNCHANGED query
     ELSE \E i \in (IF input = "object" THEN {"mode", "no_mode"} ELSE {"malformed"}) :
            query' = PromptOf(i)
  /\ UNCHANGED base

Stopped == aborted /\ UNCHANGED hostvars

HostNext == \/ \E c \in Configs : ParseConfig(c)
            \/ LoadSchema
            \/ InitImpl
            \/ \E i \in Inputs : Ask(i)
            \/ \E o \in Replies : Answer(o)
            \/ Unanswered
            \/ Race
            \/ Stream
            \/ Stopped

HostSpec == HostInit /\ [][HostNext]_hostvars

-----------------------------------------------------------------------------
(* Properties                                                              *)

\* An init that fails, at whatever step, leaves the mode of the last one that
\* succeeded, though m_config and m_schema may be new; after one that succeeded
\* configuration and mode agree, and so does the mode in a prompt unless init was
\* called after the prompt was made (base_plugin.hpp:40-54,
\* summarization_plugin.cpp:70-73).
ModeFollowsSuccess ==
  /\ plugin.own_mode => m_default_mode = ModeIn(good)
  /\ outcome = "ok" /\ ipc = "idle" => m_config = good
  /\ plugin.own_mode /\ query # None =>
       query.stale \/ query.mode \in {"given", ModeIn(good)}

\* An analysis that accepts a reply was told the schema that the reply matches,
\* unless there was none, or init was called while it waited: the schema is read
\* once for the prompt and again after the await (text_analysis_plugin.cpp:35-45).
AcceptedAsTold ==
  [][\A o \in Replies :
       Answer(o) /\ answer' = "accepted" /\ ~query.stale =>
         query.schema = "empty" \/ query.schema \in o]_hostvars
=============================================================================
