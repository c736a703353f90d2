-------------------------------- MODULE Startup --------------------------------
(***************************************************************************)
(* The program over PluginManager and PluginRegistry: main of ai_cli, from *)
(* its arguments and its environment (EnvLoader) to the plugin whose       *)
(* analysis AsyncAnalysis takes up, or any other program that uses the     *)
(* registry as it likes.  A text that is taken apart (a line of the        *)
(* environment file, a value) is a sequence of tokens: "=", "#", a blank   *)
(* " ", and words.                                                         *)
(***************************************************************************)
EXTENDS PluginRegistry

CONSTANTS Files,        \* environment file -> its lines
          Inherited,    \* environments the process may start with
          CommandLines, \* argv without argv[0]
          DefaultDirs,  \* directories main scans, in this order
          PlainFiles    \* paths that exist and are no directories

Endpoint == <<"https://openrouter.ai/api/v1/chat/completions">>

Clients == [key : Seq(STRING), endpoint : Seq(STRING) \cup {Endpoint},
            models : Seq(Seq(STRING))]

ASSUME StartupAssumption ==
  /\ None \notin Clients
  /\ DefaultDirs \in Seq(Seq(STRING))
  /\ \A f \in DOMAIN Files : Files[f] \in Seq(Seq(STRING))
  /\ \A e \in Inherited : e = [k \in DOMAIN e |-> e[k]] /\ Range(e) \subseteq Seq(STRING)

VARIABLES
  mpc,          \* where main is; "api" in a program that is not ai_cli
  args, inherited,
  env,          \* the environment: names -> values
  turn,         \* turns that the loop main is in has taken
  search,       \* directories still to scan
  client,       \* the LLM client and its models, or None
  listed,       \* the names that --list has printed, or None
  plugin,       \* the plugin whose analyze is called, or None
  refused,      \* history: a library did not make the plugin it could make
  aborted       \* an uncaught exception, or a crash

smain == <<args, inherited, env, turn, search, client, listed, plugin>>
svars == <<rvars, mpc, smain, refused, aborted>>

-----------------------------------------------------------------------------
(* EnvLoader                                                               *)

Before(s, token) == LET i == SelectInSeq(s, LAMBDA t : t = token) IN
                    IF i = 0 THEN s ELSE SubSeq(s, 1, i - 1)

After(s, token) == SubSeq(s, Len(Before(s, token)) + 2, Len(s))

\* Without the blanks at both ends.
Trim(s) == LET words == {i \in DOMAIN s : s[i] # " "} IN
           IF words = {} THEN <<>> ELSE SubSeq(s, Min(words), Max(words))

\* What a line assigns, after its comment is removed.
Key(line) == Trim(Before(Before(line, "#"), "="))
Val(line) == Trim(After(Before(line, "#"), "="))
Assigns(line) == Contains(Before(line, "#"), "=") /\ Key(line) # <<>>

\* Mutant: setenv does not overwrite.
SetenvKeeps(e, line) ==
  IF Assigns(line) /\ Key(line) \notin DOMAIN e
  THEN [k \in DOMAIN e \cup {Key(line)} |-> IF k = Key(line) THEN Val(line) ELSE e[k]]
  ELSE e

\* A line is set in the environment, over a value that is there.
Setenv(e, line) ==
  IF Assigns(line)
  THEN [k \in DOMAIN e \cup {Key(line)} |-> IF k = Key(line) THEN Val(line) ELSE e[k]]
  ELSE e

\* A file that cannot be opened has nothing to read.
Lines == IF args # <<>> /\ args[1] \in DOMAIN Files THEN Files[args[1]] ELSE <<>>

\* An empty value is a value.
get(e, key, default) == IF key \in DOMAIN e THEN e[key] ELSE default

-----------------------------------------------------------------------------
(* main                                                                    *)

ModelKeys == <<"LLM_01", "LLM_02", "LLM_03", "LLM_04", "LLM_05",
               "LLM_06", "LLM_07", "LLM_08", "LLM_09", "LLM_10">>

\* The variable of a number is asked for; an empty model is left out.
WithModel(models, i) ==
  LET model == get(env, <<ModelKeys[i]>>, <<>>) IN
  IF model # <<>> THEN Append(models, model) ELSE models

SearchPath(e) ==
  LET dir == get(e, <<"PLUGINS_DIR">>, <<>>) IN
  (IF dir # <<>> THEN <<dir>> ELSE <<>>) \o DefaultDirs

StartupTypeOK ==
  /\ TypeOK
  /\ mpc \in {"api", "start", "scan", "scanned", "models", "fallback", "choose", "load",
             "analysis", "end", "over"}
  /\ args \in CommandLines /\ inherited \in Inherited
  /\ Range(env) \subseteq Seq(STRING)
  /\ turn \in Nat
  /\ search \in Seq(Seq(STRING))
  /\ client = None \/ client \in Clients
  /\ listed = None \/ listed \subseteq Names
  /\ plugin \in Instances \cup {None}
  /\ refused \in BOOLEAN /\ aborted \in BOOLEAN

StartupInit ==
  /\ Init
  /\ mpc \in {"api", "start"}
  /\ args \in CommandLines /\ inherited \in Inherited
  /\ mpc = "api" => args = <<>> /\ inherited = <<>>
  /\ env = inherited /\ turn = 0
  /\ search = <<>> /\ client = None /\ listed = None /\ plugin = None
  /\ refused = FALSE /\ aborted = FALSE

Goto(from, to) == mpc = from /\ mpc' = to

Abort == aborted' = TRUE /\ UNCHANGED <<rvars, mpc, smain, refused>>
Fine == UNCHANGED <<refused, aborted>>

\* No argument: main returns before there is a manager.
Usage ==
  /\ args = <<>>
  /\ Goto("start", "over")
  /\ UNCHANGED <<rvars, smain>> /\ Fine

\* EnvLoader::load, line by line ...
LoadLine ==
  /\ mpc = "start" /\ turn < Len(Lines)
  /\ turn' = turn + 1
  /\ env' = Setenv(env, Lines[turn'])
  /\ UNCHANGED <<rvars, mpc, args, inherited, search, client, listed, plugin>> /\ Fine

\* ... to the end of the file; then the manager and the registry are made.
LoadEnd ==
  /\ args # <<>> /\ turn = Len(Lines)
  /\ Goto("start", "scan")
  /\ search' = SearchPath(env)
  /\ UNCHANGED <<rvars, args, inherited, env, turn, client, listed, plugin>> /\ Fine

\* scan_directory of the next directory; one that does not exist is passed over.
ScanDir ==
  /\ mpc = "scan" /\ todo = None /\ search # <<>>
  /\ Head(search) \notin PlainFiles
  /\ IF Head(search) \in Dirs THEN Scan(Head(search)) ELSE UNCHANGED rvars
  /\ search' = Tail(search)
  /\ UNCHANGED <<mpc, args, inherited, env, turn, client, listed, plugin>> /\ Fine

\* directory_iterator throws on a path that exists and is no directory.
ScanThrows ==
  /\ mpc = "scan" /\ todo = None /\ search # <<>>
  /\ Head(search) \in PlainFiles
  /\ Abort

ScanStep ==
  /\ mpc = "scan"
  /\ ScanNext \/ ScanEnd \/ \E i \in Instances : Loaded(i)
  /\ UNCHANGED <<mpc, smain>> /\ Fine

\* load_plugin fails on an open library: in a scan the loop goes on, and for the
\* argument of main that is the end.
LoadFails ==
  /\ mpc # "api"
  /\ LoadError
  /\ refused' = (refused \/ loading \in Complete)
  /\ mpc' = IF mpc = "load" THEN "end" ELSE mpc
  /\ UNCHANGED <<smain, aborted>>

\* After dlclose has succeeded, dlerror may have nothing to report, and its null
\* pointer is formatted.
NullError == loading # None /\ loading \notin Complete /\ Abort

ScansDone ==
  /\ search = <<>> /\ todo = None
  /\ Goto("scan", "scanned")
  /\ UNCHANGED <<rvars, smain>> /\ Fine

List ==
  /\ Goto("scanned", "end")
  /\ args[1] = "--list"
  /\ listed' = {n \in Names : m_registry[n] # None}
  /\ UNCHANGED <<rvars, args, inherited, env, turn, search, client, plugin>> /\ Fine

\* argv[2] or argv[3] is the null pointer after the last argument.
NullArgument ==
  /\ mpc = "scanned" /\ args[1] # "--list" /\ Len(args) < 3
  /\ Abort

\* The client has no models yet.
Configure ==
  /\ Goto("scanned", "models")
  /\ args[1] # "--list" /\ Len(args) >= 3
  /\ client' = [key |-> get(env, <<"OPENROUTER_API_KEY">>, <<>>),
                endpoint |-> get(env, <<"LLM_ENDPOINT">>, Endpoint),
                models |-> <<>>]
  /\ turn' = 0
  /\ UNCHANGED <<rvars, args, inherited, env, search, listed, plugin>> /\ Fine

\* The bounds of the two loops over the models.
LastModel == IF mpc = "models" THEN 10 ELSE 9

ReadModel ==
  /\ mpc \in {"models", "fallback"} /\ turn < LastModel
  /\ turn' = turn + 1
  /\ client' = [client EXCEPT !.models = WithModel(@, turn')]
  /\ UNCHANGED <<rvars, mpc, args, inherited, env, search, listed, plugin>> /\ Fine

\* Where the first loop has found nothing, a second one follows.
ModelsEnd ==
  /\ mpc \in {"models", "fallback"} /\ turn = LastModel
  /\ mpc' = IF mpc = "models" /\ client.models = <<>> THEN "fallback" ELSE "choose"
  /\ turn' = 0
  /\ UNCHANGED <<rvars, args, inherited, env, search, client, listed, plugin>> /\ Fine

\* Mutant: main does not look whether it got a plugin.
ChooseUnchecked ==
  /\ Goto("choose", "analysis")
  /\ plugin' = get_plugin(args[2])
  /\ UNCHANGED <<rvars, args, inherited, env, turn, search, client, listed>> /\ Fine

\* The plugin of that name ...
Choose ==
  /\ mpc = "choose"
  /\ plugin' = get_plugin(args[2])
  /\ mpc' = IF plugin' = None THEN "load" ELSE "analysis"
  /\ UNCHANGED <<rvars, args, inherited, env, turn, search, client, listed>> /\ Fine

\* ... or else the library at that path, if there is one.
LoadChosen ==
  /\ mpc = "load"
  /\ \/ args[2] \in Paths /\ LoadPath(args[2]) /\ UNCHANGED <<mpc, smain>>
     \/ \E i \in Instances :
          /\ Loaded(i)
          /\ plugin' = i /\ mpc' = "analysis"
          /\ UNCHANGED <<args, inherited, env, turn, search, client, listed>>
  /\ Fine

NotFound ==
  /\ Goto("load", "end") /\ Ready
  /\ args[2] \notin {p \in Paths : LibOf[p] # None}
  /\ UNCHANGED <<rvars, smain>> /\ Fine

\* The input, JSON or not, is written as JSON, and analyze is called with it.
Analyze ==
  /\ Goto("analysis", "end")
  /\ args[3] # "not UTF-8"
  /\ UNCHANGED <<rvars, smain>> /\ Fine

\* dump() throws on text that is not UTF-8.
DumpThrows == mpc = "analysis" /\ args[3] = "not UTF-8" /\ Abort

Return == mpc = "end" /\ Finish /\ UNCHANGED <<mpc, smain>> /\ Fine

Main == Usage \/ LoadLine \/ LoadEnd \/ ScanDir \/ ScanThrows \/ ScanStep \/ LoadFails
        \/ ScansDone \/ List \/ NullArgument \/ Configure \/ ReadModel \/ ModelsEnd
        \/ Choose \/ LoadChosen \/ NotFound \/ Analyze \/ DumpThrows \/ Return

\* Another program.
Api == mpc = "api" /\ Next /\ UNCHANGED <<mpc, smain>> /\ Fine

Stopped == (mpc = "over" \/ life = "over" \/ aborted) /\ UNCHANGED svars

StartupNext == \/ ~aborted /\ (Main \/ NullError \/ Api)
               \/ Stopped

StartupSpec == StartupInit /\ [][StartupNext]_svars

-----------------------------------------------------------------------------
(* Properties                                                              *)

\* The libraries that a directory holds a plugin of this name in.
Offers(d, n) ==
  IF d \notin Dirs THEN {}
  ELSE {l \in Complete : NameOf[l] = n /\ \E p \in Entries[d] : LibOf[p] = l}

\* After the scans every plugin in the search path has its name in the registry,
\* and of several with one name it is one from the last directory that has any:
\* the default directories of main win over PLUGINS_DIR (main.cpp:52-68).
LastDirectoryWins ==
  mpc \in {"scanned", "models", "fallback", "choose", "load", "analysis"} /\ ~refused =>
    LET path == SearchPath(env) IN
    \A n \in Names :
      LET offering == {j \in DOMAIN path : Offers(path[j], n) # {}} IN
        IF offering = {} THEN m_registry[n] = None
        ELSE /\ m_registry[n] \in Live
             /\ made_by[m_registry[n]] \in Offers(path[Max(offering)], n)

\* The plugin that main analyzes with exists, its code is mapped, and it is the
\* one asked for: by its name, however spelled, before a path (main.cpp:102-112).
AnalyzesWhatIsAsked ==
  mpc = "analysis" =>
    /\ plugin \in Live /\ refcount[made_by[plugin]] > 0
    /\ IF plugin \in direct THEN args[2] \in Paths /\ LibOf[args[2]] = made_by[plugin]
                           ELSE Normal[NameOf[made_by[plugin]]] = Normal[args[2]]
    /\ plugin \in direct => \A i \in Live \ {plugin} :
                              Normal[NameOf[made_by[i]]] # Normal[args[2]]

\* The first n lines that set this variable.
Setting(n, key) == {j \in 1 .. n : Assigns(Lines[j]) /\ Key(Lines[j]) = key}

\* The value a variable has after load: that of the last line that assigns it,
\* else the inherited one.
Effective(key, default) ==
  LET setting == Setting(Len(Lines), key)
  IN IF setting # {} THEN Val(Lines[Max(setting)]) ELSE get(inherited, key, default)

\* The numbers up to n that have a model.
Numbered(n) == {i \in 1 .. n : Effective(<<ModelKeys[i]>>, <<>>) # <<>>}

\* The client is configured as the file says, over the environment, each line over
\* those before it; the models are asked in the order of their numbers, gaps and
\* empty values left out (env_util.hpp:35-66, main.cpp:84-100).
ConfiguredAsWritten ==
  client # None /\ mpc \notin {"models", "fallback"} =>
    /\ client.key = Effective(<<"OPENROUTER_API_KEY">>, <<>>)
    /\ client.endpoint = Effective(<<"LLM_ENDPOINT">>, Endpoint)
    /\ Len(client.models) = Cardinality(Numbered(10))
    /\ \A i \in Numbered(10) :
         client.models[Cardinality(Numbered(i))] = Effective(<<ModelKeys[i]>>, <<>>)

\* "List all discovered plugins: ai_cli .env --list" (README.md:68-69).
ListIsAnswered ==
  Len(args) = 2 /\ args[2] = "--list" /\ (aborted \/ mpc = "end") => listed # None
=============================================================================
