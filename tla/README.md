# ai_plugin_system in TLA+

Models, model-checking runs and machine-checked proofs for the C++ program in `src/`:
`ai_cli` loads LLM plugins from shared libraries, runs one plugin's coroutine on an input, and asks a
list of models over HTTP one after the other. All paths and line numbers below are those of the repository.

Run a check with `tlc -config manager_safety.cfg MCCurlMultiManager`, a proof with
`tlapm CurlMultiManagerProofs.tla` (any module named `...Proofs`). `PROJECT.json` lists the runs, the source lines of every
definition (`map`), the findings, the hazards and the theorems.

## 1. Inventory of the system

| Component | State | Operations | Interacts with | What is hard | What makes it correct |
|---|---|---|---|---|---|
| `CurlMultiManager` (`include/curl_multi_manager.hpp`), `HttpAwaitable` | libcurl multi handle, `m_continuations`, `m_mutex`, `m_running`, polling thread | `instance`, `add_request`, `run`, destructor | resumes coroutines of `HttpLLMClient`; libcurl | two threads; a resumed coroutine calls `add_request` from inside `run`; handles whose addresses come back; destruction with transfers in flight | every suspended coroutine resumed at most once, with its own result, and in the end; no handle freed while attached |
| `Task` (`include/coro_type.hpp`) | coroutine frame, `result`, `caller` | `get`, `co_await`, `final_suspend`, destructor | main thread and polling thread | `done()` polled on one thread, set on another; frame destroyed early | `get` returns the result that was stored; the frame outlives its use |
| `Generator` (same file) | frame, `current_value`, iterator `done` | `begin`, `++`, `*`, `!=`, `co_yield`, destructor | streams of plugins | nested generators, break out of a loop | each value once, in order; no resume at the end; no frame left |
| `HttpLLMClient` (`src/http_llm_client.cpp`) | `m_routing_models` | `query`, `perform_async_post`, `query_stream` | manager, plugins | fallback across threads, partial failures | the first model with a content decides; one attempt at a time; nothing leaked |
| Plugins (`plugins/*`) | (from `BasePlugin`) | `analyze`, `analyze_stream` | `HttpLLMClient`, `BasePlugin` | exceptions in coroutines end the process | what is returned was parsed and validated |
| `BasePlugin`, `SchemaValidator` | `m_config`, `m_schema` | `init`, `validate_output`, `parse_input` | schema files | `init` may fail half way; nobody calls it | outputs match the schema |
| `PluginManager` (`src/plugin_manager.cpp`) | `m_handles`, `m_plugins` | `load_plugin`, `unload_plugin`, destructor | dynamic linker, registry | order of destroy and close; error paths; one library under two paths | live instances have mapped code; opens and closes balance |
| `PluginRegistry` (`include/plugin_registry.hpp`) | `m_registry` | `scan_directory`, `get_plugin` | `PluginManager`, main | repeated scans, overwritten names, pointers to unloaded plugins, plugins loaded past it | lookups find a live plugin of that name among those scanned |
| `ResultCache` (`include/result_cache.hpp`) | list, map of iterators, mutex | `get`, `put` | none in the repository | iterators after eviction; limit | behaves as an LRU cache; list and map agree |
| `CircuitBreaker` (`include/circuit_breaker.hpp`) | `m_state`, `m_failure_count`, `m_last_failure_time` | `allow_request`, `record_success`, `record_failure` | none in the repository | no lock, only the counter is atomic | opens in an outage, and only then |
| CLI (`src/main.cpp`) | locals, destroyed in reverse order | `main` | everything | order of the scans; arguments that are missing; lifetime of frame, library, threads at the end | the plugin asked for is the one that runs; the process ends |
| `EnvLoader` (`include/env_util.hpp`) | the environment | `load`, `get` | `main` | a file over an environment, lines over lines, empty values, gaps in the list of models | the client is configured as the file says |
| `SessionManager`, `AuditLogger` | a vector; a file | append; append | none | | |

How they interact: `main` scans directories into the registry, takes a plugin, calls `analyze` and then
`Task::get`. `get` resumes the chain `analyze -> query -> perform_async_post` once on the main thread.
At the first `co_await` of an `HttpAwaitable` the chain is suspended and registered with the manager; from
then on the polling thread resumes it, and the chain runs there, inside `resume()` in `run()`, until the next
request suspends it again or it is at its end. `get` polls `done()` every 5 ms. At the end `~Task` destroys
the frame, `~PluginManager` closes the libraries, and the static manager is destroyed last.

The `hazards` list in `PROJECT.json` gives each place where this can go wrong, with its line and the property that
would catch it, or the reason why there is none.

## 2. Modules

| Module | Models | Kind |
|---|---|---|
| `AsyncHttp` | what awaiting a request promises: issue, respond, deliver, complete, close | abstract specification |
| `CurlMultiManager` | manager, awaitable and the awaiting coroutine, any number of requests, handles and application threads | component |
| `AsyncAnalysis` | one run of `ai_cli` from `analyze` to the end of the process; EXTENDS `CurlMultiManager` | composition |
| `LruSpec` | an LRU cache in one step per call | abstract specification |
| `ResultCache`, `ResultCacheHistory` | `get` and `put` by statements under the mutex; the history variables with which it implements `LruSpec` | component |
| `PluginManager` | load, unload, destructor over the linker's reference counts | component |
| `PluginRegistry` | scans, lookups; EXTENDS `PluginManager` | composition |
| `Startup` | `EnvLoader` and `main` up to `analyze`, or another program over the registry; EXTENDS `PluginRegistry` | composition |
| `Streaming` | `Generator` twice: `analyze_stream` over `query_stream` | component |
| `PluginHost` | `BasePlugin` (`init`, `parse_input`, `validate_output`) around `analyze` and `analyze_stream`; EXTENDS `Streaming` | composition |
| `CircuitBreaker`, `CircuitBreakerHistory` | the breaker one access at a time; the history of overlapping calls | component |
| `CurlMultiManagerProofs`, `AsyncAnalysisProofs`, `StreamingProofs`, `PluginHostProofs`, `PluginRegistryProofs` (with `PluginManager`), `StartupProofs`, `CircuitBreakerProofs`, `ResultCacheProofs` | theorems of the module they are named after; each EXTENDS it, and the proofs of the component it is composed over | proofs |
| `MCCurlMultiManager`, `MCStartup` | constants and symmetry for TLC | model checking |

Operators whose comment starts with "Mutant:" are changed versions of the definition after them, in the
way a plausible bug would change it; `mutants` in `PROJECT.json` names the property each one violates. They are used by
no specification.

### CurlMultiManager

Variables carry the names of the members (`m_running`, `m_mutex`, `m_continuations`) or say what they stand for:
`transfer` and `done_msgs` are libcurl's view, `frame` the coroutine of each request, `adder` the progress of its
call of `add_request`, `wpc`/`msg`/`current`/`still_running` the locals of `run()`. The steps of `add_request` are
`AddLock` (64-66), `AddAttach` (67-68), `AddWakeup` (69); those of `run` are `Check` (80), `Perform` (81-86), `Read` (94), `Detach`
(101-110), `Resume` (112-115), `Finish` and `Chain` or `Back` (the coroutine running inside `resume()`), `Decide` (120)
and `Wake`. A chained request runs its `add_request` on the polling thread (`Nested`), which is where a
lock held over `resume()` would deadlock. `Construct` is the first `instance()`, `Destroy` and `Join` the destructor.

Although `ai_cli` has one application thread, the model lets any thread start requests at any time, since
`add_request` is a public function of a process-wide object.

Assumptions: a call into libcurl is one step (overlapping calls on one multi handle are inside libcurl); a transfer leaves one
message; a failing `curl_multi_add_handle` changes nothing. The unlocked `m_continuations.empty()` may answer either
way while an insertion is under way.

### AsyncAnalysis

`Requests` is `1 .. MaxModels`: request k is the attempt with the k-th model. `cpc` is the coroutine chain, `runner` the
thread it is on, `mpc` the main thread in `Task::get` and the end of `main`. `Replies` are the kinds of reply that
`await_resume`, `query` and `analyze` tell apart. A plugin is a record of whether it catches parse errors of the content and
whether it accepts inputs that are no objects; the nine records are read off the nine files. An exception that
leaves a coroutine ends the process (`aborted`). `Loaded` says what `m_schema` may be when `analyze` is called: `"empty"` in
`ai_cli`; a host that called `init` before may have a usable schema or one that valijson cannot use. That `init` is called while
`analyze` waits is left to `PluginHost`. The machine is taken to be x86-64: the plain stores to the result and to the frame's
state become visible in program order.

### ResultCache, PluginManager, PluginRegistry

`ResultCache` identifies list nodes by addresses that come back after a node was freed, so an iterator left
behind by an eviction is a detectable error. `PluginManager` counts opens per library and
not per path, because `main` scans `../lib` next to the executable and `./build/lib`, which can be the same
directory. `PluginRegistry` scans the entries of a directory in any order; names are compared through `Normal`,
which `MCStartup` defines as `normalize_name` does (case and separators dropped). A lookup changes no state, so `get_plugin` is an
operator, and `LookupFinds` says of every state what it returns for every name. `LoadPath` is a `load_plugin` that is not
called by `scan_directory`: at any time between two scans, any number of times. Its plugin is not registered, and `get_plugin` returns
`nullptr` for its name although it is live; the history variable `direct` holds the instances loaded so, and
`MirrorsHandles` and `LookupFinds` speak of the others only.
`shutdown` is empty in every plugin and is part of `Destroy`.

### Startup

`mpc` is the statement of `main`, and `turn` counts the turns of the loop that it is in. `LoadLine` and `LoadEnd` are `EnvLoader::load` with the
file in the first argument; a line is a sequence of tokens (`=`, `#`, blanks, words), so comments, the first `=`, the trimming and
empty values are as in the code. `SearchPath` is `PLUGINS_DIR`, then the
four default directories; `ScanDir`, `ScanStep` and `LoadFails` are `scan_directory` over the actions of `PluginRegistry`;
`Configure` builds the client, and the two loops over the models (`ReadModel`, `ModelsEnd`) fill its list, which in the
code is a vector that the client gets when they are done; `Choose` and `LoadChosen` find the plugin by name or else by path. `ScanThrows`,
`NullError`, `NullArgument` and `DumpThrows` are the four ways in which `main` can abort: an uncaught exception, or a null
pointer that is used. `Return` runs the destructors. With `mpc = "api"` the program is another one, which calls the registry and the
manager as it likes (`PluginRegistry!Next`): scans, loads by path, lookups and `unload_plugin` in any order. `main` itself
never uses the registry again after its load by path.

What happens between `Analyze` and the printing of the result is `AsyncAnalysis`, which starts where `Analyze` is
taken: with any plugin, any kind of input and any number of models.

### Streaming

Two frames on one thread: the consumer resumes `stream` (`analyze_stream`), whose body resumes `tokens`
(`query_stream`). Resuming a frame that is not suspended is undefined in C++ and recorded in `past_end`. The consumer is
a range-for loop that may break off; the repository declares the operation but has no consumer.

### PluginHost

A plugin object in the hands of a host that calls `init`, `analyze` and `analyze_stream` in any order, `init` also while an analysis
waits for its reply and while a stream has been made and not started. `init` is three steps, each of which
can fail: `ParseConfig` (42), `LoadSchema` (44-48), `InitImpl` (50, and `SummarizationPlugin::init_impl`). `query` is the
prompt that is out: its mode, and the schema named in it; `Answer` validates against the schema that is loaded when the reply
comes. `stale` marks a prompt that an `init` came after. `Race` is a reply that is validated on the polling thread during the
write to `m_schema`: undefined, so the process may end; the other outcomes are those of an order of the two.
The schema file and the reply are taken from small sets at the time they are read: a reply is known by the set of
schemas that it matches. `init` is not called from inside the consumer's loop, where it could change nothing of the stream.

### CircuitBreaker

Each access to `m_state`, `m_failure_count` and `m_last_failure_time` is a step. A thread asks, makes its request
if it may, and records the outcome. Accesses are sequentially consistent (aligned words, x86-64); delays of a store buffer are
not modelled. The counter is far from 2^31. The threshold is assumed positive.

## 3. Runs

| Run | Question | Bounds, and why they are enough |
|---|---|---|
| `manager_safety` | can a coroutine be resumed twice, with a foreign or partial result, or with its handle in use? Is `IInv` an invariant? | 4 requests, 3 handles, 2 outcomes: two requests contend for the lock while a third completes and the fourth reuses a freed address; `curl_multi_add_handle` may fail |
| `manager_live` | is every suspended coroutine resumed, does the join return, is `AsyncHttp` implemented? | 3 requests, 2 handles: one transfer runs, one is added in any window of the loop, and the third chains |
| `manager_wakeup` (violation) | does `add_request` wake the polling thread? | 2 requests |
| `analysis` | does `get` return what the first model with a content brought, is anything leaked, does the process end? | up to 3 models: the first attempt is made by the main thread, the second and third by the polling thread, each after a failure of any kind; all plugins, all replies |
| `analysis_frame`, `analysis_schema`, `analysis_addfail` (violations) | see findings | 1 model |
| `cache` | do list and map agree, is it LRU? | 2 threads, 3 keys, size 2: both an eviction and an overwrite of each position |
| `registry` | do handles, instances and opens balance, are lookups right, is the plugin that was asked for analyzed, is the client configured as the file says? | one library under two paths, one with missing symbols, one file that is none, two versions of a plugin of one name, two names that differ in a separator, a plugin of an unlike name; four environment files (one missing), two environments, ten command lines, among them every number of arguments; 3 handles in a program that is not `ai_cli`: two plugins of one name and one past the registry, or one unloaded between two others |
| `startup_list` (violation) | does the documented `ai_cli .env --list` list the plugins? | the same directories, every file a plugin |
| `streaming` | does every token arrive once, in order, is every frame destroyed; what is left by an `init` that fails; which schema is a reply judged by that no `init` came before? | 0 to 7 words (the mock response has 7), every plugin, a break after any token; two schemas, so that one can replace the other, four configurations, any number of `init`s |
| `breaker` | does it open in an outage, and only then, and for how long at least? | 3 threads, threshold 2, count up to 4, clock up to 2 (one more than the timeout): two failures and a success overlap, and a probe fails or succeeds, and the next one has to wait again |

Deadlock is checked in every run; a finished process stutters in `Terminated`.

Bounds on otherwise unbounded things: `MaxModels` (the program reads at most 10), `MaxLoads` (handles open at a
time, in `PluginRegistry!Next`, where a scan counts the
plugins of its directory beforehand; `ai_cli` itself opens as many as its directories hold), `MaxTokens`, `MaxNow` and `MaxCount` (in `Tick` and `Fails`).

### Fairness

`CurlMultiManager!Fairness`: weak fairness of the polling thread and of each `add_request` (the scheduler runs threads that
can run; the mutex is held for two steps only), and of the join. Strong fairness that a running transfer ends in some
`curl_multi_perform`: `CURLOPT_TIMEOUT` is 30 s (`src/http_llm_client.cpp:72`), and a loop that keeps calling
`curl_multi_perform` sees it expire; it is strong because the step is enabled only while the thread is at that line. No
fairness is assumed of starting requests, of the destructor, or of the network answering well. `AsyncAnalysis!FairAnalysisSpec` assumes
the same of the main thread, the chain and the polling thread. The other modules state safety only.

### Findings

* `manager_wakeup`: `curl_multi_wakeup` ends only `curl_multi_poll`; the loop sleeps or uses `curl_multi_wait`, so a new
  request waits up to 50 ms, against the comment at `include/curl_multi_manager.hpp:69` and `CHANGELOG.md:22`.
* `analysis_frame`: `done()` is true before the final awaiter has run; the main thread can destroy the frame and unmap the
  plugin while the polling thread is in them (`include/coro_type.hpp:44`).
* `analysis_schema`: `main` never calls `init`, so the schema is empty and nothing is validated, against
  `docs/architecture/architecture.md:44`.
* `analysis_addfail`: the ignored result of `curl_multi_add_handle` leaves `Task::get` polling for ever.
* `startup_list`: `ai_cli .env --list`, as `README.md:69` has it, lists nothing: `main` looks for `--list` in `argv[1]` only, and goes on
  to build a string from the null pointer `argv[3]` (`src/main.cpp:81-82`).

Also noticed, without a run: the registry keeps pointers to plugins that were unloaded (`src/plugin_manager.cpp:78`; nobody
unloads). The comment at `src/main.cpp:94` says that its loop finds "older .env files without leading zero", but `LLM_0{}` is with the
zero and the keys are those of the loop before. After a `dlclose` that succeeded, `dlerror` may return a null pointer, which
`src/plugin_manager.cpp:49` formats. A `PLUGINS_DIR` that is a plain file, and an input that is not UTF-8, end
the process with an uncaught exception. An `init` that fails may leave a new configuration and a new schema behind
(`include/base_plugin.hpp:42-50`). `docs/architecture/architecture.md:10` and `CHANGELOG.md:59` name retries with exponential backoff; the
code goes on to the next model at once and asks no model twice.

## 4. Proofs

Every theorem holds for all values of the constants that satisfy the assumptions below. A proof of `Spec => []P` has the
same layout everywhere: an inductive invariant, one lemma per action that keeps it (a step per conjunct that the action can
disturb), a lemma that puts the actions together, and the properties read off the invariant. TLC found each of the invariants
to hold on the instance of the component's run before it was proved. Where one module is composed over another, its steps are shown to be steps
of that module or to leave it alone, so the invariant below is used as it is.

| Module | Theorem | Statement |
|---|---|---|
| `CurlMultiManagerProofs` | `Invariance` | `Spec => []IInv` |
| | `TypeCorrect`, `NeverDangling`, `AlwaysWhole`, `AlwaysDetachedBeforeCleanup`, `NothingLost` | `TypeOK`, `NoDanglingContinuation`, `WholeResult`, `CleanupDetached`, `NoLostRequest` always hold |
| | `Implementation` | `Spec => Implements`: `AsyncHttp!Spec` with `phase <- frame`, `answer <- body`, `delivered <- res`, `open <- manager # "destroyed"` |
| `AsyncAnalysisProofs` | `AnalysisInvariance`, `AnalysisTypeCorrect` | `AnalysisSpec => []AInv`, `[]AnalysisTypeOK` |
| | `ManagerUndisturbed` | `AnalysisSpec => Spec` of `CurlMultiManager`: every theorem about the manager holds in `ai_cli` |
| | `AlwaysFirstSuccessDecides`, `AlwaysOneAttempt`, `NeverLeftBehind`, `AlwaysValidatedOnceLoaded` | `FirstSuccessDecides`, `OneAttemptAtATime`, `NothingLeftBehind`, `ValidatedOnceLoaded` always hold |
| `StreamingProofs` | `Invariance` | `Spec => []IInv` |
| | `AlwaysOnceInOrder`, `AlwaysResumedWhenSuspended`, `NeverOrphanFrame` | `OnceInOrder`, `ResumedWhenSuspended`, `NoOrphanFrame` always hold |
| `PluginHostProofs` | `HostInvariance`, `HostTypeCorrect` | `HostSpec => []HostInv`, `[]HostTypeOK` |
| | `ModeAlwaysFollowsSuccess`, `AlwaysAcceptedAsTold` | `[]ModeFollowsSuccess`; the action property `AcceptedAsTold` |
| | `StreamsUndisturbed` | the three properties of `Streaming` hold under `HostSpec` |
| `PluginRegistryProofs` | `RegistryInvariance` | `Spec => []RegistryInv` |
| | `AlwaysMapped`, `AlwaysBalanced`, `AlwaysMirrors`, `LookupAlwaysFinds` | `LiveCodeMapped`, `Balanced`, `MirrorsHandles`, `LookupFinds` always hold |
| `StartupProofs` | `StartupInvariance` | `StartupSpec => []StartupInv` |
| | `LastAlwaysWins`, `AlwaysTheOneAskedFor` | `LastDirectoryWins`, `AnalyzesWhatIsAsked` always hold |
| | `ConfigInvariance`, `StartupTypeCorrect` | `StartupSpec => []ConfigInv`, `[]StartupTypeOK` |
| | `AlwaysConfiguredAsWritten` | `[]ConfiguredAsWritten` |
| | `RegistryUndisturbed` | the four properties of manager and registry hold under `StartupSpec` |
| `CircuitBreakerProofs` | `HistoryInvariance`, `HistoryTypeCorrect` | `HSpec => []HInv`, `[]HistoryTypeOK` |
| | `AlwaysTrips`, `AlwaysDeserved`, `PauseAlwaysKept` | `[]TripsInOutage`, `[]OpenIsDeserved`; the action property `PauseIsKept` |
| `ResultCacheProofs` | `CacheInvariance`, `CacheTypeCorrect` | `Spec => []CacheInv`, `[]TypeOK` |
| | `NeverDangles`, `AlwaysCoherent` | `NoDanglingIterator`, `Coherent` always hold |
| | `HistoryWatches`, `HistoryInvariance` | `HSpec => Spec`, `HSpec => []HistoryInv` |
| | `CacheIsLru` | `HSpec => ImplementsLru`: `LruSpec!Spec` with `Capacity <- MaxSize` |

### The invariants, and why they are needed

None of the properties is inductive. What each proof adds:

* `CurlMultiManager`. That the coroutine found under a message's handle is still suspended when the message is read, many steps
  after it was written, needs where a request can be at each point of the two threads: `MutexInv`, `AdderInv`, `HandleInv` (who
  holds the lock, how far each `add_request` is, that a handle has one owner); `ContinuationInv`, `RegisteredInv` (the map and the
  suspended coroutines correspond, except for the one in `current`); `TransferInv`, `AttachedInv` (the multi handle and the map
  correspond, except for a failed `curl_multi_add_handle`); `MessageInv`, `BodyInv`, `WholeResult` (a finished transfer has one message,
  which carries the outcome that the data came with); `CurrentInv`, `ManagerInv`. TLC checks `IInv` in `manager_safety` too.
  For the refinement, `Perform` is `Respond`, `Resume` is `Deliver`, `Finish` is `Complete`, `Join` is `Close`; every other action stutters.
* `AsyncAnalysis`. `AInv` is `IInv` and three parts: `AttemptsInv` (the attempts before the present one failed, those after it were not
  made), `ChainInv` (what the chain has of the present attempt at each of its steps, so that `Decides` holds of the result when
  it is stored) and `MainInv` (what main has taken is what the chain stored). With `IInv` these give `NothingLeftBehind`:
  all attempts are finished or were never made, and a finished coroutine has no continuation, no transfer and no message.
* `Streaming`. `ConsumerInv` and `BodyInv` say which frame is suspended, running or at its end at each program point of
  consumer and body; `WordsInv` counts: what was read is what was received, and at most one word in a `current_value`; `SingleInv` is its
  counterpart for a stream that is one error.
* `PluginHost`. `HostInv` adds that a prompt that is not stale was made with the schema that is still loaded, and that an `init` under way
  makes every prompt stale.
* `PluginRegistry`. `Balanced` counts handles per library, so its proof is about cardinalities of sets of handles under `erase` and
  `push_back`; `ManagerInv` says which handle an unload or the destructor is at. `MirrorsHandles` takes the maximum of a set of positions;
  `Mirrored` says the same with a position after which no handle that a scan has loaded (`Filed`) has the name, which each load of a scan
  moves. A load past the registry adds a handle that is not `Filed`, because its instance was not live before and joins `direct`.
  `Registered` and `LookedUp` make `LookupFinds` of it.
* `Startup`. `LastDirectoryWins` is about the end of the scans. `SearchInv` says it of every moment in them: what is registered for a name comes
  from a directory after which no entry opened so far contributed (`Winner`), with the entries of the present directory split into opened and not.
  `ConfiguredAsWritten` is about the end of two loops. `EnvInv` says after each line that a variable is what the last line read so
  far has set it to, and `Asked` after each number that the models so far are the non-empty ones, the k-th under the index k
  (a cardinality). From it follows that the second loop, which runs when the first has found nothing, finds nothing either.
* `CircuitBreaker`. `RowInv`: the failures in a row, plus the threads that have counted theirs and overlap no success, are no more than the
  counter; so no increment is lost and the one that reaches the threshold opens the breaker. `BlameInv`: conversely, until
  enough failures are to blame the counter, plus the failures about to be counted, is no more than they are. `OverlapInv` makes the two
  symmetric; `PauseInv` orders the times that late threads may store.
* `ResultCache`. `ListInv` and `MapInv` say that list and map are inverse to one another at every statement of `get` and `put`, except for the
  one pair that `Unmapped` names: the last one between `erase` and `pop_back`, the first one between `push_front` and the assignment to the
  map. `CallInv` is what the thread has found out under the lock. For the refinement `OrderInv` says that the keys of the list are the
  first `MaxSize` keys of `recent`, in that order, except for the splice or the eviction that is under way, and `ValueInv` that the values are `latest`.
  A call is a step of `LruSpec` when it returns: `Miss` is `Miss`, `Value` is `Hit` or `Put`, `Index` is `Put`; all other actions stutter. In
  particular a key that comes back after its eviction is found beyond the first `MaxSize` of `recent`, and moves over all of them.

### Assumptions

Each is an `ASSUME` of the module that declares the constant, evaluated by TLC in the runs:

* `None` (null, `end()`, an empty optional) is no element of the sets it is put beside: in `ManagerAssumption`, `PluginAssumption`,
  `RegistryAssumption`, `StartupAssumption`, `CacheAssumption`, `HostAssumption`.
* `AnalysisAssumption`: requests are numbered by the models, the outcomes are the replies that the code tells apart.
* `PluginAssumption`, `RegistryAssumption`: files, libraries, names and directories are related by functions. `StartupAssumption`: the default directories are
  a sequence of paths, the files sequences of lines, the inherited environments functions whose values are sequences of tokens.
* `BreakerAssumption`: finitely many threads, a positive threshold; times and bounds are natural numbers.
* `CacheAssumption`: a size of at least one, and more addresses than pairs.

The bounds in the guards (`MaxNow`, `MaxCount`, `MaxLoads`, `MaxTokens`) are constants as well: the theorems hold for any value of them.

### Only model-checked

* Liveness (`EveryRequestResumed`, `JoinReturns`, `MainEnds`): the prover has no support for ENABLED and fairness.
* The violated properties of section 3, of course.

## 5. Plan

Order, most important first; done are 1 to 8.

1. `AsyncHttp`, `CurlMultiManager`: runs `manager_*`; invariance and refinement proved.
2. `AsyncAnalysis` over it: runs `analysis*`.
3. `PluginManager`, `PluginRegistry`: run `registry`.
4. `ResultCache` with `LruSpec`: run `cache`.
5. `Streaming`, `CircuitBreaker`: runs `streaming`, `breaker`.
6. `PluginHost` over `Streaming`: run `streaming`.
7. `Startup` over `PluginRegistry`: runs `registry`, `startup_list`.
8. Proofs, in the order of section 4: done for every safety property and action property of the passing runs. The loop over the
   environment file, which was a fold before, is modelled line by line for this: what a fold computes for every sequence is an induction
   over data, out of the prover's reach, and an invariant of the steps is not.
9. Next: an abstract specification of the breaker (closed, open and half-open in one step per call, with
   the overlaps it allows) and of a generator (a sequence handed out one by one), as refinements that are proved like
   `CacheIsLru`; shorter proofs where two lemmas of `ResultCacheProofs` argue about the same permutation.

Not modelled, and not planned: `SessionManager` (a vector nobody uses), `AuditLogger` (formatted output nobody calls), the wording
of prompts and messages, the insides of libcurl, of the dynamic linker and of valijson.
