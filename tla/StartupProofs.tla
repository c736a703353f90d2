---------------------------- MODULE StartupProofs ----------------------------
(***************************************************************************)
(* For any environment, environment file, command line and file system:    *)
(* what main of ai_cli does with PluginManager and PluginRegistry, and     *)
(* that everything these two promise still holds when main uses them.      *)
(***************************************************************************)
EXTENDS Startup, PluginRegistryProofs

Path == SearchPath(env)
Searching ==
  mpc \in {"scan", "scanned", "models", "fallback", "choose", "load", "analysis"}

\* The directories of the search path that scan_directory was called for.
Visited == Len(Path) - Len(search)

\* The entries that were opened in the k-th of them.
Opened(k) == IF Path[k] \notin Dirs THEN {}
             ELSE IF k = Visited /\ todo # None THEN Entries[Path[k]] \ todo
             ELSE Entries[Path[k]]

\* A plugin of the name n was loaded from the k-th directory; one that is being
\* loaded does not count yet.
Contributed(k, n) ==
  \E p \in Opened(k) : /\ LibOf[p] \in Complete /\ NameOf[LibOf[p]] = n
                       /\ todo # None => LibOf[p] # loading

\* What is registered for n comes from a directory after which none contributed.
Winner(n) ==
  /\ m_registry[n] = None => \A k \in 1 .. Visited : ~Contributed(k, n)
  /\ m_registry[n] # None =>
       /\ m_registry[n] \in Live
       /\ \E j \in 1 .. Visited :
            /\ made_by[m_registry[n]] \in Offers(Path[j], n)
            /\ \A k \in 1 .. Visited : k > j => ~Contributed(k, n)

\* No live instance has the name that was asked for.
Unknown == \A i \in Live : Normal[NameOf[made_by[i]]] # Normal[args[2]]

\* What main knows at each of its statements.
AtStart == /\ life = "alive" /\ m_handles = <<>> /\ loading = None /\ todo = None /\ direct = {}
           /\ \A n \in Names : m_registry[n] = None

AtScan == /\ life = "alive" /\ direct = {}
          /\ todo # None => /\ Visited \in 1 .. Len(Path) /\ Path[Visited] \in Dirs
                            /\ todo \subseteq Entries[Path[Visited]]
          /\ loading # None => /\ todo # None
                               /\ \E p \in Entries[Path[Visited]] : LibOf[p] = loading

AtChoice == Ready /\ todo = None /\ direct = {}

AtLoad == /\ life = "alive" /\ todo = None /\ Unknown
          /\ direct = {}
          /\ loading # None => args[2] \in Paths /\ loading = LibOf[args[2]]

AtAnalysis == /\ Ready /\ todo = None
              /\ plugin \in Live
              /\ IF plugin \in direct THEN args[2] \in Paths /\ LibOf[args[2]] = made_by[plugin]
                                     ELSE Normal[NameOf[made_by[plugin]]] = Normal[args[2]]
              /\ plugin \in direct => \A i \in Live \ {plugin} :
                                        Normal[NameOf[made_by[i]]] # Normal[args[2]]

SearchInv ==
  Searching =>
    /\ Len(search) <= Len(Path) /\ search \in Seq(Range(Path))
    /\ \A j \in 1 .. Len(search) : search[j] = Path[Visited + j]
    /\ mpc # "scan" => search = <<>>
    /\ ~refused => \A n \in Names : Winner(n)

StartupInv ==
  /\ RegistryInv
  /\ mpc # "api" => ~unloaded
  /\ mpc = "start" => AtStart
  /\ mpc = "scan" => AtScan
  /\ mpc \in {"scanned", "models", "fallback", "choose"} => AtChoice
  /\ mpc = "load" => AtLoad
  /\ mpc = "analysis" => AtAnalysis
  /\ refused \in BOOLEAN
  /\ SearchInv

\* The lines of the environment file that were read.
Given == IF mpc = "start" THEN turn ELSE Len(Lines)

\* The variables that the first n lines set.
Keys(n) == {Key(Lines[j]) : j \in {j \in 1 .. n : Assigns(Lines[j])}}

\* A variable has the value of the last of the first n lines that sets it, else
\* the inherited one.
Written(n, key) ==
  /\ Setting(n, key) = {} => env[key] = inherited[key]
  /\ Setting(n, key) # {} => \E j \in Setting(n, key) :
                               /\ env[key] = Val(Lines[j])
                               /\ \A k \in Setting(n, key) : k <= j

EnvInv ==
  /\ inherited \in Inherited
  /\ turn \in Nat /\ Given <= Len(Lines)
  /\ env = [k \in DOMAIN env |-> env[k]] /\ Range(env) \subseteq Seq(STRING)
  /\ DOMAIN env = DOMAIN inherited \cup Keys(Given)
  /\ \A key \in DOMAIN env : Written(Given, key)

\* The models of the first n numbers, in their order.
Asked(n) ==
  /\ Len(client.models) = Cardinality(Numbered(n))
  /\ \A i \in Numbered(n) :
       client.models[Cardinality(Numbered(i))] = Effective(<<ModelKeys[i]>>, <<>>)

ClientInv ==
  /\ mpc \in {"models", "fallback"} => client # None /\ turn <= LastModel
  /\ client # None =>
       /\ mpc # "start" /\ client \in Clients
       /\ client.key = Effective(<<"OPENROUTER_API_KEY">>, <<>>)
       /\ client.endpoint = Effective(<<"LLM_ENDPOINT">>, Endpoint)
       /\ Asked(IF mpc = "models" THEN turn ELSE 10)
       /\ mpc = "fallback" => client.models = <<>>

ConfigInv == EnvInv /\ ClientInv

-----------------------------------------------------------------------------

\* The search path is a sequence, whatever the environment is.
LEMMA PathIsSequence ==
  /\ Path \in Seq(Range(Path)) /\ Len(Path) \in Nat
  /\ DOMAIN Path = 1 .. Len(Path)
<1> DEFINE dir == get(env, <<"PLUGINS_DIR">>, <<>>)
           first == IF dir # <<>> THEN <<dir>> ELSE <<>>
           S == {dir} \cup Seq(STRING)
<1>1. Path = first \o DefaultDirs
  BY DEF Path, SearchPath
<1>2. first \in Seq(S)
  <2>1. dir \in S
    OBVIOUS
  <2> HIDE DEF dir, S
  <2>2. <<dir>> \in Seq(S) /\ <<>> \in Seq(S)
    BY <2>1
  <2> QED  BY <2>2
<1>3. DefaultDirs \in Seq(S)
  BY SeqMonotonic, StartupAssumption
<1> HIDE DEF first, S
<1>4. Path \in Seq(S)
  BY <1>1, <1>2, <1>3, ConcatProperties
<1> QED
  BY <1>4, SeqOfRange, LenProperties

\* Where main is done with the registry, or was never concerned with it, only the
\* registry's own invariant is left.
LEMMA Elsewhere ==
  ASSUME RegistryInv', mpc' \in {"api", "end", "over"},
         mpc' # "api" => ~unloaded', refused' \in BOOLEAN
  PROVE  StartupInv'
BY DEF StartupInv, SearchInv, Searching

\* A statement of main that touches neither registry nor search keeps the invariant.
LEMMA NothingChanged ==
  ASSUME StartupInv, UNCHANGED <<rvars, mpc, smain, refused>>
  PROVE  StartupInv'
<1>1. RegistryInv'
  BY RegistryStutters DEF StartupInv
<1>2. /\ UNCHANGED <<m_handles, refcount, made_by, loading, closing, life>>
      /\ UNCHANGED <<m_registry, todo, direct, unloaded>>
      /\ UNCHANGED <<mpc, args, env, search, plugin, refused>>
  BY DEF rvars, mvars, smain
<1>3. /\ Path' = Path /\ Visited' = Visited /\ Searching' = Searching
      /\ AtStart' = AtStart /\ AtScan' = AtScan /\ AtChoice' = AtChoice
      /\ AtLoad' = AtLoad /\ AtAnalysis' = AtAnalysis
  BY <1>2 DEF Path, Visited, Searching, AtStart, AtScan, AtChoice, AtLoad, AtAnalysis,
              Ready, Live, Unknown
<1>4. \A n : Winner(n)' = Winner(n)
  BY <1>2 DEF Winner, Contributed, Opened, Visited, Path, Live
<1> QED
  BY <1>1, <1>2, <1>3, <1>4 DEF StartupInv, SearchInv

\* A winner stays one in a step by which no directory contributes, and no instance
\* that is live is lost.
LEMMA WinnerKept ==
  ASSUME NEW n, Winner(n), UNCHANGED <<env, search, m_registry>>,
         \A k : Contributed(k, n)' => Contributed(k, n),
         \A i \in Live : i \in Live' /\ made_by'[i] = made_by[i]
  PROVE  Winner(n)'
<1>1. Path' = Path /\ Visited' = Visited
  BY DEF Path, Visited
<1>2. CASE m_registry[n] = None
  BY <1>1, <1>2 DEF Winner
<1>3. CASE m_registry[n] # None
  <2>1. PICK j \in 1 .. Visited : /\ made_by[m_registry[n]] \in Offers(Path[j], n)
                                  /\ \A k \in 1 .. Visited : k > j => ~Contributed(k, n)
    BY <1>3 DEF Winner
  <2>2. m_registry[n] \in Live
    BY <1>3 DEF Winner
  <2>3. /\ j \in 1 .. Visited' /\ made_by'[m_registry'[n]] \in Offers(Path'[j], n)
        /\ \A k \in 1 .. Visited' : k > j => ~Contributed(k, n)'
    BY <1>1, <2>1, <2>2
  <2> QED  BY <1>3, <2>2, <2>3 DEF Winner
<1> QED
  BY <1>2, <1>3

\* The statements of main between the scans and the call of analyze leave the
\* search path, and what was found in it, alone.
LEMMA SearchKept ==
  ASSUME StartupInv, UNCHANGED <<env, search, m_registry, todo, refused>>,
         mpc \in {"scanned", "choose", "load"},
         mpc' \in {"choose", "load", "analysis"},
         \A i \in Live : i \in Live' /\ made_by'[i] = made_by[i]
  PROVE  SearchInv'
<1>1. Searching /\ Searching' /\ SearchInv /\ todo = None /\ mpc # "scan" /\ mpc' # "scan"
  BY DEF Searching, StartupInv, AtChoice, AtLoad
<1>2. Path' = Path /\ Visited' = Visited
  BY DEF Path, Visited
<1>3. \A k, n : Contributed(k, n)' = Contributed(k, n)
  BY <1>1, <1>2 DEF Contributed, Opened
<1>4. \A n \in Names : Winner(n) => Winner(n)'
  BY <1>3, WinnerKept
<1> QED
  BY <1>1, <1>2, <1>4 DEF SearchInv

\* main starts with an empty registry and nothing searched.
LEMMA StartupStarts == StartupInit => StartupInv
<1> SUFFICES ASSUME StartupInit PROVE StartupInv
  OBVIOUS
<1>1. RegistryInv
  BY RegistryStarts DEF StartupInit
<1>2. AtStart /\ ~unloaded
  BY DEF StartupInit, Init, ManagerInit, AtStart
<1> QED
  BY <1>1, <1>2 DEF StartupInit, StartupInv, SearchInv, Searching

\* Nothing is searched while the environment is loaded.
LEMMA LoadLinePreserves ==
  ASSUME StartupInv, LoadLine
  PROVE  StartupInv'
<1>1. mpc = "start" /\ mpc' = "start" /\ UNCHANGED rvars /\ refused' = refused
  BY DEF LoadLine, Fine
<1>2. RegistryInv' /\ AtStart /\ ~unloaded
  BY <1>1, RegistryStutters DEF StartupInv
<1>3. AtStart' /\ ~unloaded'
  BY <1>1, <1>2 DEF AtStart, rvars, mvars
<1> QED
  BY <1>1, <1>2, <1>3 DEF StartupInv, SearchInv, Searching

\* The search path is ready; no directory was visited yet.
LEMMA LoadEndPreserves ==
  ASSUME StartupInv, LoadEnd
  PROVE  StartupInv'
<1>1. /\ mpc = "start" /\ mpc' = "scan" /\ search' = Path'
      /\ UNCHANGED rvars /\ refused' = refused
      /\ UNCHANGED <<m_handles, loading, closing, life, m_registry, todo, direct, unloaded>>
  BY DEF LoadEnd, Goto, Fine, Path, rvars, mvars
<1>2. RegistryInv' /\ AtStart /\ ~unloaded
  BY <1>1, RegistryStutters DEF StartupInv
<1>3. AtScan'
  BY <1>1, <1>2 DEF AtStart, AtScan
<1>4. (Path \in Seq(Range(Path)) /\ Len(Path) \in Nat)'
  BY PathIsSequence, PTL
<1>5. Visited' = 0
  BY <1>1, <1>4 DEF Visited
<1>6. \A n \in Names : Winner(n)'
  BY <1>1, <1>2, <1>5 DEF Winner, AtStart
<1>7. SearchInv'
  BY <1>1, <1>4, <1>5, <1>6 DEF SearchInv
<1> QED
  BY <1>1, <1>2, <1>3, <1>7 DEF StartupInv

\* The next directory is visited: none of its entries is opened yet, and what was
\* opened of the one before is all of it.
LEMMA ScanDirPreserves ==
  ASSUME StartupInv, ScanDir
  PROVE  StartupInv'
<1>1. /\ mpc = "scan" /\ mpc' = "scan" /\ todo = None /\ search # <<>>
      /\ search' = Tail(search) /\ env' = env /\ refused' = refused
      /\ RegistryInv /\ AtScan /\ ~unloaded
  BY DEF ScanDir, Fine, StartupInv
<1>2. loading = None
  BY <1>1 DEF RegistryInv, AtScan
<1>3. /\ UNCHANGED mvars /\ UNCHANGED <<m_registry, direct, unloaded>>
      /\ UNCHANGED <<m_handles, made_by, loading, closing, life>>
      /\ IF Head(search) \in Dirs THEN Scan(Head(search)) /\ todo' = Entries[Head(search)]
                                  ELSE todo' = None
      /\ RegistryInv'
  <2>1. CASE Head(search) \in Dirs
    <3>1. Scan(Head(search))
      BY <2>1 DEF ScanDir
    <3> QED  BY <2>1, <3>1, <1>1, ScanPreserves DEF Scan, mvars
  <2>2. CASE Head(search) \notin Dirs
    <3>1. UNCHANGED rvars
      BY <2>2 DEF ScanDir
    <3> QED  BY <2>2, <3>1, <1>1, RegistryStutters DEF rvars, mvars
  <2> QED  BY <2>1, <2>2
<1>4. /\ Path' = Path /\ Path \in Seq(Range(Path)) /\ Len(Path) \in Nat
      /\ Searching /\ Searching' /\ SearchInv
  BY <1>1, PathIsSequence DEF Path, Searching, StartupInv
<1>5. /\ search \in Seq(Range(Path)) /\ Len(search) \in Nat /\ Len(search) # 0
      /\ Len(search) <= Len(Path)
      /\ \A j \in 1 .. Len(search) : search[j] = Path[Visited + j]
      /\ Head(search) = search[1]
      /\ search' \in Seq(Range(Path)) /\ Len(search') = Len(search) - 1
      /\ \A j \in 1 .. Len(search) - 1 : search'[j] = search[j + 1]
  <2>1. search \in Seq(Range(Path)) /\ search # <<>>
    BY <1>1, <1>4 DEF SearchInv
  <2>2. /\ Tail(search) \in Seq(Range(Path)) /\ Len(Tail(search)) = Len(search) - 1
        /\ \A j \in 1 .. Len(Tail(search)) : Tail(search)[j] = search[j + 1]
    BY <2>1, HeadTailProperties
  <2>3. Len(search) \in Nat /\ Len(search) # 0
    BY <2>1, EmptySeq, LenProperties
  <2>4. Head(search) = search[1]
    BY <2>1
  <2> QED  BY <2>1, <2>2, <2>3, <2>4, <1>1, <1>4 DEF SearchInv
<1>6. /\ Visited' = Visited + 1 /\ Visited \in Nat /\ Visited' \in 1 .. Len(Path)
      /\ Path[Visited'] = Head(search)
  BY <1>4, <1>5 DEF Visited
<1>7. AtScan'
  <2>1. todo' # None => /\ Path[Visited'] \in Dirs
                        /\ todo' = Entries[Path[Visited']]
    BY <1>3, <1>6
  <2> QED  BY <2>1, <1>1, <1>2, <1>3, <1>4, <1>6 DEF AtScan
<1>8. ASSUME NEW n \in Names, NEW k \in 1 .. Visited, Contributed(k, n)'
      PROVE  Contributed(k, n)
  <2>1. k # Visited'
    BY <1>6
  <2>2. Opened(k)' = Opened(k)
    BY <2>1, <1>1, <1>4 DEF Opened
  <2> QED  BY <1>8, <2>2, <1>1 , <1>2, <1>3, PluginAssumption DEF Contributed
<1>9. ASSUME NEW n \in Names, NEW k, k = Visited' PROVE ~Contributed(k, n)'
  <2>1. Opened(k)' = {}
    <3>1. CASE Head(search) \in Dirs
      <4>1. todo' # None /\ todo' = Entries[Head(search)]
        BY <3>1, <1>3, RegistryAssumption
      <4> QED  BY <4>1, <1>4, <1>6, <1>9 DEF Opened
    <3>2. CASE Head(search) \notin Dirs
      BY <3>2, <1>4, <1>6, <1>9 DEF Opened
    <3> QED  BY <3>1, <3>2
  <2> QED  BY <2>1 DEF Contributed
<1>10. \A k \in 1 .. Visited' : k \in 1 .. Visited \/ k = Visited'
  BY <1>6
<1>11. ASSUME NEW n \in Names, Winner(n) PROVE Winner(n)'
  <2>1. CASE m_registry[n] = None
    BY <1>3, <1>8, <1>9, <1>10, <1>11, <2>1 DEF Winner
  <2>2. CASE m_registry[n] # None
    <3>1. PICK j \in 1 .. Visited : /\ made_by[m_registry[n]] \in Offers(Path[j], n)
                                    /\ \A k \in 1 .. Visited : k > j => ~Contributed(k, n)
      BY <1>11, <2>2 DEF Winner
    <3>2. j \in 1 .. Visited'
      BY <1>6
    <3>3. \A k \in 1 .. Visited' : k > j => ~Contributed(k, n)'
      BY <3>1, <1>8, <1>9, <1>10
    <3>4. m_registry'[n] \in Live' /\ made_by'[m_registry'[n]] \in Offers(Path'[j], n)
      BY <1>3, <1>4, <1>11, <2>2, <3>1 DEF Winner, Live
    <3> QED  BY <1>3, <2>2, <3>2, <3>3, <3>4 DEF Winner
  <2> QED  BY <2>1, <2>2
<1>12. SearchInv'
  <2>1. \A j \in 1 .. Len(search') : search'[j] = Path'[Visited' + j]
    <3> SUFFICES ASSUME NEW j \in 1 .. Len(search) - 1
                 PROVE  search'[j] = Path[Visited' + j]
      BY <1>4, <1>5
    <3>1. search'[j] = search[j + 1] /\ search[j + 1] = Path[Visited + (j + 1)]
      BY <1>5
    <3>2. Visited + (j + 1) = Visited' + j
      BY <1>6
    <3> QED  BY <3>1, <3>2
  <2>2. Len(search') <= Len(Path')
    BY <1>4, <1>5
  <2> QED  BY <2>1, <2>2, <1>1, <1>4, <1>5, <1>11 DEF SearchInv
<1> QED
  BY <1>1, <1>3, <1>7, <1>12 DEF StartupInv

\* An entry is opened; if it holds a library, that is being loaded and does not
\* count yet.
LEMMA ScanNextKeepsSearch ==
  ASSUME StartupInv, mpc = "scan", ScanNext, UNCHANGED <<mpc, smain, refused>>
  PROVE  StartupInv'
<1>1. PICK p \in todo : /\ todo' = todo \ {p}
                        /\ Open(p) \/ (LibOf[p] = None /\ UNCHANGED mvars)
  BY DEF ScanNext
<1>2. /\ Ready /\ todo # None /\ UNCHANGED <<m_registry, direct, unloaded>>
      /\ RegistryInv /\ AtScan /\ ~unloaded /\ SearchInv /\ Searching /\ Searching'
      /\ UNCHANGED <<env, search>>
  BY DEF ScanNext, StartupInv, Searching, smain
<1>3. /\ RegistryInv' /\ todo \in SUBSET Paths /\ todo' \in SUBSET Paths /\ todo' # None
      /\ Path' = Path /\ Visited' = Visited
  BY <1>1, <1>2, ScanNextPreserves, RegistryAssumption DEF RegistryInv, TypeOK, Path, Visited
<1>4. /\ UNCHANGED <<m_handles, made_by, closing, life>> /\ loading = None
      /\ \/ LibOf[p] \in Libs /\ loading' = LibOf[p]
         \/ LibOf[p] = None /\ loading' = None
  BY <1>1, <1>2, <1>3, PluginAssumption DEF Open, Ready, mvars
<1>5. p \in Entries[Path[Visited]] /\ Path[Visited] \in Dirs
  BY <1>1, <1>2 DEF AtScan
<1>6. AtScan'
  BY <1>1, <1>2, <1>3, <1>4, <1>5 DEF AtScan
<1>7. ASSUME NEW k, NEW n, Contributed(k, n)' PROVE Contributed(k, n)
  <2>1. PICK q \in Opened(k)' : /\ LibOf[q] \in Complete /\ NameOf[LibOf[q]] = n
                                /\ LibOf[q] # loading'
    BY <1>3, <1>7 DEF Contributed
  <2>2. LibOf[q] # None
    BY <2>1, PluginAssumption
  <2>3. q # p
    BY <2>1, <2>2, <1>4
  <2>4. q \in Opened(k)
    BY <2>1, <2>3, <1>1, <1>2, <1>3 DEF Opened
  <2> QED  BY <2>1, <2>2, <2>4, <1>4 DEF Contributed
<1>8. \A n \in Names : Winner(n) => Winner(n)'
  BY <1>2, <1>4, <1>7, WinnerKept DEF Live
<1>9. SearchInv'
  BY <1>2, <1>3, <1>8 DEF SearchInv
<1> QED
  BY <1>2, <1>3, <1>6, <1>9 DEF StartupInv

\* The scan of a directory ends when all of its entries are opened.
LEMMA ScanEndKeepsSearch ==
  ASSUME StartupInv, mpc = "scan", ScanEnd, UNCHANGED <<mpc, smain, refused>>
  PROVE  StartupInv'
<1>1. /\ Ready /\ todo = {} /\ todo' = None
      /\ UNCHANGED mvars /\ UNCHANGED <<m_registry, direct, unloaded>>
      /\ UNCHANGED <<m_handles, made_by, loading, closing, life>>
      /\ RegistryInv /\ AtScan /\ ~unloaded /\ SearchInv /\ Searching /\ Searching'
      /\ UNCHANGED <<env, search>> /\ loading = None
  BY DEF ScanEnd, Ready, StartupInv, Searching, smain, mvars
<1>2. RegistryInv' /\ Path' = Path /\ Visited' = Visited
  BY <1>1, ScanEndPreserves DEF Path, Visited
<1>3. AtScan'
  BY <1>1 DEF AtScan
<1>4. ASSUME NEW k, NEW n, Contributed(k, n)' PROVE Contributed(k, n)
  <2>1. PICK q \in Opened(k)' : LibOf[q] \in Complete /\ NameOf[LibOf[q]] = n
    BY <1>4 DEF Contributed
  <2>2. q \in Opened(k)
    BY <2>1, <1>1, <1>2 DEF Opened
  <2>3. LibOf[q] # loading
    BY <2>1, <1>1, PluginAssumption
  <2> QED  BY <2>1, <2>2, <2>3 DEF Contributed
<1>5. \A n \in Names : Winner(n) => Winner(n)'
  BY <1>1, <1>4, WinnerKept DEF Live
<1>6. SearchInv'
  BY <1>1, <1>2, <1>5 DEF SearchInv
<1> QED
  BY <1>1, <1>2, <1>3, <1>6 DEF StartupInv

\* The plugin of the entry is registered: its name is won by this directory, and no
\* other name is contributed to.
LEMMA LoadedKeepsSearch ==
  ASSUME StartupInv, mpc = "scan", NEW i \in Instances, Loaded(i),
         UNCHANGED <<mpc, smain, refused>>
  PROVE  StartupInv'
<1>1. /\ RegistryInv /\ AtScan /\ ~unloaded /\ SearchInv /\ Searching /\ Searching'
      /\ UNCHANGED <<env, search>>
      /\ Create(i) /\ UNCHANGED <<todo, unloaded>>
      /\ direct' = IF todo = None THEN direct \cup {i} ELSE direct \ {i}
      /\ loading \in Complete /\ loading' = None /\ i \notin Live
      /\ made_by' = [made_by EXCEPT ![i] = loading]
      /\ UNCHANGED <<closing, life>>
      /\ m_registry' = IF todo = None THEN m_registry
                       ELSE [m_registry EXCEPT ![NameOf[loading]] = i]
  BY DEF Loaded, Create, StartupInv, Searching, smain
<1>2. loading \in Libs /\ loading # None /\ NameOf[loading] \in Names
  BY <1>1, PluginAssumption, RegistryAssumption
<1>3. todo # None
  BY <1>1, <1>2 DEF RegistryInv, AtScan
<1>4. RegistryInv' /\ Path' = Path /\ Visited' = Visited
  BY <1>1, LoadedPreserves DEF Path, Visited
<1>5. AtScan'
  BY <1>1, <1>3, <1>4 DEF AtScan
<1>6. /\ i \in Live' /\ made_by'[i] = loading
      /\ \A j \in Live : j \in Live' /\ made_by'[j] = made_by[j] /\ j # i
  BY <1>1, <1>2 DEF RegistryInv, TypeOK, ManagerTypeOK, Live
<1>7. /\ m_registry'[NameOf[loading]] = i
      /\ \A n \in Names : n # NameOf[loading] => m_registry'[n] = m_registry[n]
  BY <1>1, <1>2, <1>3 DEF RegistryInv, TypeOK
<1>8. i # None
  BY PluginAssumption
<1>9. ASSUME NEW k, NEW n, n # NameOf[loading], Contributed(k, n)' PROVE Contributed(k, n)
  <2>1. PICK q \in Opened(k)' : LibOf[q] \in Complete /\ NameOf[LibOf[q]] = n
    BY <1>9 DEF Contributed
  <2>2. q \in Opened(k)
    BY <2>1, <1>1, <1>4 DEF Opened
  <2>3. LibOf[q] # loading
    BY <2>1, <1>9
  <2> QED  BY <2>1, <2>2, <2>3 DEF Contributed
<1>10. ASSUME NEW n \in Names, n # NameOf[loading], Winner(n) PROVE Winner(n)'
  <2>1. CASE m_registry[n] = None
    BY <1>4, <1>7, <1>9, <1>10, <2>1 DEF Winner
  <2>2. CASE m_registry[n] # None
    <3>1. PICK j \in 1 .. Visited : /\ made_by[m_registry[n]] \in Offers(Path[j], n)
                                    /\ \A k \in 1 .. Visited : k > j => ~Contributed(k, n)
      BY <1>10, <2>2 DEF Winner
    <3>2. m_registry'[n] = m_registry[n] /\ m_registry[n] \in Live
      BY <1>7, <1>10, <2>2 DEF Winner
    <3>3. /\ m_registry'[n] \in Live' /\ made_by'[m_registry'[n]] \in Offers(Path'[j], n)
          /\ \A k \in 1 .. Visited' : k > j => ~Contributed(k, n)'
      BY <1>4, <1>6, <1>9, <1>10, <3>1, <3>2
    <3> QED  BY <1>4, <3>2, <3>3, <2>2 DEF Winner
  <2> QED  BY <2>1, <2>2
<1>11. ASSUME NEW n, n = NameOf[loading] PROVE Winner(n)'
  <2>1. loading \in Offers(Path[Visited], NameOf[loading])
    BY <1>1, <1>2, <1>3 DEF AtScan, Offers
  <2>2. Visited \in 1 .. Len(Path) /\ Len(Path) \in Nat
    BY <1>1, <1>3, PathIsSequence DEF AtScan
  <2>3. Visited \in 1 .. Visited /\ \A k \in 1 .. Visited : ~(k > Visited)
    BY <2>2
  <2>4. /\ m_registry'[n] \in Live' /\ m_registry'[n] # None
        /\ made_by'[m_registry'[n]] \in Offers(Path'[Visited], n)
    BY <2>1, <1>4, <1>6, <1>7, <1>8, <1>11
  <2> QED  BY <2>3, <2>4, <1>4 DEF Winner
<1>12. ~refused' => \A n \in Names : Winner(n)'
  BY <1>1, <1>10, <1>11 DEF SearchInv
<1>13. SearchInv'
  BY <1>1, <1>4, <1>12 DEF SearchInv
<1> QED
  BY <1>1, <1>4, <1>5, <1>13 DEF StartupInv

\* A library that is no plugin contributes nothing; one that is, and is refused,
\* ends what LastDirectoryWins says.
LEMMA LoadFailsPreserves ==
  ASSUME StartupInv, LoadFails
  PROVE  StartupInv'
<1>1. /\ mpc # "api" /\ LoadError /\ Reject
      /\ refused' = (refused \/ loading \in Complete)
      /\ mpc' = IF mpc = "load" THEN "end" ELSE mpc
      /\ loading \in Libs /\ loading # None /\ loading' = None
      /\ UNCHANGED <<m_handles, made_by, closing, life>>
      /\ UNCHANGED <<m_registry, todo, direct, unloaded>>
      /\ UNCHANGED <<args, env, search, plugin>>
      /\ RegistryInv /\ ~unloaded
  BY DEF LoadFails, LoadError, Reject, smain, StartupInv, RegistryInv, TypeOK, ManagerTypeOK
<1>2. RegistryInv' /\ refused' \in BOOLEAN
  BY <1>1, LoadErrorPreserves DEF StartupInv
<1>3. CASE mpc' \in {"end", "over"}
  BY <1>1, <1>2, <1>3, Elsewhere
<1>4. CASE mpc = "scan"
  <2>1. /\ mpc' = "scan" /\ AtScan /\ SearchInv /\ Searching /\ Searching'
        /\ Path' = Path /\ Visited' = Visited
    BY <1>1, <1>4 DEF StartupInv, Searching, Path, Visited
  <2>2. AtScan' /\ todo # None
    BY <1>1, <2>1 DEF AtScan, RegistryInv
  <2>3. ASSUME ~refused', NEW k, NEW n, Contributed(k, n)' PROVE Contributed(k, n)
    <3>1. PICK q \in Opened(k)' : LibOf[q] \in Complete /\ NameOf[LibOf[q]] = n
      BY <2>3 DEF Contributed
    <3>2. q \in Opened(k)
      BY <3>1, <1>1, <2>1 DEF Opened
    <3>3. LibOf[q] # loading
      BY <3>1, <2>3, <1>1
    <3> QED  BY <3>1, <3>2, <3>3 DEF Contributed
  <2>4. ~refused' => \A n \in Names : Winner(n) => Winner(n)'
    BY <2>3, <1>1, WinnerKept DEF Live
  <2>5. SearchInv'
    BY <1>1, <2>1, <2>4 DEF SearchInv
  <2> QED  BY <1>1, <1>2, <1>4, <2>1, <2>2, <2>5 DEF StartupInv
<1>5. mpc \in {"start", "scanned", "models", "fallback", "choose", "analysis"} => FALSE
  BY <1>1 DEF StartupInv, AtStart, AtChoice, AtAnalysis, Ready
<1>6. CASE mpc \notin {"api", "start", "scan", "scanned", "models", "fallback", "choose", "load",
                        "analysis"}
  BY <1>1, <1>2, <1>6 DEF StartupInv, SearchInv, Searching
<1> QED
  BY <1>1, <1>3, <1>4, <1>5, <1>6

\* A statement that touches neither manager nor registry nor the search path.
LEMMA Onward ==
  ASSUME StartupInv, UNCHANGED rvars, UNCHANGED <<env, search, refused>>,
         \/ mpc = "scan" /\ mpc' = "scanned" /\ search = <<>> /\ todo = None
         \/ /\ mpc \in {"scanned", "models", "fallback"}
            /\ mpc' \in {"models", "fallback", "choose"}
  PROVE  StartupInv'
<1>1. /\ RegistryInv' /\ RegistryInv /\ ~unloaded
      /\ UNCHANGED <<m_handles, made_by, loading, closing, life>>
      /\ UNCHANGED <<m_registry, todo, direct, unloaded>>
  BY RegistryStutters DEF StartupInv, rvars, mvars
<1>2. AtChoice
  BY <1>1 DEF StartupInv, AtScan, AtChoice, RegistryInv, Ready
<1>3. AtChoice'
  BY <1>1, <1>2 DEF AtChoice, Ready
<1>4. /\ Searching /\ Searching' /\ SearchInv /\ search = <<>>
      /\ Path' = Path /\ Visited' = Visited
  BY DEF Searching, StartupInv, SearchInv, Path, Visited
<1>5. \A n \in Names : Winner(n) => Winner(n)'
  BY <1>1, WinnerKept DEF Contributed, Opened, Path, Visited, Live
<1>6. SearchInv'
  BY <1>4, <1>5 DEF SearchInv
<1> QED
  BY <1>1, <1>3, <1>6 DEF StartupInv

\* get_plugin answers main: with a live instance of the name, or with nothing, and
\* then no live instance has the name.
LEMMA ChoosePreserves ==
  ASSUME StartupInv, Choose
  PROVE  StartupInv'
<1>1. /\ mpc = "choose" /\ plugin' = get_plugin(args[2]) /\ UNCHANGED rvars
      /\ mpc' = IF plugin' = None THEN "load" ELSE "analysis"
      /\ UNCHANGED <<args, env, search, refused>>
      /\ RegistryInv /\ ~unloaded /\ AtChoice
  BY DEF Choose, Fine, StartupInv
<1>2. /\ UNCHANGED <<m_handles, made_by, loading, closing, life>>
      /\ UNCHANGED <<m_registry, todo, direct, unloaded>>
  BY <1>1 DEF rvars, mvars
<1>3. RegistryInv' /\ Live' = Live
  BY <1>1, <1>2, RegistryStutters DEF Live
<1>4. \/ plugin' \in Live /\ Normal[NameOf[made_by[plugin']]] = Normal[args[2]]
      \/ plugin' = None /\ Unknown
  BY <1>1, Answer DEF Unknown, AtChoice, Ready
<1>5. SearchInv'
  BY <1>1, <1>2, <1>3, SearchKept
<1>6. CASE plugin' = None
  <2>1. \A i \in Live : i # None
    BY PluginAssumption DEF Live
  <2>2. Unknown
    BY <1>4, <1>6, <2>1
  <2>3. AtLoad'
    BY <1>1, <1>2, <1>3, <2>2 DEF AtLoad, AtChoice, Ready, Unknown
  <2> QED  BY <1>1, <1>2, <1>3, <1>5, <1>6, <2>3 DEF StartupInv
<1>7. CASE plugin' # None
  <2>1. AtAnalysis'
    BY <1>1, <1>2, <1>3, <1>4, <1>7 DEF AtAnalysis, AtChoice, Ready
  <2> QED  BY <1>1, <1>2, <1>3, <1>5, <1>7, <2>1 DEF StartupInv
<1> QED
  BY <1>6, <1>7

\* The argument is loaded as a path, and the instance that is made is the one that
\* is analyzed with.
LEMMA LoadChosenPreserves ==
  ASSUME StartupInv, LoadChosen
  PROVE  StartupInv'
<1>1. /\ mpc = "load" /\ RegistryInv /\ ~unloaded /\ AtLoad
      /\ refused' = refused
  BY DEF LoadChosen, Fine, StartupInv
<1>2. ASSUME args[2] \in Paths, LoadPath(args[2]), UNCHANGED <<mpc, smain>>
      PROVE  StartupInv'
  <2>1. /\ RegistryInv' /\ LibOf[args[2]] \in Libs /\ loading' = LibOf[args[2]]
        /\ UNCHANGED <<m_handles, made_by, closing, life>>
        /\ UNCHANGED <<m_registry, todo, direct, unloaded>>
        /\ UNCHANGED <<args, env, search, plugin>>
    BY <1>1, <1>2, LoadPathPreserves, PluginAssumption DEF LoadPath, Open, smain
  <2>2. loading' # None /\ Live' = Live
    BY <2>1, PluginAssumption DEF Live
  <2>3. AtLoad'
    BY <1>1, <1>2, <2>1, <2>2 DEF AtLoad, Unknown
  <2>4. SearchInv'
    BY <1>1, <1>2, <2>1, <2>2, SearchKept
  <2> QED  BY <1>1, <1>2, <2>1, <2>3, <2>4 DEF StartupInv
<1>3. ASSUME NEW i \in Instances, Loaded(i), plugin' = i, mpc' = "analysis",
             UNCHANGED <<args, env, search>>
      PROVE  StartupInv'
  <2>1. /\ RegistryInv' /\ loading \in Complete /\ loading' = None /\ i \notin Live
        /\ made_by' = [made_by EXCEPT ![i] = loading]
        /\ UNCHANGED <<todo, unloaded, closing, life>> /\ direct' = direct \cup {i}
        /\ todo = None /\ life = "alive"
        /\ m_registry' = m_registry
    BY <1>1, <1>3, LoadedPreserves DEF Loaded, Create, AtLoad
  <2>2. /\ loading # None /\ args[2] \in Paths /\ loading = LibOf[args[2]]
        /\ Unknown /\ closing = None
    BY <1>1, <2>1, PluginAssumption DEF AtLoad, RegistryInv
  <2>3. /\ i \in Live' /\ made_by'[i] = loading /\ Live' \ {i} = Live
        /\ \A j \in Live : j \in Live' /\ made_by'[j] = made_by[j]
    BY <1>1, <2>1, <2>2 DEF Live, RegistryInv, TypeOK, ManagerTypeOK
  <2>4. AtAnalysis'
    BY <1>3, <2>1, <2>2, <2>3 DEF AtAnalysis, Ready, Unknown
  <2>5. SearchInv'
    BY <1>1, <1>3, <2>1, <2>3, SearchKept
  <2> QED  BY <1>1, <1>3, <2>1, <2>4, <2>5 DEF StartupInv
<1> QED
  BY <1>2, <1>3 DEF LoadChosen

\* Another program calls what it likes.
LEMMA ApiPreserves ==
  ASSUME StartupInv, Api
  PROVE  StartupInv'
<1>1. mpc' = "api" /\ refused' = refused /\ Next
  BY DEF Api, Fine
<1>2. RegistryInv'
  BY <1>1, RegistryPreserves DEF StartupInv
<1> QED
  BY <1>1, <1>2, Elsewhere DEF StartupInv

\* main returns: the registry and the manager are destroyed.
LEMMA ReturnPreserves ==
  ASSUME StartupInv, Return
  PROVE  StartupInv'
<1>1. mpc = "end" /\ mpc' = "end" /\ refused' = refused /\ Finish
  BY DEF Return, Fine
<1>2. RegistryInv' /\ unloaded' = unloaded
  BY <1>1, FinishPreserves DEF StartupInv, Finish
<1> QED
  BY <1>1, <1>2, Elsewhere DEF StartupInv

\* Every step of main keeps the invariant.
LEMMA StartupPreserves == StartupInv /\ [StartupNext]_svars => StartupInv'
<1> SUFFICES ASSUME StartupInv, [StartupNext]_svars PROVE StartupInv'
  OBVIOUS
<1>1. CASE Abort
  BY <1>1, NothingChanged DEF Abort
<1>2. CASE UNCHANGED svars
  BY <1>2, NothingChanged DEF svars
<1>3. CASE Usage \/ List \/ NotFound \/ Analyze
  <2>1. mpc' \in {"end", "over"} /\ UNCHANGED rvars /\ refused' = refused /\ mpc # "api"
    BY <1>3 DEF Usage, List, NotFound, Analyze, Goto, Fine
  <2>2. RegistryInv' /\ unloaded' = unloaded
    BY <2>1, RegistryStutters DEF StartupInv, rvars
  <2> QED  BY <2>1, <2>2, Elsewhere DEF StartupInv
<1>4. CASE LoadLine \/ LoadEnd
  BY <1>4, LoadLinePreserves, LoadEndPreserves
<1>5. CASE ScanDir
  BY <1>5, ScanDirPreserves
<1>6. CASE ScanStep
  <2>1. mpc = "scan" /\ UNCHANGED <<mpc, smain, refused>>
    BY <1>6 DEF ScanStep, Fine
  <2> QED
    BY <1>6, <2>1, ScanNextKeepsSearch, ScanEndKeepsSearch, LoadedKeepsSearch DEF ScanStep
<1>7. CASE LoadFails
  BY <1>7, LoadFailsPreserves
<1>8. CASE ScansDone \/ Configure \/ ReadModel \/ ModelsEnd
  <2>1. /\ UNCHANGED rvars /\ UNCHANGED <<env, search, refused>>
        /\ \/ mpc = "scan" /\ mpc' = "scanned" /\ search = <<>> /\ todo = None
           \/ /\ mpc \in {"scanned", "models", "fallback"}
            /\ mpc' \in {"models", "fallback", "choose"}
    BY <1>8 DEF ScansDone, Configure, ReadModel, ModelsEnd, Goto, Fine, smain
  <2> QED  BY <2>1, Onward
<1>9. CASE Choose
  BY <1>9, ChoosePreserves
<1>10. CASE LoadChosen
  BY <1>10, LoadChosenPreserves
<1>11. CASE Return
  BY <1>11, ReturnPreserves
<1>12. CASE Api
  BY <1>12, ApiPreserves
<1> QED
  BY <1>1, <1>2, <1>3, <1>4, <1>5, <1>6, <1>7, <1>8, <1>9, <1>10, <1>11, <1>12
  DEF StartupNext, Main, Stopped, ScanThrows, NullArgument, NullError, DumpThrows

\* After the scans a directory has contributed what it offers.
LEMMA WinnersAreLast == StartupInv => LastDirectoryWins
<1> SUFFICES ASSUME StartupInv, ~refused,
                    mpc \in {"scanned", "models", "fallback", "choose", "load", "analysis"},
                    NEW n \in Names
             PROVE  LET offering == {j \in DOMAIN Path : Offers(Path[j], n) # {}} IN
                      IF offering = {} THEN m_registry[n] = None
                      ELSE /\ m_registry[n] \in Live
                           /\ made_by[m_registry[n]] \in Offers(Path[Max(offering)], n)
  BY DEF LastDirectoryWins, Path
<1> DEFINE offering == {j \in DOMAIN Path : Offers(Path[j], n) # {}}
<1>1. Winner(n) /\ search = <<>> /\ todo = None
  BY DEF StartupInv, SearchInv, Searching, AtChoice, AtLoad, AtAnalysis
<1>2. Visited = Len(Path) /\ DOMAIN Path = 1 .. Visited /\ Visited \in Nat
  BY <1>1, PathIsSequence DEF Visited
<1>3. \A k \in 1 .. Visited : Contributed(k, n) <=> Offers(Path[k], n) # {}
  BY <1>1 DEF Contributed, Opened, Offers
<1>4. CASE m_registry[n] = None
  <2>1. offering = {}
    BY <1>2, <1>3, <1>1, <1>4 DEF Winner
  <2> QED  BY <1>4, <2>1
<1>5. ASSUME m_registry[n] # None
      PROVE  /\ offering # {} /\ m_registry[n] \in Live
             /\ made_by[m_registry[n]] \in Offers(Path[Max(offering)], n)
  <2>1. /\ m_registry[n] \in Live
        /\ \E j \in 1 .. Visited : /\ made_by[m_registry[n]] \in Offers(Path[j], n)
                                   /\ \A k \in 1 .. Visited : k > j => ~Contributed(k, n)
    BY <1>1, <1>5 DEF Winner
  <2>2. PICK j \in 1 .. Visited : /\ made_by[m_registry[n]] \in Offers(Path[j], n)
                                  /\ \A k \in 1 .. Visited : k > j => ~Contributed(k, n)
    BY <2>1
  <2>3. j \in offering /\ offering \subseteq Nat /\ \A k \in offering : k <= j
    <3>1. j \in DOMAIN Path /\ Offers(Path[j], n) # {}
      BY <1>2, <2>2
    <3>2. \A k \in offering : k \in 1 .. Visited /\ Contributed(k, n)
      BY <1>2, <1>3
    <3>3. j \in offering
      BY <3>1
    <3>4. ASSUME NEW k \in offering PROVE k \in Nat /\ ~(k > j)
      <4>1. k \in 1 .. Visited /\ Contributed(k, n)
        BY <3>2
      <4>2. ~(k > j)
        BY <2>2, <4>1
      <4> QED  BY <4>1, <4>2, <1>2
    <3>5. j \in Nat
      BY <1>2
    <3> HIDE DEF offering
    <3> QED  BY <3>3, <3>4, <3>5
  <2> HIDE DEF offering
  <2>4. \A m \in offering : (\A k \in offering : m >= k) <=> m = j
    BY <2>3
  <2>5. Max(offering) = j
    BY <2>3, <2>4 DEF Max
  <2> QED  BY <2>1, <2>2, <2>3, <2>5
<1> QED
  BY <1>4, <1>5

\* The plugin that is analyzed with is live, so that its code is mapped.
LEMMA AskedForAndMapped == StartupInv => AnalyzesWhatIsAsked
<1> SUFFICES ASSUME StartupInv, mpc = "analysis" PROVE AnalyzesWhatIsAsked
  BY DEF AnalyzesWhatIsAsked
<1>1. AtAnalysis /\ LiveCodeMapped
  BY LiveIsMapped DEF StartupInv, RegistryInv
<1> QED
  BY <1>1 DEF AtAnalysis, LiveCodeMapped, AnalyzesWhatIsAsked

-----------------------------------------------------------------------------
(* The environment, and what the client is given of it                     *)

\* What a line is taken apart into are sequences of tokens.
LEMMA Pieces ==
  ASSUME NEW s \in Seq(STRING), NEW token
  PROVE  /\ Before(s, token) \in Seq(STRING) /\ After(s, token) \in Seq(STRING)
         /\ Trim(s) \in Seq(STRING)
<1>1. Len(s) \in Nat /\ DOMAIN s = 1 .. Len(s) /\ \A i \in 1 .. Len(s) : s[i] \in STRING
  BY LenProperties
<1>2. \A a \in Nat, b \in Int : a >= 1 /\ b <= Len(s) => SubSeq(s, a, b) \in Seq(STRING)
  <2> SUFFICES ASSUME NEW a \in Nat, NEW b \in Int, a >= 1, b <= Len(s)
               PROVE  SubSeq(s, a, b) \in Seq(STRING)
    OBVIOUS
  <2> QED  BY <1>1, SubSeqProperties
<1>3. <<>> \in Seq(STRING)
  OBVIOUS
<1> DEFINE first == SelectInSeq(s, LAMBDA t : t = token)
           places == {i \in 1 .. Len(s) : s[i] = token}
           words == {i \in DOMAIN s : s[i] # " "}
<1>4. first = IF places # {} THEN Min(places) ELSE 0
  BY DEF SelectInSeq
<1>5. first \in 0 .. Len(s)
  <2>1. CASE places = {}
    BY <2>1, <1>4, <1>1
  <2>2. CASE places # {}
    <3>1. Min(places) \in places
      BY <2>2, <1>1, LeastAndGreatest
    <3> QED  BY <3>1, <2>2, <1>4, <1>1
  <2> QED  BY <2>1, <2>2
<1>6. Before(s, token) = IF first = 0 THEN s ELSE SubSeq(s, 1, first - 1)
  BY DEF Before
<1> HIDE DEF first
<1>7. Before(s, token) \in Seq(STRING)
  <2>1. CASE first = 0
    BY <2>1, <1>6
  <2>2. CASE first # 0
    <3>1. 1 \in Nat /\ first - 1 \in Int /\ first - 1 <= Len(s)
      BY <1>1, <1>5
    <3>2. SubSeq(s, 1, first - 1) \in Seq(STRING)
      BY <3>1, <1>2
    <3> QED  BY <3>2, <2>2, <1>6
  <2> QED  BY <2>1, <2>2
<1>8. After(s, token) \in Seq(STRING)
  <2>1. Len(Before(s, token)) + 2 \in Nat /\ Len(Before(s, token)) + 2 >= 1
    BY <1>7, LenProperties
  <2> QED  BY <2>1, <1>1, <1>2 DEF After
<1>9. Trim(s) \in Seq(STRING)
  <2>1. CASE words = {}
    BY <2>1, <1>3 DEF Trim
  <2>2. CASE words # {}
    <3>1. Min(words) \in words /\ Max(words) \in words
      BY <2>2, <1>1, LeastAndGreatest
    <3>2. Min(words) \in 1 .. Len(s) /\ Max(words) \in 1 .. Len(s)
      BY <3>1, <1>1
    <3>3. /\ Min(words) \in Nat /\ Min(words) >= 1
          /\ Max(words) \in Int /\ Max(words) <= Len(s)
      <4> HIDE DEF words
      <4> QED  BY <3>2, <1>1
    <3>4. SubSeq(s, Min(words), Max(words)) \in Seq(STRING)
      <4> HIDE DEF words
      <4> QED  BY <3>3, <1>2
    <3> QED  BY <3>4, <2>2 DEF Trim
  <2> QED  BY <2>1, <2>2
<1> QED
  BY <1>7, <1>8, <1>9

\* So is a value that is assigned.
LEMMA ValueIsText == ASSUME NEW line \in Seq(STRING) PROVE Val(line) \in Seq(STRING)
BY Pieces DEF Val

\* The lines of a file are sequences of tokens.
LEMMA LinesAreText ==
  /\ Lines \in Seq(Seq(STRING)) /\ Len(Lines) \in Nat
  /\ \A j \in 1 .. Len(Lines) : Lines[j] \in Seq(STRING)
<1>1. Lines \in Seq(Seq(STRING))
  <2>1. CASE args # <<>> /\ args[1] \in DOMAIN Files
    BY <2>1, StartupAssumption DEF Lines
  <2>2. CASE ~(args # <<>> /\ args[1] \in DOMAIN Files)
    <3>1. Lines = <<>>
      BY <2>2 DEF Lines
    <3>2. <<>> \in Seq(Seq(STRING))
      OBVIOUS
    <3> QED  BY <3>1, <3>2
  <2> QED  BY <2>1, <2>2
<1> QED
  BY <1>1, LenProperties

\* One more line sets the variable that it assigns, if it assigns one.
LEMMA OneLineMore ==
  ASSUME NEW n \in Nat
  PROVE  /\ ~Assigns(Lines[n + 1]) =>
              Keys(n + 1) = Keys(n) /\ \A key : Setting(n + 1, key) = Setting(n, key)
         /\ Assigns(Lines[n + 1]) =>
              /\ Keys(n + 1) = Keys(n) \cup {Key(Lines[n + 1])}
              /\ Setting(n + 1, Key(Lines[n + 1])) =
                   Setting(n, Key(Lines[n + 1])) \cup {n + 1}
              /\ \A key : key # Key(Lines[n + 1]) => Setting(n + 1, key) = Setting(n, key)
<1>1. 1 .. n + 1 = 1 .. n \cup {n + 1}
  OBVIOUS
<1>2. \A key, j : j \in Setting(n + 1, key) <=>
        \/ j \in Setting(n, key)
        \/ j = n + 1 /\ Assigns(Lines[j]) /\ Key(Lines[j]) = key
  BY <1>1 DEF Setting
<1>3. \A m, key : key \in Keys(m) <=> Setting(m, key) # {}
  BY DEF Keys, Setting
<1>4. ASSUME ~Assigns(Lines[n + 1])
      PROVE  Keys(n + 1) = Keys(n) /\ \A key : Setting(n + 1, key) = Setting(n, key)
  <2>1. \A key : Setting(n + 1, key) = Setting(n, key)
    BY <1>2, <1>4
  <2> QED  BY <2>1, <1>3
<1>5. ASSUME Assigns(Lines[n + 1])
      PROVE  /\ Keys(n + 1) = Keys(n) \cup {Key(Lines[n + 1])}
             /\ Setting(n + 1, Key(Lines[n + 1])) =
                  Setting(n, Key(Lines[n + 1])) \cup {n + 1}
             /\ \A key : key # Key(Lines[n + 1]) => Setting(n + 1, key) = Setting(n, key)
  <2>1. Setting(n + 1, Key(Lines[n + 1])) = Setting(n, Key(Lines[n + 1])) \cup {n + 1}
    BY <1>2, <1>5
  <2>2. ASSUME NEW key, key # Key(Lines[n + 1]) PROVE Setting(n + 1, key) = Setting(n, key)
    BY <1>2, <2>2
  <2>3. \A key : key \in Keys(n + 1) <=> key \in Keys(n) \/ key = Key(Lines[n + 1])
    BY <1>3, <2>1, <2>2
  <2> QED  BY <2>1, <2>2, <2>3
<1> QED
  BY <1>4, <1>5

\* Before the first line every variable is the inherited one.
LEMMA ConfigStarts == StartupInit => ConfigInv
<1> SUFFICES ASSUME StartupInit PROVE ConfigInv
  OBVIOUS
<1>1. /\ mpc \in {"api", "start"} /\ turn = 0 /\ env = inherited /\ client = None
      /\ inherited \in Inherited
      /\ mpc = "api" => args = <<>>
  BY DEF StartupInit
<1>2. Given = 0 /\ Len(Lines) \in Nat
  <2>1. CASE mpc = "start"
    BY <2>1, <1>1, LinesAreText DEF Given
  <2>2. CASE mpc = "api"
    <3>1. Lines = <<>> /\ mpc # "start"
      BY <2>2, <1>1 DEF Lines
    <3>2. Len(Lines) = 0
      BY <3>1
    <3> QED  BY <3>1, <3>2 DEF Given
  <2> QED  BY <2>1, <2>2, <1>1
<1>3. Keys(0) = {} /\ \A key : Setting(0, key) = {}
  BY DEF Keys, Setting
<1>4. EnvInv
  <2>1. /\ inherited = [k \in DOMAIN inherited |-> inherited[k]]
        /\ Range(inherited) \subseteq Seq(STRING)
    BY <1>1, StartupAssumption
  <2>2. \A key : Written(Given, key)
    BY <1>1, <1>2, <1>3 DEF Written
  <2>3. turn \in Nat /\ Given <= Len(Lines)
    BY <1>1, <1>2
  <2>4. env = inherited /\ DOMAIN inherited = DOMAIN inherited \cup Keys(Given)
    BY <1>1, <1>2, <1>3
  <2> QED  BY <1>1, <2>1, <2>2, <2>3, <2>4 DEF EnvInv
<1>5. ClientInv
  BY <1>1 DEF ClientInv
<1> QED
  BY <1>4, <1>5 DEF ConfigInv

\* A line is written over what was there, and leaves the other variables alone.
LEMMA LoadLineConfigures ==
  ASSUME ConfigInv, LoadLine
  PROVE  ConfigInv'
<1> DEFINE line == Lines[turn + 1]
<1>1. /\ mpc = "start" /\ mpc' = "start" /\ turn < Len(Lines) /\ turn' = turn + 1
      /\ env' = Setenv(env, line) /\ UNCHANGED <<args, inherited, client>>
      /\ EnvInv /\ client = None
  BY DEF LoadLine, ConfigInv, ClientInv
<1>2. /\ Lines' = Lines /\ turn \in Nat /\ Len(Lines) \in Nat /\ Given = turn
      /\ Given' = turn + 1 /\ line \in Seq(STRING)
      /\ inherited' \in Inherited
  BY <1>1, LinesAreText DEF Lines, EnvInv, Given
<1>3. /\ \A n, key : Setting(n, key)' = Setting(n, key)
      /\ \A n : Keys(n)' = Keys(n)
  BY <1>2 DEF Setting, Keys
<1>4. /\ env = [k \in DOMAIN env |-> env[k]]
      /\ \A k \in DOMAIN env : env[k] \in Seq(STRING)
      /\ DOMAIN env = DOMAIN inherited \cup Keys(turn)
      /\ \A key \in DOMAIN env : Written(turn, key)
  BY <1>1, <1>2 DEF EnvInv, Range
<1> HIDE DEF line
<1>5. CASE ~Assigns(line)
  <2>1. env' = env
    BY <1>1, <1>5 DEF Setenv
  <2>2. Keys(turn + 1) = Keys(turn) /\ \A key : Setting(turn + 1, key) = Setting(turn, key)
    BY <1>2, <1>5, OneLineMore DEF line
  <2>3. \A key \in DOMAIN env' : Written(Given, key)'
    BY <2>1, <2>2, <1>1, <1>2, <1>3, <1>4 DEF Written
  <2>4. Range(env') \subseteq Seq(STRING)
    BY <2>1, <1>4 DEF Range
  <2>5. /\ env' = [k \in DOMAIN env' |-> env'[k]]
        /\ DOMAIN env' = DOMAIN inherited' \cup Keys(Given)'
    BY <2>1, <2>2, <1>1, <1>2, <1>3, <1>4
  <2>6. (turn \in Nat /\ Given <= Len(Lines))'
    BY <1>1, <1>2
  <2>7. EnvInv'
    BY <2>3, <2>4, <2>5, <2>6, <1>2 DEF EnvInv
  <2> QED  BY <2>7, <1>1 DEF ConfigInv, ClientInv
<1>6. CASE Assigns(line)
  <2>1. env' = [k \in DOMAIN env \cup {Key(line)} |->
                  IF k = Key(line) THEN Val(line) ELSE env[k]]
    BY <1>1, <1>6 DEF Setenv
  <2>2. /\ Keys(turn + 1) = Keys(turn) \cup {Key(line)}
        /\ Setting(turn + 1, Key(line)) = Setting(turn, Key(line)) \cup {turn + 1}
        /\ \A key : key # Key(line) => Setting(turn + 1, key) = Setting(turn, key)
    BY <1>2, <1>6, OneLineMore DEF line
  <2>3. DOMAIN env' = DOMAIN inherited \cup Keys(turn + 1)
    BY <2>1, <2>2, <1>4
  <2>4. ASSUME NEW key \in DOMAIN env', key = Key(line) PROVE Written(Given, key)'
    <3>1. Setting(Given, key)' = Setting(turn, key) \cup {turn + 1}
      BY <1>2, <1>3, <2>2, <2>4
    <3>2. env'[key] = Val(line) /\ line = Lines'[turn + 1]
      BY <2>1, <2>4, <1>2 DEF line
    <3>3. \A k \in Setting(turn, key) \cup {turn + 1} : k <= turn + 1
      BY <1>2 DEF Setting
    <3> QED  BY <3>1, <3>2, <3>3 DEF Written
  <2>5. ASSUME NEW key \in DOMAIN env', key # Key(line) PROVE Written(Given, key)'
    <3>1. key \in DOMAIN env /\ env'[key] = env[key]
      BY <2>1, <2>5
    <3>2. Setting(Given, key)' = Setting(turn, key)
      BY <1>2, <1>3, <2>2, <2>5
    <3> QED  BY <3>1, <3>2, <1>1, <1>2, <1>4 DEF Written
  <2>6. Range(env') \subseteq Seq(STRING)
    <3>1. \A k \in DOMAIN env' : env'[k] \in Seq(STRING)
      BY <2>1, <1>2, <1>4, ValueIsText
    <3> QED  BY <3>1 DEF Range
  <2>7. env' = [k \in DOMAIN env' |-> env'[k]]
    BY <2>1
  <2>8. EnvInv'
    BY <2>3, <2>4, <2>5, <2>6, <2>7, <1>1, <1>2, <1>3 DEF EnvInv
  <2> QED  BY <2>8, <1>1 DEF ConfigInv, ClientInv
<1> QED
  BY <1>5, <1>6

\* Once the file is read, a variable that is asked for has the value of the last
\* line that sets it, else the inherited one.
LEMMA GetIsEffective ==
  ASSUME EnvInv, mpc # "start", NEW key, NEW default
  PROVE  get(env, key, default) = Effective(key, default)
<1> DEFINE setting == Setting(Len(Lines), key)
<1>1. /\ Len(Lines) \in Nat /\ Given = Len(Lines)
      /\ setting \in SUBSET (1 .. Len(Lines)) /\ \A k \in setting : k \in Nat
      /\ DOMAIN env = DOMAIN inherited \cup Keys(Len(Lines))
      /\ \A k \in DOMAIN env : Written(Len(Lines), k)
  BY LinesAreText DEF Given, EnvInv, Setting
<1>2. key \in Keys(Len(Lines)) <=> setting # {}
  BY DEF Keys, Setting
<1>3. Effective(key, default) = IF setting # {} THEN Val(Lines[Max(setting)])
                                ELSE get(inherited, key, default)
  BY DEF Effective
<1>4. key \in DOMAIN env =>
        /\ setting = {} => env[key] = inherited[key]
        /\ setting # {} => \E j \in setting : /\ env[key] = Val(Lines[j])
                                              /\ \A k \in setting : k <= j
  BY <1>1 DEF Written
<1> HIDE DEF setting
<1>5. CASE setting = {}
  BY <1>1, <1>2, <1>3, <1>4, <1>5 DEF get
<1>6. CASE setting # {}
  <2>1. key \in DOMAIN env
    BY <1>1, <1>2, <1>6
  <2>2. PICK j \in setting : env[key] = Val(Lines[j]) /\ \A k \in setting : k <= j
    BY <2>1, <1>4, <1>6
  <2>3. Max(setting) \in setting /\ \A k \in setting : Max(setting) >= k
    BY <1>1, <1>6, LeastAndGreatest
  <2>4. Max(setting) >= j /\ Max(setting) <= j
    BY <2>2, <2>3
  <2>5. j \in Nat /\ Max(setting) \in Nat
    BY <1>1, <2>2, <2>3
  <2>6. Max(setting) = j
    BY <2>4, <2>5
  <2> QED  BY <2>1, <2>2, <2>6, <1>3, <1>6 DEF get
<1> QED
  BY <1>5, <1>6

\* A value that is asked for is a sequence of tokens, or the default.
LEMMA EffectiveIsText ==
  ASSUME EnvInv, mpc # "start", NEW key, NEW default
  PROVE  Effective(key, default) \in Seq(STRING) \cup {default}
<1>1. get(env, key, default) = Effective(key, default)
  BY GetIsEffective
<1>2. \A k \in DOMAIN env : env[k] \in Seq(STRING)
  BY DEF EnvInv, Range
<1> QED
  BY <1>1, <1>2 DEF get

\* The numbers that have a model, counted.
LEMMA NumberedFacts ==
  ASSUME NEW n \in Nat
  PROVE  /\ IsFiniteSet(Numbered(n)) /\ Cardinality(Numbered(n)) \in Nat
         /\ \A i \in Numbered(n) : /\ Cardinality(Numbered(i)) \in Nat
                                   /\ Cardinality(Numbered(i)) >= 1
                                   /\ Cardinality(Numbered(i)) <= Cardinality(Numbered(n))
<1>1. \A m \in Nat : IsFiniteSet(Numbered(m)) /\ Cardinality(Numbered(m)) \in Nat
  <2> SUFFICES ASSUME NEW m \in Nat
               PROVE  IsFiniteSet(Numbered(m)) /\ Cardinality(Numbered(m)) \in Nat
    OBVIOUS
  <2>1. IsFiniteSet(1 .. m)
    BY FS_Interval
  <2>2. Numbered(m) \in SUBSET (1 .. m)
    BY DEF Numbered
  <2>3. IsFiniteSet(Numbered(m))
    BY <2>1, <2>2, FS_Subset
  <2> QED  BY <2>3, FS_CardinalityType
<1>2. ASSUME NEW i \in Numbered(n)
      PROVE  /\ Cardinality(Numbered(i)) \in Nat /\ Cardinality(Numbered(i)) >= 1
             /\ Cardinality(Numbered(i)) <= Cardinality(Numbered(n))
  <2>1. i \in Nat /\ i \in Numbered(i) /\ Numbered(i) \in SUBSET Numbered(n)
    BY DEF Numbered
  <2>2. IsFiniteSet(Numbered(i)) /\ Cardinality(Numbered(i)) \in Nat
    BY <2>1, <1>1
  <2>3. Cardinality(Numbered(i)) # 0
    BY <2>1, <2>2, FS_EmptySet
  <2>4. Cardinality(Numbered(i)) <= Cardinality(Numbered(n))
    BY <2>1, <1>1, FS_Subset
  <2> QED  BY <2>2, <2>3, <2>4
<1> QED
  BY <1>1, <1>2

\* The statements that neither read the environment nor ask for a model.
LEMMA ConfigKept ==
  ASSUME ConfigInv, UNCHANGED <<args, inherited, env, turn, client>>,
         \/ mpc' = mpc
         \/ /\ mpc \notin {"start", "models", "fallback"}
            /\ mpc' \notin {"start", "models", "fallback"}
         \/ mpc = "start" /\ mpc' # "models" /\ mpc' # "fallback" /\ turn = Len(Lines)
  PROVE  ConfigInv'
<1>1. /\ Lines' = Lines /\ EnvInv /\ ClientInv
      /\ \A key, default : Effective(key, default)' = Effective(key, default)
      /\ \A n, key : Setting(n, key)' = Setting(n, key)
      /\ \A n : Keys(n)' = Keys(n) /\ Numbered(n)' = Numbered(n)
  BY DEF ConfigInv, Lines, Setting, Keys, Effective, Numbered
<1>2. Given' = Given
  BY <1>1 DEF Given
<1>3. \A n, key : Written(n, key)' = Written(n, key)
  BY <1>1 DEF Written
<1>4. EnvInv'
  BY <1>1, <1>2, <1>3 DEF EnvInv
<1>5. \A n : Asked(n)' = Asked(n)
  BY <1>1 DEF Asked
<1>6. ClientInv'
  BY <1>1, <1>5 DEF ClientInv, LastModel
<1> QED
  BY <1>4, <1>6 DEF ConfigInv

\* The variables stay what they are when main has the client to configure.
LEMMA EnvKept ==
  ASSUME EnvInv, mpc # "start", mpc' # "start", UNCHANGED <<args, inherited, env>>,
         turn' \in Nat
  PROVE  /\ EnvInv'
         /\ \A key, default : Effective(key, default)' = Effective(key, default)
         /\ \A n : Numbered(n)' = Numbered(n)
<1>1. /\ Lines' = Lines
      /\ \A key, default : Effective(key, default)' = Effective(key, default)
      /\ \A n, key : Setting(n, key)' = Setting(n, key)
      /\ \A n : Keys(n)' = Keys(n) /\ Numbered(n)' = Numbered(n)
  BY DEF Lines, Setting, Keys, Effective, Numbered
<1>2. Given' = Given
  BY <1>1 DEF Given
<1>3. \A n, key : Written(n, key)' = Written(n, key)
  BY <1>1 DEF Written
<1> QED
  BY <1>1, <1>2, <1>3 DEF EnvInv

\* The client gets its key and its endpoint, and no model yet.
LEMMA ConfigureConfigures ==
  ASSUME ConfigInv, Configure
  PROVE  ConfigInv'
<1> DEFINE key == Effective(<<"OPENROUTER_API_KEY">>, <<>>)
           endpoint == Effective(<<"LLM_ENDPOINT">>, Endpoint)
<1>1. /\ EnvInv /\ mpc # "start" /\ mpc' = "models" /\ turn' = 0
      /\ UNCHANGED <<args, inherited, env>>
      /\ client' = [key |-> get(env, <<"OPENROUTER_API_KEY">>, <<>>),
                    endpoint |-> get(env, <<"LLM_ENDPOINT">>, Endpoint), models |-> <<>>]
  BY DEF ConfigInv, Configure, Goto
<1>2. /\ EnvInv'
      /\ \A k, default : Effective(k, default)' = Effective(k, default)
      /\ \A n : Numbered(n)' = Numbered(n)
  BY <1>1, EnvKept
<1>3. client' = [key |-> key, endpoint |-> endpoint, models |-> <<>>]
  BY <1>1, GetIsEffective
<1>4. <<>> \in Seq(STRING) /\ <<>> \in Seq(Seq(STRING))
  <2>1. <<>> \in Seq(STRING)
    OBVIOUS
  <2>2. <<>> \in Seq(Seq(STRING))
    OBVIOUS
  <2> QED  BY <2>1, <2>2
<1>5. key \in Seq(STRING) /\ endpoint \in Seq(STRING) \cup {Endpoint}
  BY <1>1, <1>4, EffectiveIsText
<1> HIDE DEF key, endpoint
<1>6. client' \in Clients /\ client'.key = key /\ client'.endpoint = endpoint
  BY <1>3, <1>4, <1>5 DEF Clients
<1>7. Asked(0)'
  <2>1. Numbered(0) = {}
    BY DEF Numbered
  <2>2. Len(client'.models) = 0
    BY <1>3
  <2> QED  BY <2>1, <2>2, <1>2, FS_EmptySet DEF Asked
<1>8. client' # None
  BY <1>6, StartupAssumption
<1>9. ClientInv'
  BY <1>1, <1>2, <1>6, <1>7, <1>8 DEF ClientInv, LastModel, key, endpoint
<1> QED
  BY <1>2, <1>9 DEF ConfigInv

\* A model that is there comes to the end of the list, under the next index.
LEMMA OneModelMore ==
  ASSUME NEW n \in Nat, Asked(n), client \in Clients, client' \in Clients,
         NEW model \in Seq(STRING), model = Effective(<<ModelKeys[n + 1]>>, <<>>),
         client'.models = IF model # <<>> THEN Append(client.models, model)
                                          ELSE client.models,
         \A key, default : Effective(key, default)' = Effective(key, default),
         \A m : Numbered(m)' = Numbered(m)
  PROVE  Asked(n + 1)'
<1> DEFINE index(i) == Cardinality(Numbered(i))
<1>1. /\ client.models \in Seq(Seq(STRING)) /\ Len(client.models) = index(n)
      /\ \A i \in Numbered(n) : client.models[index(i)] = Effective(<<ModelKeys[i]>>, <<>>)
  BY DEF Asked, Clients
<1>2. /\ index(n) \in Nat /\ IsFiniteSet(Numbered(n)) /\ n + 1 \notin Numbered(n)
      /\ \A i \in Numbered(n) : index(i) \in 1 .. index(n)
  <2>1. n + 1 \notin Numbered(n)
    BY DEF Numbered
  <2> QED  BY <2>1, NumberedFacts
<1>3. 1 .. n + 1 = 1 .. n \cup {n + 1}
  OBVIOUS
<1>4. CASE model = <<>>
  <2>1. Numbered(n + 1) = Numbered(n)
    BY <1>3, <1>4 DEF Numbered
  <2> QED  BY <2>1, <1>1, <1>4 DEF Asked
<1>5. CASE model # <<>>
  <2>1. Numbered(n + 1) = Numbered(n) \cup {n + 1}
    BY <1>3, <1>5 DEF Numbered
  <2>2. index(n + 1) = index(n) + 1
    BY <2>1, <1>2, FS_AddElement
  <2>3. /\ Len(client'.models) = index(n) + 1
        /\ \A j \in 1 .. index(n) : client'.models[j] = client.models[j]
        /\ client'.models[index(n) + 1] = model
    BY <1>1, <1>5, PushBack
  <2> HIDE DEF index
  <2>4. \A i \in Numbered(n + 1) :
          client'.models[index(i)] = Effective(<<ModelKeys[i]>>, <<>>)
    BY <2>1, <2>2, <2>3, <1>1, <1>2
  <2> QED  BY <2>2, <2>3, <2>4 DEF Asked, index
<1> QED
  BY <1>4, <1>5

\* One turn of either loop; the second one finds no model, as the first has not.
LEMMA ReadModelConfigures ==
  ASSUME ConfigInv, ReadModel
  PROVE  ConfigInv'
<1> DEFINE model == Effective(<<ModelKeys[turn + 1]>>, <<>>)
<1>1. /\ EnvInv /\ mpc \in {"models", "fallback"} /\ mpc' = mpc
      /\ turn < LastModel /\ turn' = turn + 1 /\ turn \in Nat
      /\ UNCHANGED <<args, inherited, env>>
      /\ client \in Clients
      /\ client.key = Effective(<<"OPENROUTER_API_KEY">>, <<>>)
      /\ client.endpoint = Effective(<<"LLM_ENDPOINT">>, Endpoint)
      /\ Asked(IF mpc = "models" THEN turn ELSE 10)
      /\ mpc = "fallback" => client.models = <<>>
  BY DEF ReadModel, ConfigInv, ClientInv, EnvInv
<1>2. /\ EnvInv'
      /\ \A key, default : Effective(key, default)' = Effective(key, default)
      /\ \A n : Numbered(n)' = Numbered(n)
  BY <1>1, EnvKept
<1>3. model \in Seq(STRING)
  <2>1. <<>> \in Seq(STRING)
    OBVIOUS
  <2> QED  BY <2>1, <1>1, EffectiveIsText
<1>4. client' = [client EXCEPT !.models = IF model # <<>> THEN Append(@, model) ELSE @]
  BY <1>1, GetIsEffective DEF ReadModel, WithModel
<1> HIDE DEF model
<1>5. /\ client'.key = client.key /\ client'.endpoint = client.endpoint
      /\ client'.models = IF model # <<>> THEN Append(client.models, model)
                                          ELSE client.models
      /\ client' \in Clients
  <2>1. client.models \in Seq(Seq(STRING))
    BY <1>1 DEF Clients
  <2>2. Append(client.models, model) \in Seq(Seq(STRING))
    BY <2>1, <1>3, PushBack
  <2> QED  BY <2>1, <2>2, <1>1, <1>4 DEF Clients
<1>6. client' # None
  BY <1>5, StartupAssumption
<1>7. CASE mpc = "models"
  <2>1. Asked(turn) /\ model = Effective(<<ModelKeys[turn + 1]>>, <<>>)
    BY <1>1, <1>7 DEF model
  <2>2. \A n \in Nat : n = turn => Asked(n + 1)'
    BY <2>1, <1>1, <1>2, <1>3, <1>5, OneModelMore
  <2>3. Asked(turn)'
    <3>1. \A n \in Nat : n = turn => Asked(n + 1)' /\ n + 1 = turn'
      BY <2>2, <1>1
    <3> QED  BY <3>1, <1>1 DEF Asked
  <2>4. turn' <= LastModel'
    BY <1>1, <1>7 DEF LastModel
  <2>5. ClientInv'
    BY <2>3, <2>4, <1>1, <1>2, <1>5, <1>6, <1>7 DEF ClientInv
  <2> QED  BY <2>5, <1>2 DEF ConfigInv
<1>8. CASE mpc = "fallback"
  <2>1. client.models = <<>> /\ Asked(10) /\ turn + 1 \in 1 .. 10
    BY <1>1, <1>8 DEF LastModel
  <2>2. Numbered(10) = {}
    <3>1. Len(client.models) = 0
      BY <2>1
    <3>2. Cardinality(Numbered(10)) = 0 /\ IsFiniteSet(Numbered(10))
      BY <3>1, <2>1, NumberedFacts DEF Asked
    <3> QED  BY <3>2, FS_EmptySet
  <2>3. model = <<>>
    BY <2>1, <2>2 DEF Numbered, model
  <2>4. client'.models = client.models
    BY <2>3, <1>5
  <2>5. Asked(10)'
    BY <2>1, <2>2, <2>4, <1>2 DEF Asked
  <2>6. ClientInv'
    BY <2>1, <2>4, <2>5, <1>1, <1>2, <1>5, <1>6, <1>8 DEF ClientInv, LastModel
  <2> QED  BY <2>6, <1>2 DEF ConfigInv
<1> QED
  BY <1>1, <1>7, <1>8

\* All ten numbers are asked for when a loop has ended.
LEMMA ModelsEndConfigures ==
  ASSUME ConfigInv, ModelsEnd
  PROVE  ConfigInv'
<1>1. /\ EnvInv /\ mpc \in {"models", "fallback"} /\ mpc' \in {"fallback", "choose"}
      /\ turn = LastModel /\ turn' = 0
      /\ mpc' = "fallback" => client.models = <<>>
      /\ UNCHANGED <<args, inherited, env, client>>
  BY DEF ModelsEnd, ConfigInv
<1>2. /\ EnvInv'
      /\ \A key, default : Effective(key, default)' = Effective(key, default)
      /\ \A n : Numbered(n)' = Numbered(n)
  BY <1>1, EnvKept
<1>3. Asked(10)'
  BY <1>1, <1>2 DEF ConfigInv, ClientInv, Asked, LastModel
<1>4. ClientInv'
  BY <1>1, <1>2, <1>3 DEF ConfigInv, ClientInv, LastModel
<1> QED
  BY <1>2, <1>4 DEF ConfigInv

\* Every step of main keeps the environment and the client as they should be.
LEMMA ConfigPreserves == ConfigInv /\ [StartupNext]_svars => ConfigInv'
<1> SUFFICES ASSUME ConfigInv, [StartupNext]_svars PROVE ConfigInv'
  OBVIOUS
<1>1. CASE LoadLine \/ Configure \/ ReadModel \/ ModelsEnd
  BY <1>1, LoadLineConfigures, ConfigureConfigures, ReadModelConfigures, ModelsEndConfigures
<1>2. CASE Usage \/ LoadEnd
  <2>1. /\ mpc = "start" /\ mpc' \in {"over", "scan"}
        /\ UNCHANGED <<args, inherited, env, turn, client>>
        /\ args = <<>> \/ turn = Len(Lines)
    BY <1>2 DEF Usage, LoadEnd, Goto, smain
  <2>2. turn = Len(Lines)
    <3>1. CASE args = <<>>
      <4>1. Len(Lines) = 0 /\ turn \in Nat /\ turn <= Len(Lines)
        BY <3>1, <2>1 DEF Lines, ConfigInv, EnvInv, Given
      <4> QED  BY <4>1
    <3> QED  BY <3>1, <2>1
  <2> QED  BY <2>1, <2>2, ConfigKept
<1>3. CASE \/ Abort \/ ScanDir \/ ScanStep \/ LoadChosen \/ Return \/ Api \/ UNCHANGED svars
           \/ ScansDone \/ List \/ Choose \/ NotFound \/ Analyze \/ LoadFails
  <2>1. /\ UNCHANGED <<args, inherited, env, turn, client>>
        /\ \/ mpc' = mpc
           \/ /\ mpc \notin {"start", "models", "fallback"}
              /\ mpc' \notin {"start", "models", "fallback"}
    BY <1>3 DEF Abort, ScanDir, ScanStep, LoadChosen, Return, Api, svars, ScansDone, List,
                Choose, NotFound, Analyze, LoadFails, Goto, smain
  <2> QED  BY <2>1, ConfigKept
<1> QED
  BY <1>1, <1>2, <1>3
  DEF StartupNext, Main, Stopped, ScanThrows, NullArgument, NullError, DumpThrows

\* When the loops are over, the client is what the file says.
LEMMA ConfiguredThen == ConfigInv => ConfiguredAsWritten
BY DEF ConfigInv, ClientInv, Asked, ConfiguredAsWritten

\* The types of main's own variables; those of the registry and of the environment
\* are in the two invariants.
LEMMA TypesPreserved ==
  StartupTypeOK /\ StartupInv' /\ ConfigInv /\ ConfigInv' /\ [StartupNext]_svars
    => StartupTypeOK'
<1> SUFFICES ASSUME StartupTypeOK, StartupInv', ConfigInv, ConfigInv', [StartupNext]_svars
             PROVE  StartupTypeOK'
  OBVIOUS
<1>1. /\ TypeOK' /\ refused' \in BOOLEAN
      /\ turn' \in Nat /\ Range(env') \subseteq Seq(STRING)
      /\ client' = None \/ client' \in Clients
  BY DEF StartupInv, RegistryInv, ConfigInv, EnvInv, ClientInv
<1>2. args' = args /\ inherited' = inherited
  BY DEF StartupNext, Main, Stopped, svars, smain, Api, NullError, Abort, Usage, LoadLine,
         LoadEnd, ScanDir, ScanThrows, ScanStep, LoadFails, ScansDone, List, NullArgument,
         Configure, ReadModel, ModelsEnd, Choose, LoadChosen, NotFound, Analyze, DumpThrows,
         Return
<1>3. aborted' \in BOOLEAN
  BY DEF StartupTypeOK, StartupNext, Main, Stopped, svars, Fine, Api, NullError, Abort,
         Usage, LoadLine, LoadEnd, ScanDir, ScanThrows, ScanStep, LoadFails, ScansDone, List,
         NullArgument, Configure, ReadModel, ModelsEnd, Choose, LoadChosen, NotFound,
         Analyze, DumpThrows, Return
<1>4. mpc' \in {"api", "start", "scan", "scanned", "models", "fallback", "choose", "load",
                "analysis", "end", "over"}
  BY DEF StartupTypeOK, StartupNext, Main, Stopped, svars, Goto, Api, NullError, Abort,
         Usage, LoadLine, LoadEnd, ScanDir, ScanThrows, ScanStep, LoadFails, ScansDone, List,
         NullArgument, Configure, ReadModel, ModelsEnd, Choose, LoadChosen, NotFound,
         Analyze, DumpThrows, Return
<1>5. search' \in Seq(Seq(STRING))
  <2>1. search \in Seq(Seq(STRING))
    BY DEF StartupTypeOK
  <2>2. CASE LoadEnd
    <3> DEFINE dir == get(env, <<"PLUGINS_DIR">>, <<>>)
               first == IF dir # <<>> THEN <<dir>> ELSE <<>>
    <3>1. search' = first \o DefaultDirs
      BY <2>2 DEF LoadEnd, SearchPath
    <3>2. dir \in Seq(STRING)
      <4>1. <<>> \in Seq(STRING)
        OBVIOUS
      <4>2. \A k \in DOMAIN env : env[k] \in Seq(STRING)
        BY DEF ConfigInv, EnvInv, Range
      <4> QED  BY <4>1, <4>2 DEF get
    <3> HIDE DEF dir
    <3>3. first \in Seq(Seq(STRING))
      <4> DEFINE S == Seq(STRING)
      <4>1. dir \in S
        BY <3>2
      <4> HIDE DEF S
      <4>2. <<dir>> \in Seq(S) /\ <<>> \in Seq(S)
        BY <4>1
      <4> QED  BY <4>2 DEF S
    <3> HIDE DEF first
    <3> QED  BY <3>1, <3>3, StartupAssumption, ConcatProperties
  <2>3. CASE ScanDir
    <3>1. search' = Tail(search) /\ search # <<>>
      BY <2>3 DEF ScanDir
    <3> QED  BY <3>1, <2>1, HeadTailProperties
  <2>4. CASE UNCHANGED search
    BY <2>1, <2>4
  <2>5. LoadEnd \/ ScanDir \/ UNCHANGED search
    BY DEF StartupNext, Main, Stopped, svars, smain, Api, NullError, Abort, Usage, LoadLine,
           ScanThrows, ScanStep, LoadFails, ScansDone, List, NullArgument, Configure,
           ReadModel, ModelsEnd, Choose, LoadChosen, NotFound, Analyze, DumpThrows, Return
  <2> QED  BY <2>2, <2>3, <2>4, <2>5
<1>6. listed' = None \/ listed' \subseteq Names
  <2>1. List \/ UNCHANGED listed
    BY DEF StartupNext, Main, Stopped, svars, smain, Api, NullError, Abort, Usage, LoadLine,
           LoadEnd, ScanDir, ScanThrows, ScanStep, LoadFails, ScansDone, NullArgument,
           Configure, ReadModel, ModelsEnd, Choose, LoadChosen, NotFound, Analyze,
           DumpThrows, Return
  <2> QED  BY <2>1 DEF List, StartupTypeOK
<1>7. plugin' \in Instances \cup {None}
  <2>1. Choose \/ plugin' \in Instances \/ plugin' = plugin
    BY DEF StartupNext, Main, Stopped, svars, smain, Api, NullError, Abort, Usage, LoadLine,
           LoadEnd, ScanDir, ScanThrows, ScanStep, LoadFails, ScansDone, List, NullArgument,
           Configure, ReadModel, ModelsEnd, Choose, LoadChosen, NotFound, Analyze,
           DumpThrows, Return
  <2>2. Choose => plugin' \in Instances \cup {None}
    BY LookedUp DEF Choose, StartupTypeOK
  <2> QED  BY <2>1, <2>2 DEF StartupTypeOK
<1> QED
  BY <1>1, <1>2, <1>3, <1>4, <1>5, <1>6, <1>7 DEF StartupTypeOK

-----------------------------------------------------------------------------

\* Every reachable state of ai_cli satisfies the invariant.
THEOREM StartupInvariance == StartupSpec => []StartupInv
<1>1. StartupInv /\ [StartupNext]_svars => StartupInv'
  BY StartupPreserves
<1> QED
  BY StartupStarts, <1>1, PTL DEF StartupSpec

\* Every reachable state of ai_cli satisfies the invariant of the configuration.
THEOREM ConfigInvariance == StartupSpec => []ConfigInv
<1>1. ConfigInv /\ [StartupNext]_svars => ConfigInv'
  BY ConfigPreserves
<1> QED
  BY ConfigStarts, <1>1, PTL DEF StartupSpec

\* The variables of main, of the registry and of the manager keep their types.
THEOREM StartupTypeCorrect == StartupSpec => []StartupTypeOK
<1>1. StartupInit => StartupTypeOK
  <2> SUFFICES ASSUME StartupInit PROVE StartupTypeOK
    OBVIOUS
  <2>1. TypeOK
    BY StartupStarts DEF StartupInv, RegistryInv
  <2>2. Range(env) \subseteq Seq(STRING) /\ turn \in Nat
    BY ConfigStarts DEF ConfigInv, EnvInv
  <2>3. search \in Seq(Seq(STRING))
    BY DEF StartupInit
  <2> QED  BY <2>1, <2>2, <2>3 DEF StartupInit, StartupTypeOK
<1>2. StartupTypeOK /\ StartupInv' /\ ConfigInv /\ ConfigInv' /\ [StartupNext]_svars
        => StartupTypeOK'
  BY TypesPreserved
<1> QED
  BY <1>1, <1>2, StartupInvariance, ConfigInvariance, PTL DEF StartupSpec

\* The client is configured as the environment file says, whatever lines it has.
THEOREM AlwaysConfiguredAsWritten == StartupSpec => []ConfiguredAsWritten
<1>1. ConfigInv => ConfiguredAsWritten
  BY ConfiguredThen
<1> QED
  BY <1>1, ConfigInvariance, PTL

\* After the scans the last directory that has a plugin of a name provides it.
THEOREM LastAlwaysWins == StartupSpec => []LastDirectoryWins
<1>1. StartupInv => LastDirectoryWins
  BY WinnersAreLast
<1> QED
  BY <1>1, StartupInvariance, PTL

\* main never analyzes with a plugin that is gone, unmapped, or not the one that was
\* asked for.
THEOREM AlwaysTheOneAskedFor == StartupSpec => []AnalyzesWhatIsAsked
<1>1. StartupInv => AnalyzesWhatIsAsked
  BY AskedForAndMapped
<1> QED
  BY <1>1, StartupInvariance, PTL

\* What the manager and the registry promise holds in main, and in any other program
\* that scans, loads by path, looks up and unloads as it likes.
THEOREM RegistryUndisturbed ==
  StartupSpec => [](LiveCodeMapped /\ Balanced /\ MirrorsHandles /\ LookupFinds)
<1>1. StartupInv => LiveCodeMapped /\ Balanced /\ MirrorsHandles /\ LookupFinds
  BY LiveIsMapped, MirrorHolds, LookupHolds DEF StartupInv, RegistryInv, ManagerInv
<1> QED
  BY <1>1, StartupInvariance, PTL
=============================================================================
