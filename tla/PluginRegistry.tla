---------------------------- MODULE PluginRegistry ----------------------------
(***************************************************************************)
(* PluginRegistry over PluginManager: directories are scanned, every file  *)
(* that ends in .so is loaded, and the instances are found by their names, *)
(* case and separators aside.  The registry keeps plain pointers.          *)
(***************************************************************************)
EXTENDS PluginManager

CONSTANTS Dirs,         \* directories that are scanned
          Entries,      \* directory -> the paths in it
          NameOf,       \* library -> what get_name of its plugin returns
          NameOrder,    \* all names, in the order of std::map
          Normal,       \* what is looked up -> normalize_name of it
          MaxLoads      \* bound on the handles open at a time, in Next

Names == ToSet(NameOrder)

ASSUME RegistryAssumption ==
  /\ Entries \in [Dirs -> SUBSET Paths]
  /\ NameOf \in [Libs -> Names]
  /\ NameOrder \in Seq(Names)
  /\ Names \subseteq DOMAIN Normal
  /\ MaxLoads \in Nat
  /\ \A s \in SUBSET Paths : s # None

VARIABLES
  m_registry,   \* name -> instance, or None
  todo,         \* scan_directory: entries yet to come, or None outside of a scan
  direct,       \* history: the live instances loaded past the registry
  unloaded      \* history: unload_plugin was called (ai_cli never does)

rvars == <<mvars, m_registry, todo, direct, unloaded>>

TypeOK ==
  /\ ManagerTypeOK
  /\ m_registry \in [Names -> Instances \cup {None}]
  /\ todo = None \/ todo \in SUBSET Paths
  /\ direct \in SUBSET Instances
  /\ unloaded \in BOOLEAN

Init ==
  /\ ManagerInit
  /\ m_registry = [n \in Names |-> None]
  /\ todo = None
  /\ direct = {}
  /\ unloaded = FALSE

\* scan_directory of a directory that exists.
Scan(d) ==
  /\ Ready /\ todo = None
  /\ todo' = Entries[d]
  /\ UNCHANGED <<mvars, m_registry, direct, unloaded>>

\* The next entry, in the order of the file system: it is opened, or not.
ScanNext ==
  /\ Ready /\ todo # None
  /\ \E p \in todo :
       /\ todo' = todo \ {p}
       /\ Open(p) \/ (LibOf[p] = None /\ UNCHANGED mvars)
  /\ UNCHANGED <<m_registry, direct, unloaded>>

\* A caller loads a path on its own, as main does when get_plugin has found nothing:
\* the manager gets a plugin that the registry does not know.
LoadPath(p) ==
  /\ todo = None
  /\ Open(p)
  /\ UNCHANGED <<m_registry, todo, direct, unloaded>>

LoadError ==
  /\ Reject
  /\ UNCHANGED <<m_registry, todo, direct, unloaded>>

\* Mutant: the first instance of a name stays registered.
LoadedFirstWins(i) ==
  /\ Create(i)
  /\ m_registry' = IF todo = None \/ m_registry[NameOf[loading]] # None THEN m_registry
                   ELSE [m_registry EXCEPT ![NameOf[loading]] = i]
  /\ direct' = IF todo = None THEN direct \cup {i} ELSE direct \ {i}
  /\ UNCHANGED <<todo, unloaded>>

\* load_plugin returns i; a scan files it under its name, in the place of an
\* earlier instance of that name.
Loaded(i) ==
  /\ Create(i)
  /\ m_registry' = IF todo = None THEN m_registry
                   ELSE [m_registry EXCEPT ![NameOf[loading]] = i]
  /\ direct' = IF todo = None THEN direct \cup {i} ELSE direct \ {i}
  /\ UNCHANGED <<todo, unloaded>>

ScanEnd ==
  /\ Ready /\ todo = {}
  /\ todo' = None
  /\ UNCHANGED <<mvars, m_registry, direct, unloaded>>

\* Mutant: names are compared as they are.
MatchesExactly(m, n) == m_registry[m] # None /\ m = n

Matches(m, n) == m_registry[m] # None /\ Normal[m] = Normal[n]

\* The first name in the order of the map that is n when normalized, or nullptr: a
\* lookup changes nothing.
get_plugin(n) ==
  LET matching == {j \in DOMAIN NameOrder : Matches(NameOrder[j], n)} IN
  IF matching = {} THEN None ELSE m_registry[NameOrder[Min(matching)]]

\* unload_plugin is called on the manager, which knows nothing of the registry.
UnloadPlugin ==
  /\ todo = None
  /\ (\E i \in Instances : Unload(i)) \/ UnloadClose
  /\ unloaded' = TRUE
  /\ direct' = direct \cap Live'
  /\ UNCHANGED <<m_registry, todo>>

\* The registry, declared after the manager, is gone before the manager ends.
Finish ==
  /\ todo = None
  /\ DestroyNext \/ CloseNext \/ End
  /\ m_registry' = [n \in Names |-> None]
  /\ direct' = direct \cap Live'
  /\ UNCHANGED <<todo, unloaded>>

Terminated == life = "over" /\ UNCHANGED rvars

Room(n) == Len(m_handles) + n <= MaxLoads

Plugins(d) == {p \in Entries[d] : LibOf[p] \in Complete}

Next == \/ \E d \in Dirs : Room(Cardinality(Plugins(d))) /\ Scan(d)
        \/ ScanNext \/ ScanEnd
        \/ \E p \in Paths : Room(1) /\ LoadPath(p)
        \/ LoadError
        \/ \E i \in Instances : Loaded(i)
        \/ UnloadPlugin
        \/ Finish \/ Terminated

Spec == Init /\ [][Next]_rvars

-----------------------------------------------------------------------------

\* While nothing is unloaded, the registry mirrors what the scans have loaded: a name
\* leads to the instance that a scan loaded last among the plugins of that name, though
\* directories are scanned in any order and more than once (49) and other plugins are
\* loaded past the registry in between, and to nothing if no scan has loaded one.
MirrorsHandles ==
  life = "alive" /\ ~unloaded =>
    \A n \in Names :
      LET named == {j \in DOMAIN m_handles : /\ NameOf[m_handles[j].handle] = n
                                            /\ m_handles[j].instance \notin direct} IN
        m_registry[n] = IF named = {} THEN None ELSE m_handles[Max(named)].instance

\* While nothing is unloaded, get_plugin finds a live plugin of the name it is
\* given, however it is spelled, if a scan has loaded one (60-66).  One that was
\* loaded past the registry does not count: get_plugin does not see it.
LookupFinds ==
  life = "alive" /\ ~unloaded =>
    \A n \in DOMAIN Normal : \A i \in Live \ direct :
       Normal[NameOf[made_by[i]]] = Normal[n] =>
         /\ get_plugin(n) \in Live
         /\ Normal[NameOf[made_by[get_plugin(n)]]] = Normal[n]
=============================================================================
