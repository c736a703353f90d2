---------------------------- MODULE PluginManager ----------------------------
(***************************************************************************)
(* PluginManager: shared libraries are opened, one plugin instance is made *)
(* per opened handle, and both are given up together, by unload_plugin or  *)
(* by the destructor.  The dynamic linker is external: it counts how often *)
(* a library is open, whatever path it was opened by, and unmaps it when   *)
(* the count is back to zero.                                              *)
(***************************************************************************)
EXTENDS Naturals, FiniteSets, Sequences, SequencesExt

CONSTANTS Paths,        \* paths of files that end in .so
          Libs,         \* the shared libraries behind them
          LibOf,        \* path -> library, or None if dlopen fails
          Complete,     \* libraries with both plugin symbols
          Instances,    \* addresses create_plugin can return
          None

Handles == [handle : Libs, instance : Instances]

ASSUME PluginAssumption ==
  /\ LibOf \in [Paths -> Libs \cup {None}]
  /\ Complete \subseteq Libs
  /\ None \notin Libs \cup Instances \cup Handles

VARIABLES
  m_handles,    \* the open handles, each with its instance
  m_plugins,    \* the instances
  refcount,     \* dynamic linker: how often each library is open
  made_by,      \* the library a live instance was created by, or None
  loading,      \* load_plugin: the library just opened, or None
  closing,      \* the handle whose instance is destroyed already, to be closed
                \* next, or None
  life          \* "alive", "ending" in the destructor, "over"

mvars == <<m_handles, m_plugins, refcount, made_by, loading, closing, life>>

Live == {i \in Instances : made_by[i] # None}

ManagerTypeOK ==
  /\ m_handles \in Seq(Handles)
  /\ m_plugins \in Seq(Instances)
  /\ refcount \in [Libs -> Nat]
  /\ made_by \in [Instances -> Libs \cup {None}]
  /\ loading \in Libs \cup {None}
  /\ closing \in Handles \cup {None}
  /\ life \in {"alive", "ending", "over"}

ManagerInit ==
  /\ m_handles = <<>>
  /\ m_plugins = <<>>
  /\ refcount = [l \in Libs |-> 0]
  /\ made_by = [i \in Instances |-> None]
  /\ loading = None
  /\ closing = None
  /\ life = "alive"

\* No call of the manager is in progress.
Ready == life = "alive" /\ loading = None /\ closing = None

-----------------------------------------------------------------------------
(* load_plugin                                                             *)

\* dlopen succeeds.
Open(p) ==
  /\ Ready
  /\ LibOf[p] # None
  /\ loading' = LibOf[p]
  /\ refcount' = [refcount EXCEPT ![LibOf[p]] = @ + 1]
  /\ UNCHANGED <<m_handles, m_plugins, made_by, closing, life>>

\* Mutant: the error return forgets dlclose.
RejectLeaks ==
  /\ loading # None
  /\ loading' = None
  /\ UNCHANGED <<m_handles, m_plugins, refcount, made_by, closing, life>>

\* A symbol is missing, or create_plugin returns nothing: the library is closed.
Reject ==
  /\ loading # None
  /\ loading' = None
  /\ refcount' = [refcount EXCEPT ![loading] = @ - 1]
  /\ UNCHANGED <<m_handles, m_plugins, made_by, closing, life>>

\* The library makes the instance i, and handle and instance are kept.
Create(i) ==
  /\ loading \in Complete
  /\ i \notin Live
  /\ made_by' = [made_by EXCEPT ![i] = loading]
  /\ m_handles' = Append(m_handles, [handle |-> loading, instance |-> i])
  /\ m_plugins' = Append(m_plugins, i)
  /\ loading' = None
  /\ UNCHANGED <<refcount, closing, life>>

-----------------------------------------------------------------------------
(* unload_plugin, and the destructor                                       *)

\* Mutant: the library is closed before its instance is destroyed.
DestroyAfterClose(h) ==
  /\ refcount' = [refcount EXCEPT ![h.handle] = @ - 1]
  /\ closing' = h
  /\ UNCHANGED <<m_handles, m_plugins, made_by, loading>>

\* The instance of a handle is shut down and destroyed, by code of its library.
Destroy(h) ==
  /\ made_by' = [made_by EXCEPT ![h.instance] = None]
  /\ closing' = h
  /\ UNCHANGED <<m_handles, m_plugins, refcount, loading>>

\* unload_plugin with a pointer that is one of the instances.
Unload(i) ==
  /\ Ready
  /\ \E h \in ToSet(m_handles) : h.instance = i /\ Destroy(h)
  /\ UNCHANGED life

\* What find and erase leave of a vector; no element is in it twice.
Erase(s, e) ==
  IF e \in ToSet(s) THEN RemoveAt(s, CHOOSE j \in DOMAIN s : s[j] = e) ELSE s

\* Mutant: the handle stays in m_handles.
UnloadCloseKeepsHandle ==
  /\ life = "alive" /\ closing # None
  /\ refcount' = [refcount EXCEPT ![closing.handle] = @ - 1]
  /\ m_plugins' = Erase(m_plugins, closing.instance)
  /\ closing' = None
  /\ UNCHANGED <<m_handles, made_by, loading, life>>

\* unload_plugin closes the library and forgets both.
UnloadClose ==
  /\ life = "alive" /\ closing # None
  /\ refcount' = [refcount EXCEPT ![closing.handle] = @ - 1]
  /\ m_plugins' = Erase(m_plugins, closing.instance)
  /\ m_handles' = Erase(m_handles, closing)
  /\ closing' = None
  /\ UNCHANGED <<made_by, loading, life>>

\* The destructor goes through the handles in order.
DestroyNext ==
  /\ \/ Ready
     \/ life = "ending" /\ closing = None
  /\ m_handles # <<>>
  /\ Destroy(Head(m_handles))
  /\ life' = "ending"

CloseNext ==
  /\ life = "ending" /\ closing # None
  /\ refcount' = [refcount EXCEPT ![closing.handle] = @ - 1]
  /\ m_handles' = Tail(m_handles)
  /\ closing' = None
  /\ UNCHANGED <<m_plugins, made_by, loading, life>>

End ==
  /\ \/ Ready
     \/ life = "ending" /\ closing = None
  /\ m_handles = <<>>
  /\ m_plugins' = <<>>
  /\ life' = "over"
  /\ UNCHANGED <<m_handles, refcount, made_by, loading, closing>>

-----------------------------------------------------------------------------

\* The code of every live instance is mapped: an instance is destroyed before its
\* handle is closed, and another handle on the same library is not affected
\* (plugin_manager.cpp:29-33, 70-72).
LiveCodeMapped == \A i \in Live : refcount[made_by[i]] > 0

HandlesOf(l) == {h \in ToSet(m_handles) : h.handle = l}

\* Nothing is leaked and nothing is given up twice: a library is open once for
\* every handle (and for the load in progress), the live instances are those of
\* the handles, and get_plugins lists them.
Balanced ==
  /\ \A l \in Libs :
       refcount[l] = Cardinality(HandlesOf(l)) + (IF loading = l THEN 1 ELSE 0)
  /\ \A j, k \in DOMAIN m_handles : m_handles[j].instance = m_handles[k].instance => j = k
  /\ Live = {h.instance : h \in ToSet(m_handles) \ {closing}}
  /\ life = "alive" /\ closing = None =>
       m_plugins = [j \in DOMAIN m_handles |-> m_handles[j].instance]
=============================================================================
