----------------------------- MODULE ResultCache -----------------------------
(***************************************************************************)
(* ResultCache: the LRU cache of analysis results.  A doubly linked list   *)
(* holds (key, value) pairs, most recently used first, and a hash map an   *)
(* iterator into the list for every key.  Threads call get and put; both   *)
(* hold m_mutex from their first to their last step.  An iterator is the   *)
(* address of a list node, which comes back after the node was freed.      *)
(***************************************************************************)
EXTENDS Naturals, FiniteSets, Sequences, SequencesExt

CONSTANTS Threads,
          Keys,
          Values,
          Nodes,        \* addresses of list nodes
          MaxSize,      \* m_max_size
          None

Pairs == [key : Keys, value : Values]
Calls == [op : {"get"}, key : Keys] \cup [op : {"put"}, key : Keys, value : Values]

\* A cache of size 0 would take the back of an empty list.
ASSUME CacheAssumption ==
  /\ MaxSize \in Nat \ {0}
  /\ IsFiniteSet(Nodes) /\ Cardinality(Nodes) > MaxSize
  /\ None \notin Threads \cup Keys \cup Values \cup Nodes \cup Pairs \cup Calls

VARIABLES
  m_mutex,      \* the thread that holds the lock, or None
  m_lru_list,   \* the nodes of the list, from its front to its back
  node,         \* the pair a node holds
  m_cache,      \* key -> iterator, or None
  pc,           \* where each thread is
  call,         \* the call each thread is in, or None
  answer        \* what the latest call to return gave back

vars == <<m_mutex, m_lru_list, node, m_cache, pc, call, answer>>

TypeOK ==
  /\ m_mutex \in Threads \cup {None}
  /\ m_lru_list \in Seq(Nodes)
  /\ node \in [Nodes -> Pairs \cup {None}]
  /\ m_cache \in [Keys -> Nodes \cup {None}]
  /\ pc \in [Threads -> {"idle", "enter", "miss", "full", "pop", "insert", "index",
                         "found", "value"}]
  /\ call \in [Threads -> Calls \cup {None}]
  /\ answer \in Values \cup {None}

Init ==
  /\ m_mutex = None
  /\ m_lru_list = <<>>
  /\ node = [n \in Nodes |-> None]
  /\ m_cache = [k \in Keys |-> None]
  /\ pc = [t \in Threads |-> "idle"]
  /\ call = [t \in Threads |-> None]
  /\ answer = None

-----------------------------------------------------------------------------

Invoke(t, c) ==
  /\ pc[t] = "idle"
  /\ pc' = [pc EXCEPT ![t] = "enter"]
  /\ call' = [call EXCEPT ![t] = c]
  /\ UNCHANGED <<m_mutex, m_lru_list, node, m_cache, answer>>

\* lock_guard releases the lock as the call returns a.
Return(t, a) ==
  /\ answer' = a
  /\ m_mutex' = None
  /\ pc' = [pc EXCEPT ![t] = "idle"]
  /\ call' = [call EXCEPT ![t] = None]

Goto(t, label) ==
  /\ pc' = [pc EXCEPT ![t] = label]
  /\ UNCHANGED <<m_mutex, call, answer>>

CacheSize == Cardinality({k \in Keys : m_cache[k] # None})

\* Mutant: one pair too many.
EnterOffByOne(t) ==
  /\ pc[t] = "enter"
  /\ m_mutex = None
  /\ m_mutex' = t
  /\ pc' = [pc EXCEPT ![t] = IF m_cache[call[t].key] # None THEN "found"
                             ELSE IF call[t].op = "get" THEN "miss"
                             ELSE IF CacheSize > MaxSize THEN "full" ELSE "insert"]
  /\ UNCHANGED <<m_lru_list, node, m_cache, call, answer>>

\* The lock is taken and the key looked up.
Enter(t) ==
  /\ pc[t] = "enter"
  /\ m_mutex = None
  /\ m_mutex' = t
  /\ pc' = [pc EXCEPT ![t] = IF m_cache[call[t].key] # None THEN "found"
                             ELSE IF call[t].op = "get" THEN "miss"
                             ELSE IF CacheSize >= MaxSize THEN "full" ELSE "insert"]
  /\ UNCHANGED <<m_lru_list, node, m_cache, call, answer>>

\* get: no such key.
Miss(t) ==
  /\ pc[t] = "miss"
  /\ Return(t, None)
  /\ UNCHANGED <<m_lru_list, node, m_cache>>

\* Mutant: the pair keeps its place.
FoundKeepsOrder(t) ==
  /\ pc[t] = "found"
  /\ Goto(t, "value")
  /\ UNCHANGED <<m_lru_list, node, m_cache>>

\* The pair is spliced to the front; its iterator stays valid.
Found(t) ==
  /\ pc[t] = "found"
  /\ \E i \in DOMAIN m_lru_list :
       /\ m_lru_list[i] = m_cache[call[t].key]
       /\ m_lru_list' = <<m_lru_list[i]>> \o RemoveAt(m_lru_list, i)
  /\ Goto(t, "value")
  /\ UNCHANGED <<node, m_cache>>

\* Mutant: get returns the first of the pair, the key (both are strings).
ValueOfWrongMember(t) ==
  /\ pc[t] = "value"
  /\ LET n == m_cache[call[t].key] IN
       \/ call[t].op = "get" /\ Return(t, node[n].key) /\ UNCHANGED node
       \/ /\ call[t].op = "put"
          /\ node' = [node EXCEPT ![n].value = call[t].value]
          /\ Return(t, None)
  /\ UNCHANGED <<m_lru_list, m_cache>>

\* get returns the value; put replaces it.
Value(t) ==
  /\ pc[t] = "value"
  /\ LET n == m_cache[call[t].key] IN
       \/ call[t].op = "get" /\ Return(t, node[n].value) /\ UNCHANGED node
       \/ /\ call[t].op = "put"
          /\ node' = [node EXCEPT ![n].value = call[t].value]
          /\ Return(t, None)
  /\ UNCHANGED <<m_lru_list, m_cache>>

\* Mutant: the evicted key keeps its iterator.
EvictKeepsIterator(t) ==
  /\ pc[t] = "full"
  /\ Goto(t, "pop")
  /\ UNCHANGED <<m_lru_list, node, m_cache>>

\* put: the key of the last pair leaves the map ...
Evict(t) ==
  /\ pc[t] = "full"
  /\ m_cache' = [m_cache EXCEPT ![node[Last(m_lru_list)].key] = None]
  /\ Goto(t, "pop")
  /\ UNCHANGED <<m_lru_list, node>>

\* ... and the pair the list, which frees its node.
PopBack(t) ==
  /\ pc[t] = "pop"
  /\ m_lru_list' = Front(m_lru_list)
  /\ node' = [node EXCEPT ![Last(m_lru_list)] = None]
  /\ Goto(t, "insert")
  /\ UNCHANGED m_cache

\* put: the new pair comes to the front, in a node at any free address ...
PushFront(t) ==
  /\ pc[t] = "insert"
  /\ \E n \in Nodes \ ToSet(m_lru_list) :
       /\ m_lru_list' = <<n>> \o m_lru_list
       /\ node' = [node EXCEPT ![n] = [key |-> call[t].key, value |-> call[t].value]]
  /\ Goto(t, "index")
  /\ UNCHANGED m_cache

\* ... and its key into the map.
Index(t) ==
  /\ pc[t] = "index"
  /\ m_cache' = [m_cache EXCEPT ![call[t].key] = Head(m_lru_list)]
  /\ Return(t, None)
  /\ UNCHANGED <<m_lru_list, node>>

Next == \E t \in Threads :
  \/ \E c \in Calls : Invoke(t, c)
  \/ Enter(t) \/ Miss(t) \/ Found(t) \/ Value(t)
  \/ Evict(t) \/ PopBack(t) \/ PushFront(t) \/ Index(t)

Spec == Init /\ [][Next]_vars

-----------------------------------------------------------------------------

\* No iterator in the map dangles, not even in the middle of a call (57-58: the
\* key is erased before its node): it points to a node of the list that holds
\* its key.
NoDanglingIterator ==
  \A k \in Keys : m_cache[k] # None =>
    /\ m_cache[k] \in ToSet(m_lru_list)
    /\ node[m_cache[k]].key = k

\* Between calls the list and the map agree, key by key, and the cache is within
\* its size: no pair is leaked and none is in the list twice.
Coherent ==
  m_mutex = None =>
    /\ Len(m_lru_list) = CacheSize
    /\ CacheSize <= MaxSize
    /\ \A i \in DOMAIN m_lru_list : m_cache[node[m_lru_list[i]].key] = m_lru_list[i]
=============================================================================
