-------------------------- MODULE ResultCacheHistory --------------------------
(***************************************************************************)
(* ResultCache with two history variables, which remember what the cache   *)
(* forgets: the order of use of all keys ever stored, and the latest value *)
(* of each.  With them ResultCache implements LruSpec; a call takes effect *)
(* when it returns.                                                        *)
(***************************************************************************)
EXTENDS ResultCache, TLC

VARIABLES recent, latest

hvars == <<vars, recent, latest>>

Lru == INSTANCE LruSpec WITH Capacity <- MaxSize

Returns(t) == pc[t] # "idle" /\ pc'[t] = "idle"

HInit == Init /\ recent = <<>> /\ latest = [k \in Keys |-> None]

HNext ==
  /\ Next
  /\ IF \E t \in Threads : Returns(t)
       THEN LET t == CHOOSE u \in Threads : Returns(u) IN
              /\ recent' = IF pc[t] = "miss" THEN recent
                                            ELSE Lru!MoveToFront(call[t].key)
              /\ latest' = IF call[t].op = "put"
                             THEN [latest EXCEPT ![call[t].key] = call[t].value]
                             ELSE latest
       ELSE UNCHANGED <<recent, latest>>

HSpec == HInit /\ [][HNext]_hvars

\* Whatever the interleaving of the threads, every get answers as a cache that
\* drops nothing but the least recently used key (get 36-44, put 46-63).
ImplementsLru == Lru!Spec

Symmetry == Permutations(Threads) \cup Permutations(Values) \cup Permutations(Nodes)
=============================================================================
