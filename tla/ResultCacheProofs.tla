--------------------------- MODULE ResultCacheProofs ---------------------------
(***************************************************************************)
(* For any number of threads, any keys and values, and a cache of any size *)
(* from one: the list and the map stay coherent, and the cache implements  *)
(* LruSpec.                                                                *)
(***************************************************************************)
EXTENDS ResultCacheHistory, SequenceTheorems, FiniteSetTheorems, TLAPS

\* Where the thread that holds the lock is, and its call.
Phase == IF m_mutex = None THEN "idle" ELSE pc[m_mutex]
Current == call[m_mutex]

\* The key of the i-th pair of the list.
KeyAt(i) == node[m_lru_list[i]].key

\* A thread is inside of a call, past its first step, if and only if it holds the
\* lock.
LockInv ==
  /\ \A t \in Threads : pc[t] = "idle" <=> call[t] = None
  /\ \A t \in Threads : pc[t] \notin {"idle", "enter"} <=> m_mutex = t

\* What the thread that holds the lock has found out about its key.
CallInv ==
  /\ Phase = "miss" => Current.op = "get"
  /\ Phase \in {"full", "pop", "insert", "index"} => Current.op = "put"
  /\ Phase \in {"found", "value"} => m_cache[Current.key] # None
  /\ Phase \in {"miss", "full", "pop", "insert", "index"} => m_cache[Current.key] = None
  /\ Phase \in {"full", "pop"} => Len(m_lru_list) = MaxSize
  /\ Phase = "index" => m_lru_list # <<>>
  /\ Phase = "insert" => Len(m_lru_list) < MaxSize
  /\ Phase = "index" => KeyAt(1) = Current.key

\* The pairs of the list are at different addresses and have different keys.
ListInv ==
  /\ \A i, j \in DOMAIN m_lru_list : m_lru_list[i] = m_lru_list[j] => i = j
  /\ \A i \in DOMAIN m_lru_list : node[m_lru_list[i]] # None
  /\ \A i, j \in DOMAIN m_lru_list : KeyAt(i) = KeyAt(j) => i = j

\* The pair that is not in the map: the last one after its key was evicted, or the
\* first one before its key is entered.
Unmapped(i) == \/ Phase = "pop" /\ i = Len(m_lru_list)
               \/ Phase = "index" /\ i = 1

MapInv ==
  /\ \A k \in Keys : m_cache[k] # None =>
       \E i \in DOMAIN m_lru_list : m_cache[k] = m_lru_list[i] /\ KeyAt(i) = k
  /\ \A i \in DOMAIN m_lru_list :
       m_cache[KeyAt(i)] = IF Unmapped(i) THEN None ELSE m_lru_list[i]
  /\ IsFiniteSet({k \in Keys : m_cache[k] # None})
  /\ Len(m_lru_list) = CacheSize + (IF Phase \in {"pop", "index"} THEN 1 ELSE 0)
  /\ Len(m_lru_list) <= MaxSize

CacheInv == TypeOK /\ LockInv /\ CallInv /\ ListInv /\ MapInv

Least(a, b) == IF a < b THEN a ELSE b

\* The list holds the first n of the keys ever stored, after the first i pairs.
Agrees(i, n) ==
  /\ Len(m_lru_list) = i + n
  /\ \A j \in 1 .. n : KeyAt(i + j) = recent[j]

\* The list holds the first n of them, the p-th one moved to the front.
Moved(p, n) ==
  /\ Len(m_lru_list) = n /\ p \in 1 .. n
  /\ KeyAt(1) = recent[p]
  /\ \A j \in 1 .. p - 1 : KeyAt(j + 1) = recent[j]
  /\ \A j \in p + 1 .. n : KeyAt(j) = recent[j]

\* The keys of the list are those of the abstract cache, in the same order, but for
\* what the call that is under way has done already.
OrderInv ==
  /\ recent \in Seq(Keys)
  /\ \A i, j \in 1 .. Len(recent) : recent[i] = recent[j] => i = j
  /\ Phase \in {"idle", "miss", "found", "full", "pop"} =>
       Agrees(0, Least(Len(recent), MaxSize))
  /\ Phase = "value" =>
       \E p \in 1 .. Len(recent) : /\ recent[p] = Current.key
                                   /\ Moved(p, Least(Len(recent), MaxSize))
  /\ Phase = "insert" => Agrees(0, Least(Len(recent), MaxSize - 1))
  /\ Phase = "index" => Agrees(1, Least(Len(recent), MaxSize - 1))
  /\ Phase \in {"miss", "full", "pop", "insert", "index"} =>
       \A i \in 1 .. Len(recent) : i <= MaxSize => recent[i] # Current.key

\* The values are those stored last; a new pair has that of its call.
ValueInv ==
  /\ latest \in [Keys -> Values \cup {None}]
  /\ \A i \in 1 .. Len(m_lru_list) :
       node[m_lru_list[i]].value = IF Phase = "index" /\ i = 1 THEN Current.value
                                   ELSE latest[KeyAt(i)]

HistoryInv == CacheInv /\ OrderInv /\ ValueInv

-----------------------------------------------------------------------------
(* Lists                                                                   *)

\* push_front.
LEMMA Pushed ==
  ASSUME NEW S, NEW s \in Seq(S), NEW e \in S
  PROVE  /\ <<e>> \o s \in Seq(S) /\ Len(<<e>> \o s) = Len(s) + 1 /\ Len(s) \in Nat
         /\ DOMAIN (<<e>> \o s) = 1 .. Len(s) + 1
         /\ (<<e>> \o s)[1] = e
         /\ \A j \in 1 .. Len(s) : (<<e>> \o s)[j + 1] = s[j]
<1> DEFINE t == <<e>> \o s
<1>1. <<e>> \in Seq(S) /\ Len(<<e>>) = 1 /\ <<e>>[1] = e /\ Len(s) \in Nat
  BY LenProperties
<1>2. /\ t \in Seq(S) /\ Len(t) = 1 + Len(s)
      /\ \A j \in 1 .. 1 + Len(s) : t[j] = IF j <= 1 THEN <<e>>[j] ELSE s[j - 1]
  BY <1>1, ConcatProperties
<1>3. DOMAIN t = 1 .. Len(s) + 1
  BY <1>1, <1>2, LenProperties
<1> HIDE DEF t
<1>4. t[1] = e /\ \A j \in 1 .. Len(s) : t[j + 1] = s[j]
  BY <1>1, <1>2
<1>5. Len(t) = Len(s) + 1
  BY <1>1, <1>2
<1> QED
  BY <1>1, <1>2, <1>3, <1>4, <1>5 DEF t

\* splice of the i-th element to the front.
LEMMA Spliced ==
  ASSUME NEW S, NEW s \in Seq(S), NEW i \in 1 .. Len(s)
  PROVE  LET t == <<s[i]>> \o RemoveAt(s, i) IN
         /\ t \in Seq(S) /\ Len(t) = Len(s) /\ DOMAIN t = 1 .. Len(s)
         /\ t[1] = s[i]
         /\ \A j \in 1 .. i - 1 : t[j + 1] = s[j]
         /\ \A j \in i + 1 .. Len(s) : t[j] = s[j]
<1> DEFINE front == SubSeq(s, 1, i - 1)
           back == SubSeq(s, i + 1, Len(s))
           r == front \o back
           t == <<s[i]>> \o r
<1>1. Len(s) \in Nat /\ \A j \in 1 .. Len(s) : s[j] \in S
  BY LenProperties
<1>2. /\ front \in Seq(S) /\ Len(front) = i - 1
      /\ \A k \in 1 .. i - 1 : front[k] = s[k]
  <2>1. /\ front \in Seq(S)
        /\ Len(front) = IF 1 <= i - 1 THEN (i - 1) - 1 + 1 ELSE 0
        /\ \A k \in 1 .. (i - 1) - 1 + 1 : front[k] = s[1 + k - 1]
    BY <1>1, SubSeqProperties
  <2> QED  BY <2>1, <1>1
<1>3. /\ back \in Seq(S) /\ Len(back) = Len(s) - i
      /\ \A k \in 1 .. Len(s) - i : back[k] = s[i + k]
  <2>1. /\ back \in Seq(S)
        /\ Len(back) = IF i + 1 <= Len(s) THEN Len(s) - (i + 1) + 1 ELSE 0
        /\ \A k \in 1 .. Len(s) - (i + 1) + 1 : back[k] = s[(i + 1) + k - 1]
    BY <1>1, SubSeqProperties
  <2> QED  BY <2>1, <1>1
<1>4. /\ r \in Seq(S) /\ Len(r) = Len(s) - 1
      /\ \A k \in 1 .. Len(s) - 1 : r[k] = IF k < i THEN s[k] ELSE s[k + 1]
  <2> HIDE DEF front, back
  <2>1. /\ r \in Seq(S) /\ Len(r) = Len(front) + Len(back)
        /\ \A k \in 1 .. Len(front) + Len(back) :
             r[k] = IF k <= Len(front) THEN front[k] ELSE back[k - Len(front)]
    <3>1. front \in Seq(S) /\ back \in Seq(S)
      BY <1>2, <1>3
    <3> QED  BY <3>1, ConcatProperties
  <2>2. ASSUME NEW k \in 1 .. Len(s) - 1
        PROVE  r[k] = IF k < i THEN s[k] ELSE s[k + 1]
    <3>1. CASE k < i
      BY <3>1, <2>1, <1>2, <1>3, <1>1
    <3>2. CASE k >= i
      <4>1. r[k] = back[k - (i - 1)] /\ k - (i - 1) \in 1 .. Len(s) - i
        BY <3>2, <2>1, <1>2, <1>3, <1>1
      <4>2. back[k - (i - 1)] = s[i + (k - (i - 1))]
        BY <4>1, <1>3
      <4>3. i + (k - (i - 1)) = k + 1
        BY <1>1
      <4>4. r[k] = s[k + 1]
        BY <4>1, <4>2, <4>3
      <4> QED  BY <4>4, <3>2
    <3>3. k < i \/ k >= i
      BY <1>1
    <3> QED  BY <3>1, <3>2, <3>3
  <2> QED  BY <2>1, <2>2, <1>1, <1>2, <1>3
<1> HIDE DEF r
<1>5. /\ t \in Seq(S) /\ Len(t) = Len(r) + 1 /\ DOMAIN t = 1 .. Len(r) + 1
      /\ t[1] = s[i] /\ \A j \in 1 .. Len(r) : t[j + 1] = r[j]
  BY <1>1, <1>4, Pushed
<1> HIDE DEF t
<1>6. \A j \in 1 .. i - 1 : t[j + 1] = s[j]
  BY <1>1, <1>4, <1>5
<1>7. ASSUME NEW j \in i + 1 .. Len(s) PROVE t[j] = s[j]
  <2>1. j - 1 \in 1 .. Len(s) - 1 /\ ~(j - 1 < i) /\ (j - 1) + 1 = j
    BY <1>1
  <2>2. t[(j - 1) + 1] = r[j - 1] /\ r[j - 1] = s[(j - 1) + 1]
    BY <2>1, <1>4, <1>5
  <2> QED  BY <2>1, <2>2
<1>8. Len(t) = Len(s) /\ DOMAIN t = 1 .. Len(s)
  BY <1>1, <1>4, <1>5
<1> QED
  BY <1>5, <1>6, <1>7, <1>8 DEF t, r, RemoveAt

\* pop_back.
LEMMA Popped ==
  ASSUME NEW S, NEW s \in Seq(S), s # <<>>
  PROVE  /\ Front(s) \in Seq(S) /\ Len(Front(s)) = Len(s) - 1
         /\ DOMAIN Front(s) = 1 .. Len(s) - 1
         /\ \A j \in 1 .. Len(s) - 1 : Front(s)[j] = s[j]
         /\ Last(s) = s[Len(s)] /\ Len(s) \in Nat /\ Len(s) \in 1 .. Len(s)
<1>1. Len(s) \in Nat /\ Len(s) # 0 /\ \A j \in 1 .. Len(s) : s[j] \in S
  BY EmptySeq, LenProperties
<1> DEFINE t == SubSeq(s, 1, Len(s) - 1)
<1>2. /\ t \in Seq(S)
      /\ Len(t) = IF 1 <= Len(s) - 1 THEN (Len(s) - 1) - 1 + 1 ELSE 0
      /\ \A j \in 1 .. (Len(s) - 1) - 1 + 1 : t[j] = s[1 + j - 1]
  BY <1>1, SubSeqProperties
<1> HIDE DEF t
<1>3. Len(t) = Len(s) - 1 /\ \A j \in 1 .. Len(s) - 1 : t[j] = s[j]
  <2>1. Len(s) - 1 \in Nat /\ (Len(s) - 1) - 1 + 1 = Len(s) - 1
    BY <1>1
  <2>2. Len(t) = Len(s) - 1
    <3> DEFINE m == Len(s) - 1
    <3>1. Len(t) = IF 1 <= m THEN m - 1 + 1 ELSE 0
      BY <1>2
    <3>2. m \in Nat
      BY <2>1
    <3> HIDE DEF m
    <3>3. Len(t) = m
      BY <3>1, <3>2
    <3> QED  BY <3>3 DEF m
  <2>3. ASSUME NEW j \in 1 .. Len(s) - 1 PROVE t[j] = s[j]
    <3>1. j \in 1 .. (Len(s) - 1) - 1 + 1 /\ 1 + j - 1 = j
      BY <2>1
    <3> QED  BY <3>1, <1>2
  <2> QED  BY <2>2, <2>3
<1>4. DOMAIN t = 1 .. Len(s) - 1
  BY <1>2, <1>3, LenProperties
<1> QED
  BY <1>1, <1>2, <1>3, <1>4 DEF t, Front, Last

-----------------------------------------------------------------------------
(* The lock                                                                *)

Places == {"miss", "full", "pop", "insert", "index", "found", "value"}

\* A thread past its first step is the one that holds the lock, and calls something.
LEMMA Holder ==
  ASSUME TypeOK, LockInv, NEW t \in Threads, pc[t] \in Places
  PROVE  m_mutex = t /\ Phase = pc[t] /\ Current = call[t] /\ Current \in Calls
BY CacheAssumption DEF TypeOK, LockInv, Phase, Current, Places

\* It goes on to another place, and keeps the lock.
LEMMA GoesOn ==
  ASSUME TypeOK, LockInv, NEW t \in Threads, pc[t] \in Places, NEW l \in Places, Goto(t, l)
  PROVE  /\ LockInv' /\ Phase' = l /\ Current' = Current
         /\ m_mutex' \in Threads \cup {None} /\ answer' \in Values \cup {None}
         /\ pc' \in [Threads -> {"idle", "enter"} \cup Places]
         /\ call' \in [Threads -> Calls \cup {None}]
<1>1. m_mutex = t /\ m_mutex' = t /\ call' = call /\ answer' = answer
      /\ pc' = [pc EXCEPT ![t] = l] /\ t # None
  BY Holder, CacheAssumption DEF Goto
<1>2. pc \in [Threads -> {"idle", "enter"} \cup Places]
  BY DEF TypeOK, Places
<1>3. pc'[t] = l /\ \A u \in Threads : u # t => pc'[u] = pc[u]
  BY <1>1, <1>2
<1>4. LockInv'
  BY <1>1, <1>3 DEF LockInv, Places
<1> QED
  BY <1>1, <1>2, <1>3, <1>4 DEF TypeOK, Phase, Current

\* It returns, and releases the lock.
LEMMA ComesBack ==
  ASSUME TypeOK, LockInv, NEW t \in Threads, pc[t] \in Places,
         NEW a \in Values \cup {None}, Return(t, a)
  PROVE  /\ LockInv' /\ Phase' = "idle" /\ m_mutex' = None
         /\ m_mutex' \in Threads \cup {None} /\ answer' \in Values \cup {None}
         /\ pc' \in [Threads -> {"idle", "enter"} \cup Places]
         /\ call' \in [Threads -> Calls \cup {None}]
<1>1. m_mutex = t /\ m_mutex' = None /\ answer' = a /\ t # None
      /\ pc' = [pc EXCEPT ![t] = "idle"] /\ call' = [call EXCEPT ![t] = None]
  BY Holder, CacheAssumption DEF Return
<1>2. pc \in [Threads -> {"idle", "enter"} \cup Places]
      /\ call \in [Threads -> Calls \cup {None}]
  BY DEF TypeOK, Places
<1>3. /\ pc'[t] = "idle" /\ \A u \in Threads : u # t => pc'[u] = pc[u]
      /\ call'[t] = None /\ \A u \in Threads : u # t => call'[u] = call[u]
  BY <1>1, <1>2
<1>4. LockInv'
  BY <1>1, <1>3, CacheAssumption DEF LockInv
<1> QED
  BY <1>1, <1>2, <1>4 DEF Phase

\* The cache has as many keys as its size says, and its list has as many positions
\* as pairs.
LEMMA CacheFacts ==
  ASSUME CacheInv
  PROVE  /\ m_lru_list \in Seq(Nodes) /\ Len(m_lru_list) \in Nat
         /\ DOMAIN m_lru_list = 1 .. Len(m_lru_list)
         /\ CacheSize \in Nat /\ MaxSize \in Nat \ {0}
         /\ \A i \in 1 .. Len(m_lru_list) :
              /\ m_lru_list[i] \in Nodes /\ m_lru_list[i] # None
              /\ node[m_lru_list[i]] \in Pairs /\ KeyAt(i) \in Keys
         /\ m_lru_list # <<>> => Len(m_lru_list) # 0
<1>1. /\ m_lru_list \in Seq(Nodes) /\ Len(m_lru_list) \in Nat
      /\ DOMAIN m_lru_list = 1 .. Len(m_lru_list)
      /\ m_lru_list # <<>> => Len(m_lru_list) # 0
      /\ \A i \in 1 .. Len(m_lru_list) : m_lru_list[i] \in Nodes
  BY EmptySeq, LenProperties DEF CacheInv, TypeOK
<1>2. CacheSize \in Nat
  BY FS_CardinalityType DEF CacheInv, MapInv, CacheSize
<1>3. \A i \in 1 .. Len(m_lru_list) : node[m_lru_list[i]] \in Pairs /\ KeyAt(i) \in Keys
  BY <1>1 DEF CacheInv, TypeOK, ListInv, KeyAt, Pairs
<1> QED
  BY <1>1, <1>2, <1>3, CacheAssumption

-----------------------------------------------------------------------------
(* List and map                                                            *)

\* The cache starts empty, with its lock free.
LEMMA CacheStarts == Init => CacheInv
<1> SUFFICES ASSUME Init PROVE CacheInv
  OBVIOUS
<1>1. TypeOK
  BY DEF Init, TypeOK
<1>2. LockInv /\ Phase = "idle"
  BY CacheAssumption DEF Init, LockInv, Phase
<1>3. DOMAIN m_lru_list = {} /\ Len(m_lru_list) = 0
  BY DEF Init
<1>4. {k \in Keys : m_cache[k] # None} = {}
  BY DEF Init
<1>5. CacheSize = 0 /\ IsFiniteSet({k \in Keys : m_cache[k] # None})
  BY <1>4, FS_EmptySet DEF CacheSize
<1>6. MapInv
  <2>1. \A k \in Keys : m_cache[k] = None
    BY DEF Init
  <2> QED  BY <2>1, <1>2, <1>3, <1>5, CacheAssumption DEF MapInv
<1> QED
  BY <1>1, <1>2, <1>3, <1>6 DEF CacheInv, CallInv, ListInv

\* A step that changes neither list nor map nor keys leaves the two coherent.
LEMMA DataKept ==
  ASSUME CacheInv, UNCHANGED <<m_lru_list, m_cache>>,
         \A i \in DOMAIN m_lru_list : node'[m_lru_list[i]] # None /\ KeyAt(i)' = KeyAt(i),
         Phase \notin {"pop", "index"}, Phase' \notin {"pop", "index"}
  PROVE  ListInv' /\ MapInv' /\ CacheSize' = CacheSize
<1>1. CacheSize' = CacheSize
  BY DEF CacheSize
<1>2. ListInv'
  BY DEF CacheInv, ListInv
<1>3. \A i : ~Unmapped(i) /\ ~Unmapped(i)'
  BY DEF Unmapped
<1>4. MapInv'
  BY <1>1, <1>3 DEF CacheInv, MapInv
<1> QED
  BY <1>1, <1>2, <1>4

\* The invariant speaks of the variables of the cache only.
LEMMA CacheStutters == CacheInv /\ UNCHANGED vars => CacheInv'
<1> SUFFICES ASSUME CacheInv, UNCHANGED vars PROVE CacheInv'
  OBVIOUS
<1>1. Phase' = Phase /\ Current' = Current /\ CacheSize' = CacheSize
      /\ \A i : KeyAt(i)' = KeyAt(i) /\ Unmapped(i)' = Unmapped(i)
  BY DEF vars, Phase, Current, CacheSize, KeyAt, Unmapped
<1> QED
  BY <1>1 DEF CacheInv, TypeOK, LockInv, CallInv, ListInv, MapInv, vars

\* A call begins outside of the lock.
LEMMA InvokePreserves ==
  ASSUME CacheInv, NEW t \in Threads, NEW c \in Calls, Invoke(t, c)
  PROVE  CacheInv' /\ Phase' = Phase /\ (Phase # "idle" => Current' = Current)
<1>1. /\ pc[t] = "idle" /\ pc' = [pc EXCEPT ![t] = "enter"]
      /\ call' = [call EXCEPT ![t] = c] /\ c # None
      /\ UNCHANGED <<m_mutex, m_lru_list, node, m_cache, answer>>
      /\ TypeOK /\ LockInv
  BY CacheAssumption DEF Invoke, CacheInv
<1>2. /\ pc'[t] = "enter" /\ \A u \in Threads : u # t => pc'[u] = pc[u]
      /\ call'[t] = c /\ \A u \in Threads : u # t => call'[u] = call[u]
  BY <1>1 DEF TypeOK
<1>3. TypeOK'
  BY <1>1 DEF TypeOK
<1>4. LockInv'
  BY <1>1, <1>2 DEF LockInv
<1>5. m_mutex # t /\ (m_mutex # None => m_mutex \in Threads)
  BY <1>1 DEF LockInv, TypeOK
<1>6. Phase' = Phase /\ (Phase # "idle" => Current' = Current)
  BY <1>1, <1>2, <1>5 DEF Phase, Current
<1>7. \A i : KeyAt(i)' = KeyAt(i) /\ Unmapped(i)' = Unmapped(i)
  BY <1>1, <1>6 DEF KeyAt, Unmapped
<1>8. CacheSize' = CacheSize
  BY <1>1 DEF CacheSize
<1>9. CallInv' /\ ListInv' /\ MapInv'
  BY <1>1, <1>6, <1>7, <1>8 DEF CacheInv, CallInv, ListInv, MapInv
<1> QED
  BY <1>3, <1>4, <1>6, <1>9 DEF CacheInv

\* The lock is taken, and the key looked up in a coherent cache.
LEMMA EnterPreserves ==
  ASSUME CacheInv, NEW t \in Threads, Enter(t)
  PROVE  /\ CacheInv' /\ Phase = "idle" /\ Phase' \in {"found", "miss", "full", "insert"}
         /\ Phase' = "insert" => CacheSize < MaxSize
         /\ Phase' = "insert" \/ Phase' = "full" \/ Phase' = "miss" =>
              m_cache[Current'.key] = None
<1> DEFINE l == IF m_cache[call[t].key] # None THEN "found"
                ELSE IF call[t].op = "get" THEN "miss"
                ELSE IF CacheSize >= MaxSize THEN "full" ELSE "insert"
<1>1. /\ pc[t] = "enter" /\ m_mutex = None /\ m_mutex' = t
      /\ pc' = [pc EXCEPT ![t] = l]
      /\ UNCHANGED <<m_lru_list, node, m_cache, call, answer>>
      /\ TypeOK /\ LockInv /\ l \in Places
  BY DEF Enter, CacheInv, Places
<1>2. t # None /\ call[t] \in Calls
  BY <1>1, CacheAssumption DEF LockInv, TypeOK
<1>3. pc'[t] = l /\ \A u \in Threads : u # t => pc'[u] = pc[u] /\ pc[u] \in {"idle", "enter"}
  BY <1>1, CacheAssumption DEF TypeOK, LockInv
<1>4. TypeOK'
  BY <1>1 DEF TypeOK, Places
<1>5. LockInv'
  BY <1>1, <1>2, <1>3 DEF LockInv, Places
<1>6. Phase = "idle" /\ Phase' = l /\ Current' = call[t]
  BY <1>1, <1>2, <1>3 DEF Phase, Current
<1>7. CacheSize \in Nat /\ MaxSize \in Nat \ {0} /\ Len(m_lru_list) = CacheSize
      /\ Len(m_lru_list) <= MaxSize
  BY <1>6, CacheFacts DEF CacheInv, MapInv
<1>8. call[t].op # "get" => call[t].op = "put"
  BY <1>2 DEF Calls
<1>9. /\ l = "insert" => CacheSize < MaxSize
      /\ l = "full" => Len(m_lru_list) = MaxSize
  BY <1>7
<1>10. CallInv'
  BY <1>1, <1>6, <1>7, <1>8, <1>9 DEF CallInv
<1>11. ListInv' /\ MapInv'
  <2>1. \A i \in DOMAIN m_lru_list : node'[m_lru_list[i]] # None /\ KeyAt(i)' = KeyAt(i)
    BY <1>1 DEF CacheInv, ListInv, KeyAt
  <2> QED  BY <1>1, <1>6, <2>1, DataKept
<1> QED
  BY <1>1, <1>4, <1>5, <1>6, <1>9, <1>10, <1>11 DEF CacheInv

\* A get that finds nothing returns and leaves list and map as they are.
LEMMA MissPreserves ==
  ASSUME CacheInv, NEW t \in Threads, Miss(t)
  PROVE  CacheInv' /\ Phase = "miss" /\ Phase' = "idle" /\ Current = call[t]
<1>1. /\ pc[t] = "miss" /\ pc[t] \in Places /\ Return(t, None) /\ TypeOK /\ LockInv
      /\ UNCHANGED <<m_lru_list, node, m_cache>>
  BY DEF Miss, CacheInv, Places
<1>2. Phase = "miss" /\ Current = call[t]
  BY <1>1, Holder
<1>3. LockInv' /\ Phase' = "idle" /\ TypeOK'
  BY <1>1, ComesBack DEF TypeOK, Places
<1>4. ListInv' /\ MapInv'
  <2>1. \A i \in DOMAIN m_lru_list : node'[m_lru_list[i]] # None /\ KeyAt(i)' = KeyAt(i)
    BY <1>1 DEF CacheInv, ListInv, KeyAt
  <2> QED  BY <1>1, <1>2, <1>3, <2>1, DataKept
<1> QED
  BY <1>2, <1>3, <1>4 DEF CacheInv, CallInv

\* The pairs keep their addresses and their keys; only their order changes.
LEMMA FoundPreserves ==
  ASSUME CacheInv, NEW t \in Threads, Found(t)
  PROVE  /\ CacheInv' /\ Phase = "found" /\ Phase' = "value" /\ Current' = Current
         /\ \E i \in 1 .. Len(m_lru_list) :
              /\ KeyAt(i) = Current.key
              /\ Len(m_lru_list') = Len(m_lru_list)
              /\ m_lru_list'[1] = m_lru_list[i]
              /\ \A j \in 1 .. i - 1 : m_lru_list'[j + 1] = m_lru_list[j]
              /\ \A j \in i + 1 .. Len(m_lru_list) : m_lru_list'[j] = m_lru_list[j]
<1> DEFINE n == Len(m_lru_list)
<1>1. /\ pc[t] = "found" /\ pc[t] \in Places /\ Goto(t, "value") /\ TypeOK /\ LockInv
      /\ UNCHANGED <<node, m_cache>> /\ "value" \in Places
  BY DEF Found, CacheInv, Places
<1>2. Phase = "found" /\ Current = call[t] /\ Current \in Calls
  BY <1>1, Holder
<1>3. /\ LockInv' /\ Phase' = "value" /\ Current' = Current
      /\ m_mutex' \in Threads \cup {None} /\ answer' \in Values \cup {None}
      /\ pc' \in [Threads -> {"idle", "enter"} \cup Places]
      /\ call' \in [Threads -> Calls \cup {None}]
  BY <1>1, GoesOn
<1>4. /\ m_lru_list \in Seq(Nodes) /\ n \in Nat /\ DOMAIN m_lru_list = 1 .. n
      /\ Current.key \in Keys
  BY <1>2, CacheFacts DEF Calls
<1>5. PICK i \in 1 .. n : /\ m_lru_list[i] = m_cache[Current.key]
                          /\ m_lru_list' = <<m_lru_list[i]>> \o RemoveAt(m_lru_list, i)
  BY <1>2, <1>4 DEF Found
<1>6. /\ m_lru_list' \in Seq(Nodes) /\ Len(m_lru_list') = n /\ DOMAIN m_lru_list' = 1 .. n
      /\ m_lru_list'[1] = m_lru_list[i]
      /\ \A j \in 1 .. i - 1 : m_lru_list'[j + 1] = m_lru_list[j]
      /\ \A j \in i + 1 .. n : m_lru_list'[j] = m_lru_list[j]
  BY <1>4, <1>5, Spliced
<1> DEFINE from(j) == IF j = 1 THEN i ELSE IF j <= i THEN j - 1 ELSE j
<1>7. \A j \in 1 .. n : from(j) \in 1 .. n /\ m_lru_list'[j] = m_lru_list[from(j)]
  <2> SUFFICES ASSUME NEW j \in 1 .. n
               PROVE  from(j) \in 1 .. n /\ m_lru_list'[j] = m_lru_list[from(j)]
    OBVIOUS
  <2>1. CASE j = 1
    BY <2>1, <1>6
  <2>2. CASE j # 1 /\ j <= i
    <3>1. j - 1 \in 1 .. i - 1 /\ (j - 1) + 1 = j /\ j - 1 \in 1 .. n
      BY <1>4, <2>2
    <3>2. m_lru_list'[(j - 1) + 1] = m_lru_list[j - 1]
      BY <3>1, <1>6
    <3> QED  BY <3>1, <3>2, <2>2
  <2>3. CASE ~(j <= i)
    BY <1>4, <1>6, <2>3
  <2> QED  BY <2>1, <2>2, <2>3
<1>8. \A j, k \in 1 .. n : from(j) = from(k) => j = k
  BY <1>4
<1>9. \A j \in 1 .. n : \E k \in 1 .. n : from(k) = j
  <2> SUFFICES ASSUME NEW j \in 1 .. n PROVE \E k \in 1 .. n : from(k) = j
    OBVIOUS
  <2>1. CASE j = i
    <3>1. 1 \in 1 .. n /\ from(1) = j
      BY <1>4, <2>1
    <3> QED  BY <3>1
  <2>2. CASE j < i
    <3>1. j + 1 \in 1 .. n /\ from(j + 1) = j
      BY <1>4, <2>2
    <3> QED  BY <3>1
  <2>3. CASE j > i
    <3>1. j \in 1 .. n /\ from(j) = j
      BY <1>4, <2>3
    <3> QED  BY <3>1
  <2> QED  BY <2>1, <2>2, <2>3, <1>4
<1>10. \A j \in 1 .. n : KeyAt(j)' = KeyAt(from(j))
  BY <1>1, <1>7 DEF KeyAt
<1> HIDE DEF from
<1>11. ListInv'
  <2>1. /\ \A j, k \in 1 .. n : m_lru_list[j] = m_lru_list[k] => j = k
        /\ \A j \in 1 .. n : node[m_lru_list[j]] # None
        /\ \A j, k \in 1 .. n : KeyAt(j) = KeyAt(k) => j = k
    BY <1>4 DEF CacheInv, ListInv
  <2>2. \A j, k \in 1 .. n : m_lru_list'[j] = m_lru_list'[k] => j = k
    <3> SUFFICES ASSUME NEW j \in 1 .. n, NEW k \in 1 .. n, m_lru_list'[j] = m_lru_list'[k]
                 PROVE  j = k
      OBVIOUS
    <3>1. /\ from(j) \in 1 .. n /\ m_lru_list'[j] = m_lru_list[from(j)]
          /\ from(k) \in 1 .. n /\ m_lru_list'[k] = m_lru_list[from(k)]
      BY <1>7
    <3>2. from(j) = from(k)
      BY <3>1, <2>1
    <3> QED  BY <3>2, <1>8
  <2>3. \A j \in 1 .. n : node'[m_lru_list'[j]] # None
    BY <2>1, <1>1, <1>7
  <2>4. \A j, k \in 1 .. n : KeyAt(j)' = KeyAt(k)' => j = k
    BY <2>1, <1>7, <1>8, <1>10
  <2> QED  BY <2>2, <2>3, <2>4, <1>6 DEF ListInv
<1>12. /\ \A j \in 1 .. n : m_cache[KeyAt(j)] = m_lru_list[j]
       /\ CacheSize' = CacheSize /\ \A j : ~Unmapped(j)'
  BY <1>1, <1>2, <1>3, <1>4 DEF CacheInv, MapInv, Unmapped, CacheSize
<1>13. MapInv'
  <2>1. ASSUME NEW k \in Keys, m_cache'[k] # None
        PROVE  \E j \in DOMAIN m_lru_list' : m_cache'[k] = m_lru_list'[j] /\ KeyAt(j)' = k
    <3>1. PICK j \in 1 .. n : m_cache[k] = m_lru_list[j] /\ KeyAt(j) = k
      BY <2>1, <1>1, <1>4 DEF CacheInv, MapInv
    <3>2. PICK m \in 1 .. n : from(m) = j
      BY <1>9
    <3> QED  BY <3>1, <3>2, <1>1, <1>6, <1>7, <1>10
  <2>2. \A j \in 1 .. n : m_cache'[KeyAt(j)'] = m_lru_list'[j]
    BY <1>1, <1>7, <1>10, <1>12
  <2>3. /\ IsFiniteSet({k \in Keys : m_cache'[k] # None})
        /\ Len(m_lru_list') = CacheSize' /\ Len(m_lru_list') <= MaxSize
    BY <1>1, <1>2, <1>4, <1>6, <1>12, CacheFacts DEF CacheInv, MapInv
  <2>4. CacheSize' \in Nat /\ Phase' \notin {"pop", "index"}
    BY <1>3, <1>12, CacheFacts
  <2> QED  BY <2>1, <2>2, <2>3, <2>4, <1>6, <1>12 DEF MapInv
<1>14. TypeOK'
  BY <1>1, <1>3, <1>6 DEF TypeOK, CacheInv, Places
<1>15. CallInv'
  BY <1>1, <1>2, <1>3 DEF CallInv, CacheInv
<1>16. KeyAt(i) = Current.key
  <2>1. m_cache[Current.key] # None
    BY <1>2 DEF CacheInv, CallInv
  <2>2. PICK j \in 1 .. n : m_cache[Current.key] = m_lru_list[j] /\ KeyAt(j) = Current.key
    BY <2>1, <1>4 DEF CacheInv, MapInv
  <2>3. i = j
    BY <2>2, <1>4, <1>5 DEF CacheInv, ListInv
  <2> QED  BY <2>2, <2>3
<1> QED
  BY <1>2, <1>3, <1>6, <1>11, <1>13, <1>14, <1>15, <1>16 DEF CacheInv

\* get leaves the pair as it is, and put changes no more than its value.
LEMMA ValuePreserves ==
  ASSUME CacheInv, NEW t \in Threads, Value(t)
  PROVE  /\ CacheInv' /\ Phase = "value" /\ Phase' = "idle" /\ Current = call[t]
         /\ \A i \in 1 .. Len(m_lru_list) : KeyAt(i)' = KeyAt(i)
<1>1. /\ pc[t] = "value" /\ pc[t] \in Places /\ TypeOK /\ LockInv
      /\ UNCHANGED <<m_lru_list, m_cache>>
  BY DEF Value, CacheInv, Places
<1>2. Phase = "value" /\ Current = call[t] /\ Current \in Calls
  BY <1>1, Holder
<1>3. DOMAIN m_lru_list = 1 .. Len(m_lru_list) /\ Current.key \in Keys
  BY <1>2, CacheFacts DEF Calls
<1>4. PICK p \in 1 .. Len(m_lru_list) : /\ m_cache[Current.key] = m_lru_list[p]
                                        /\ KeyAt(p) = Current.key
  BY <1>2, <1>3 DEF CacheInv, CallInv, MapInv
<1> DEFINE n == m_lru_list[p]
<1>5. n \in Nodes /\ node[n] \in Pairs /\ node \in [Nodes -> Pairs \cup {None}]
  BY <1>1, <1>4, CacheFacts DEF TypeOK
<1>6. /\ node' \in [Nodes -> Pairs \cup {None}]
      /\ \A m \in Nodes : /\ node[m] # None => node'[m] # None
                          /\ node[m] # None => node'[m].key = node[m].key
      /\ \E a \in Values \cup {None} : Return(t, a)
  <2>1. CASE call[t].op = "get" /\ Return(t, node[n].value) /\ UNCHANGED node
    BY <2>1, <1>5 DEF Pairs
  <2>2. CASE /\ call[t].op = "put" /\ Return(t, None)
             /\ node' = [node EXCEPT ![n].value = call[t].value]
    <3>1. call[t].value \in Values
      BY <2>2, <1>2 DEF Calls
    <3>2. node'[n] = [node[n] EXCEPT !.value = call[t].value]
      BY <2>2, <1>5
    <3>3. node'[n] \in Pairs /\ node'[n].key = node[n].key
      BY <3>1, <3>2, <1>5 DEF Pairs
    <3>4. \A m \in Nodes : m # n => node'[m] = node[m]
      BY <2>2, <1>5
    <3>5. node' \in [Nodes -> Pairs \cup {None}]
      BY <2>2, <3>3, <3>4, <1>5
    <3> QED  BY <2>2, <3>3, <3>4, <3>5, CacheAssumption
  <2> QED  BY <2>1, <2>2, <1>2, <1>4 DEF Value
<1>7. PICK a \in Values \cup {None} : Return(t, a)
  BY <1>6
<1>8. LockInv' /\ Phase' = "idle" /\ TypeOK'
  BY <1>1, <1>6, <1>7, ComesBack DEF TypeOK, Places
<1>9. \A i \in DOMAIN m_lru_list : node'[m_lru_list[i]] # None /\ KeyAt(i)' = KeyAt(i)
  BY <1>1, <1>3, <1>6, CacheFacts DEF CacheInv, ListInv, KeyAt
<1>10. ListInv' /\ MapInv'
  BY <1>1, <1>2, <1>8, <1>9, DataKept
<1> QED
  BY <1>2, <1>3, <1>8, <1>9, <1>10 DEF CacheInv, CallInv

\* The key of the last pair leaves the map, and the map is one smaller.
LEMMA EvictPreserves ==
  ASSUME CacheInv, NEW t \in Threads, Evict(t)
  PROVE  CacheInv' /\ Phase = "full" /\ Phase' = "pop" /\ Current' = Current
<1> DEFINE n == Len(m_lru_list)
           k0 == KeyAt(n)
           S == {k \in Keys : m_cache[k] # None}
<1>1. /\ pc[t] = "full" /\ pc[t] \in Places /\ Goto(t, "pop") /\ TypeOK /\ LockInv
      /\ UNCHANGED <<m_lru_list, node>> /\ "pop" \in Places
  BY DEF Evict, CacheInv, Places
<1>2. Phase = "full" /\ Current = call[t] /\ Current \in Calls
  BY <1>1, Holder
<1>3. /\ LockInv' /\ Phase' = "pop" /\ Current' = Current
      /\ m_mutex' \in Threads \cup {None} /\ answer' \in Values \cup {None}
      /\ pc' \in [Threads -> {"idle", "enter"} \cup Places]
      /\ call' \in [Threads -> Calls \cup {None}]
  BY <1>1, GoesOn
<1>4. /\ m_lru_list \in Seq(Nodes) /\ n \in Nat /\ DOMAIN m_lru_list = 1 .. n
      /\ n \in 1 .. n /\ Last(m_lru_list) = m_lru_list[n] /\ n = MaxSize
      /\ k0 \in Keys /\ m_lru_list[n] # None /\ Current.key \in Keys
  <2>1. m_lru_list # <<>> /\ n = MaxSize
    BY <1>2, CacheFacts DEF CacheInv, CallInv
  <2> QED  BY <2>1, <1>2, CacheFacts, Popped DEF Calls
<1>5. /\ m_cache' = [m_cache EXCEPT ![k0] = None]
      /\ m_cache \in [Keys -> Nodes \cup {None}]
  BY <1>1, <1>4 DEF Evict, KeyAt, TypeOK
<1>6. /\ m_cache'[k0] = None
      /\ \A k \in Keys : k # k0 => m_cache'[k] = m_cache[k]
      /\ m_cache' \in [Keys -> Nodes \cup {None}]
  BY <1>4, <1>5
<1>7. \A i \in 1 .. n : /\ m_cache[KeyAt(i)] = m_lru_list[i] /\ KeyAt(i) \in Keys
                        /\ i # n => KeyAt(i) # k0
  BY <1>2, <1>4, CacheFacts DEF CacheInv, MapInv, Unmapped, ListInv
<1>8. k0 \in S
  BY <1>4, <1>7
<1>9. {k \in Keys : m_cache'[k] # None} = S \ {k0}
  BY <1>6
<1>10. /\ IsFiniteSet(S \ {k0}) /\ Cardinality(S \ {k0}) = Cardinality(S) - 1
       /\ Cardinality(S) \in Nat
  BY <1>8, FS_RemoveElement, FS_CardinalityType DEF CacheInv, MapInv
<1>11. /\ CacheSize' = CacheSize - 1 /\ CacheSize \in Nat
       /\ n = CacheSize + 0 /\ n <= MaxSize
  BY <1>2, <1>9, <1>10 DEF CacheSize, CacheInv, MapInv
<1>12. \A i : KeyAt(i)' = KeyAt(i)
  BY <1>1 DEF KeyAt
<1> HIDE DEF k0, n
<1>13. MapInv'
  <2>1. ASSUME NEW k \in Keys, m_cache'[k] # None
        PROVE  \E j \in DOMAIN m_lru_list' : m_cache'[k] = m_lru_list'[j] /\ KeyAt(j)' = k
    <3>1. m_cache[k] # None /\ m_cache'[k] = m_cache[k]
      BY <2>1, <1>6
    <3> QED  BY <3>1, <1>1, <1>12 DEF CacheInv, MapInv
  <2>2. \A i \in 1 .. n : m_cache'[KeyAt(i)'] = IF Unmapped(i)' THEN None ELSE m_lru_list'[i]
    <3>1. \A i : Unmapped(i)' <=> i = n
      BY <1>1, <1>3 DEF Unmapped, n
    <3> QED  BY <3>1, <1>1, <1>4, <1>6, <1>7, <1>12 DEF k0
  <2>3. IsFiniteSet({k \in Keys : m_cache'[k] # None})
    BY <1>9, <1>10
  <2>4. /\ Len(m_lru_list') = CacheSize' + (IF Phase' \in {"pop", "index"} THEN 1 ELSE 0)
        /\ Len(m_lru_list') <= MaxSize
    BY <1>1, <1>3, <1>11 DEF n
  <2> QED  BY <2>1, <2>2, <2>3, <2>4, <1>1, <1>4 DEF MapInv
<1>14. ListInv'
  BY <1>1, <1>12 DEF CacheInv, ListInv
<1>15. TypeOK'
  BY <1>1, <1>3, <1>6 DEF TypeOK, CacheInv, Places
<1>16. CallInv'
  <2>1. Current.op = "put" /\ m_cache[Current.key] = None
    BY <1>2 DEF CacheInv, CallInv
  <2>2. m_cache'[Current.key] = None
    BY <2>1, <1>4, <1>6
  <2> QED  BY <2>1, <2>2, <1>1, <1>3, <1>4 DEF CallInv
<1> QED
  BY <1>2, <1>3, <1>13, <1>14, <1>15, <1>16 DEF CacheInv

\* The last pair, which is not in the map any more, leaves the list.
LEMMA PopBackPreserves ==
  ASSUME CacheInv, NEW t \in Threads, PopBack(t)
  PROVE  /\ CacheInv' /\ Phase = "pop" /\ Phase' = "insert" /\ Current' = Current
         /\ Len(m_lru_list') = Len(m_lru_list) - 1
         /\ \A i \in 1 .. Len(m_lru_list) - 1 : /\ m_lru_list'[i] = m_lru_list[i]
                                                /\ node'[m_lru_list[i]] = node[m_lru_list[i]]
<1> DEFINE n == Len(m_lru_list)
<1>1. /\ pc[t] = "pop" /\ pc[t] \in Places /\ Goto(t, "insert") /\ TypeOK /\ LockInv
      /\ UNCHANGED m_cache /\ "insert" \in Places
      /\ m_lru_list' = Front(m_lru_list)
      /\ node' = [node EXCEPT ![Last(m_lru_list)] = None]
  BY DEF PopBack, CacheInv, Places
<1>2. Phase = "pop" /\ Current = call[t] /\ Current \in Calls
  BY <1>1, Holder
<1>3. /\ LockInv' /\ Phase' = "insert" /\ Current' = Current
      /\ m_mutex' \in Threads \cup {None} /\ answer' \in Values \cup {None}
      /\ pc' \in [Threads -> {"idle", "enter"} \cup Places]
      /\ call' \in [Threads -> Calls \cup {None}]
  BY <1>1, GoesOn
<1>4. /\ m_lru_list \in Seq(Nodes) /\ n \in Nat /\ DOMAIN m_lru_list = 1 .. n
      /\ m_lru_list # <<>> /\ n \in 1 .. n /\ Last(m_lru_list) = m_lru_list[n]
      /\ m_lru_list[n] \in Nodes
  <2>1. m_lru_list # <<>>
    BY <1>2, CacheFacts DEF CacheInv, CallInv
  <2> QED  BY <2>1, CacheFacts, Popped
<1>5. /\ m_lru_list' \in Seq(Nodes) /\ Len(m_lru_list') = n - 1
      /\ DOMAIN m_lru_list' = 1 .. n - 1
      /\ \A j \in 1 .. n - 1 : m_lru_list'[j] = m_lru_list[j]
  BY <1>1, <1>4, Popped
<1>6. node' \in [Nodes -> Pairs \cup {None}]
      /\ \A m \in Nodes : m # m_lru_list[n] => node'[m] = node[m]
  BY <1>1, <1>4 DEF TypeOK
<1>7. \A i \in 1 .. n - 1 : /\ i \in 1 .. n /\ i # n /\ m_lru_list[i] \in Nodes
                            /\ m_lru_list[i] # m_lru_list[n]
  <2>1. \A i \in 1 .. n - 1 : i \in 1 .. n /\ i # n
    <3>1. n \in Nat
      BY <1>4
    <3> HIDE DEF n
    <3> QED  BY <3>1
  <2>2. \A i, j \in 1 .. n : m_lru_list[i] = m_lru_list[j] => i = j
    BY <1>4 DEF CacheInv, ListInv
  <2> QED  BY <2>1, <2>2, <1>4, CacheFacts
<1>8. \A i \in 1 .. n - 1 : /\ node'[m_lru_list[i]] = node[m_lru_list[i]]
                            /\ KeyAt(i)' = KeyAt(i)
  BY <1>5, <1>6, <1>7 DEF KeyAt
<1>9. \A i : Unmapped(i) <=> i = n
  BY <1>2 DEF Unmapped
<1>10. \A i : ~Unmapped(i)'
  BY <1>3 DEF Unmapped
<1>11. CacheSize' = CacheSize /\ n = CacheSize + 1 /\ CacheSize \in Nat /\ n <= MaxSize
       /\ MaxSize \in Nat
  BY <1>1, <1>2, CacheFacts DEF CacheSize, CacheInv, MapInv
<1> HIDE DEF n
<1>12. ListInv'
  BY <1>4, <1>5, <1>7, <1>8 DEF CacheInv, ListInv
<1>13. MapInv'
  <2>1. ASSUME NEW k \in Keys, m_cache'[k] # None
        PROVE  \E j \in DOMAIN m_lru_list' : m_cache'[k] = m_lru_list'[j] /\ KeyAt(j)' = k
    <3>1. PICK j \in 1 .. n : m_cache[k] = m_lru_list[j] /\ KeyAt(j) = k
      BY <2>1, <1>1, <1>4 DEF CacheInv, MapInv
    <3>2. j # n
      BY <3>1, <2>1, <1>1, <1>4, <1>9 DEF CacheInv, MapInv
    <3>3. j \in 1 .. n - 1
      BY <3>2, <1>4
    <3> QED  BY <3>1, <3>3, <1>1, <1>5, <1>8
  <2>2. \A i \in 1 .. n - 1 : m_cache'[KeyAt(i)'] = m_lru_list'[i]
    BY <1>1, <1>4, <1>5, <1>7, <1>8, <1>9 DEF CacheInv, MapInv
  <2>3. IsFiniteSet({k \in Keys : m_cache'[k] # None})
    BY <1>1 DEF CacheInv, MapInv
  <2>4. Len(m_lru_list') = CacheSize' + 0 /\ Len(m_lru_list') <= MaxSize
    BY <1>4, <1>5, <1>11
  <2>5. Phase' \notin {"pop", "index"}
    BY <1>3
  <2> QED  BY <2>1, <2>2, <2>3, <2>4, <2>5, <1>5, <1>10 DEF MapInv
<1>14. TypeOK'
  BY <1>1, <1>3, <1>5, <1>6 DEF TypeOK, CacheInv, Places
<1>15. CallInv'
  <2>1. Current.op = "put" /\ m_cache[Current.key] = None
    BY <1>2 DEF CacheInv, CallInv
  <2>2. Len(m_lru_list') < MaxSize
    BY <1>4, <1>5, <1>11
  <2> QED  BY <2>1, <2>2, <1>1, <1>3 DEF CallInv
<1> QED
  BY <1>2, <1>3, <1>5, <1>8, <1>12, <1>13, <1>14, <1>15 DEF CacheInv, n

\* The new pair has an address that no pair of the list has, and a new key.
LEMMA PushFrontPreserves ==
  ASSUME CacheInv, NEW t \in Threads, PushFront(t)
  PROVE  /\ CacheInv' /\ Phase = "insert" /\ Phase' = "index" /\ Current' = Current
         /\ Len(m_lru_list') = Len(m_lru_list) + 1
         /\ node'[m_lru_list'[1]] = [key |-> Current.key, value |-> Current.value]
         /\ \A i \in 1 .. Len(m_lru_list) : /\ m_lru_list'[i + 1] = m_lru_list[i]
                                            /\ node'[m_lru_list[i]] = node[m_lru_list[i]]
<1> DEFINE n == Len(m_lru_list)
           new == [key |-> Current.key, value |-> Current.value]
<1>1. /\ pc[t] = "insert" /\ pc[t] \in Places /\ Goto(t, "index") /\ TypeOK /\ LockInv
      /\ UNCHANGED m_cache /\ "index" \in Places
  BY DEF PushFront, CacheInv, Places
<1>2. Phase = "insert" /\ Current = call[t] /\ Current \in Calls
  BY <1>1, Holder
<1>3. /\ LockInv' /\ Phase' = "index" /\ Current' = Current
      /\ m_mutex' \in Threads \cup {None} /\ answer' \in Values \cup {None}
      /\ pc' \in [Threads -> {"idle", "enter"} \cup Places]
      /\ call' \in [Threads -> Calls \cup {None}]
  BY <1>1, GoesOn
<1>4. PICK a \in Nodes \ ToSet(m_lru_list) :
        /\ m_lru_list' = <<a>> \o m_lru_list
        /\ node' = [node EXCEPT ![a] = new]
  BY <1>2 DEF PushFront
<1>5. /\ m_lru_list \in Seq(Nodes) /\ n \in Nat /\ DOMAIN m_lru_list = 1 .. n
      /\ Current.op = "put" /\ m_cache[Current.key] = None /\ n < MaxSize
      /\ \A i \in 1 .. n : m_lru_list[i] \in Nodes /\ m_lru_list[i] # None
  BY <1>2, CacheFacts DEF CacheInv, CallInv
<1>6. new \in Pairs /\ new # None /\ new.key = Current.key /\ Current.key \in Keys
  BY <1>2, <1>5, CacheAssumption DEF Calls, Pairs
<1>7. /\ m_lru_list' \in Seq(Nodes) /\ Len(m_lru_list') = n + 1
      /\ DOMAIN m_lru_list' = 1 .. n + 1
      /\ m_lru_list'[1] = a
      /\ \A j \in 1 .. n : m_lru_list'[j + 1] = m_lru_list[j]
  BY <1>4, <1>5, Pushed
<1>8. \A j \in 1 .. n : m_lru_list[j] # a
  BY <1>4, <1>5 DEF ToSet
<1> HIDE DEF new
<1>9. /\ node' \in [Nodes -> Pairs \cup {None}] /\ node'[a] = new
      /\ \A j \in 1 .. n : node'[m_lru_list[j]] = node[m_lru_list[j]]
  BY <1>1, <1>4, <1>5, <1>6, <1>8 DEF TypeOK
<1>10. /\ KeyAt(1)' = Current.key
       /\ \A j \in 1 .. n : KeyAt(j + 1)' = KeyAt(j)
  BY <1>6, <1>7, <1>9 DEF KeyAt
<1>11. \A j \in 1 .. n : m_cache[KeyAt(j)] = m_lru_list[j] /\ KeyAt(j) # Current.key
  BY <1>2, <1>5 DEF CacheInv, MapInv, Unmapped
<1>12. \A i \in 1 .. n + 1 : i = 1 \/ \E j \in 1 .. n : i = j + 1
  <2> SUFFICES ASSUME NEW i \in 1 .. n + 1, i # 1 PROVE \E j \in 1 .. n : i = j + 1
    OBVIOUS
  <2>1. i - 1 \in 1 .. n /\ i = (i - 1) + 1
    BY <1>5
  <2> QED  BY <2>1
<1>13. ListInv'
  <2> DEFINE at(i) == m_lru_list'[i]
             key(i) == KeyAt(i)'
  <2>a. /\ \A j, k \in 1 .. n : m_lru_list[j] = m_lru_list[k] => j = k
        /\ \A j, k \in 1 .. n : KeyAt(j) = KeyAt(k) => j = k
    BY <1>5 DEF CacheInv, ListInv
  <2>b. /\ at(1) = a /\ \A j \in 1 .. n : at(j + 1) = m_lru_list[j]
        /\ key(1) = Current.key /\ \A j \in 1 .. n : key(j + 1) = KeyAt(j)
    BY <1>7, <1>10
  <2> HIDE DEF at, key
  <2>c. ASSUME NEW i \in 1 .. n + 1, NEW j \in 1 .. n + 1
        PROVE  (at(i) = at(j) => i = j) /\ (key(i) = key(j) => i = j)
    <3>1. CASE i = 1 /\ j = 1
      BY <3>1
    <3>2. CASE i # 1 /\ j = 1
      <4>1. PICK p \in 1 .. n : i = p + 1
        BY <3>2, <1>12
      <4>2. at(i) # a /\ key(i) # Current.key
        BY <4>1, <2>b, <1>8, <1>11
      <4> QED  BY <4>2, <3>2, <2>b
    <3>3. CASE i = 1 /\ j # 1
      <4>1. PICK q \in 1 .. n : j = q + 1
        BY <3>3, <1>12
      <4>2. at(j) # a /\ key(j) # Current.key
        BY <4>1, <2>b, <1>8, <1>11
      <4> QED  BY <4>2, <3>3, <2>b
    <3>4. CASE i # 1 /\ j # 1
      <4>1. PICK p \in 1 .. n : i = p + 1
        BY <3>4, <1>12
      <4>2. PICK q \in 1 .. n : j = q + 1
        BY <3>4, <1>12
      <4>3. /\ at(i) = m_lru_list[p] /\ at(j) = m_lru_list[q]
            /\ key(i) = KeyAt(p) /\ key(j) = KeyAt(q)
        BY <4>1, <4>2, <2>b
      <4>4. (at(i) = at(j) => p = q) /\ (key(i) = key(j) => p = q)
        BY <4>3, <2>a
      <4> QED  BY <4>1, <4>2, <4>4
    <3> QED  BY <3>1, <3>2, <3>3, <3>4
  <2>1. \A i, j \in 1 .. n + 1 : m_lru_list'[i] = m_lru_list'[j] => i = j
    BY <2>c DEF at
  <2>2. \A i \in 1 .. n + 1 : node'[m_lru_list'[i]] # None
    BY <1>5, <1>6, <1>7, <1>9, <1>12 DEF CacheInv, ListInv
  <2>3. \A i, j \in 1 .. n + 1 : KeyAt(i)' = KeyAt(j)' => i = j
    BY <2>c DEF key
  <2> QED  BY <2>1, <2>2, <2>3, <1>7 DEF ListInv
<1>14. /\ CacheSize' = CacheSize /\ n = CacheSize + 0 /\ n <= MaxSize /\ MaxSize \in Nat
       /\ CacheSize \in Nat
  BY <1>1, <1>2, CacheFacts DEF CacheSize, CacheInv, MapInv
<1>15. MapInv'
  <2>1. ASSUME NEW k \in Keys, m_cache'[k] # None
        PROVE  \E j \in DOMAIN m_lru_list' : m_cache'[k] = m_lru_list'[j] /\ KeyAt(j)' = k
    <3>1. PICK j \in 1 .. n : m_cache[k] = m_lru_list[j] /\ KeyAt(j) = k
      BY <2>1, <1>1, <1>5 DEF CacheInv, MapInv
    <3>2. j + 1 \in 1 .. n + 1
      BY <1>5
    <3> QED  BY <3>1, <3>2, <1>1, <1>7, <1>10
  <2>2. \A i \in 1 .. n + 1 : m_cache'[KeyAt(i)'] = IF Unmapped(i)' THEN None ELSE m_lru_list'[i]
    <3>1. \A i : Unmapped(i)' <=> i = 1
      BY <1>3 DEF Unmapped
    <3>2. \A j \in 1 .. n : j + 1 # 1
      BY <1>5
    <3> QED  BY <3>1, <3>2, <1>1, <1>5, <1>7, <1>10, <1>11, <1>12
  <2>3. IsFiniteSet({k \in Keys : m_cache'[k] # None})
    BY <1>1 DEF CacheInv, MapInv
  <2>4. /\ Len(m_lru_list') = CacheSize' + (IF Phase' \in {"pop", "index"} THEN 1 ELSE 0)
        /\ Len(m_lru_list') <= MaxSize
    BY <1>3, <1>5, <1>7, <1>14
  <2> QED  BY <2>1, <2>2, <2>3, <2>4, <1>7 DEF MapInv
<1>16. TypeOK'
  BY <1>1, <1>3, <1>7, <1>9 DEF TypeOK, CacheInv, Places
<1>17. CallInv'
  <2>1. m_lru_list' # <<>>
    BY <1>5, <1>7
  <2> QED  BY <2>1, <1>1, <1>3, <1>5, <1>10 DEF CallInv
<1> QED
  BY <1>2, <1>3, <1>7, <1>9, <1>13, <1>15, <1>16, <1>17 DEF CacheInv, new, n

\* The key of the new pair enters the map: the two are coherent again.
LEMMA IndexPreserves ==
  ASSUME CacheInv, NEW t \in Threads, Index(t)
  PROVE  CacheInv' /\ Phase = "index" /\ Phase' = "idle" /\ Current = call[t]
<1> DEFINE n == Len(m_lru_list)
           k0 == Current.key
           S == {k \in Keys : m_cache[k] # None}
<1>1. /\ pc[t] = "index" /\ pc[t] \in Places /\ Return(t, None) /\ TypeOK /\ LockInv
      /\ UNCHANGED <<m_lru_list, node>>
  BY DEF Index, CacheInv, Places
<1>2. Phase = "index" /\ Current = call[t] /\ Current \in Calls
  BY <1>1, Holder
<1>3. /\ LockInv' /\ Phase' = "idle"
      /\ m_mutex' \in Threads \cup {None} /\ answer' \in Values \cup {None}
      /\ pc' \in [Threads -> {"idle", "enter"} \cup Places]
      /\ call' \in [Threads -> Calls \cup {None}]
  BY <1>1, ComesBack
<1>4. /\ m_lru_list \in Seq(Nodes) /\ n \in Nat /\ DOMAIN m_lru_list = 1 .. n
      /\ m_lru_list # <<>> /\ 1 \in 1 .. n /\ Head(m_lru_list) = m_lru_list[1]
      /\ m_cache[k0] = None /\ KeyAt(1) = k0 /\ k0 \in Keys
      /\ m_lru_list[1] \in Nodes /\ m_lru_list[1] # None
  <2>1. m_lru_list # <<>> /\ m_cache[k0] = None /\ KeyAt(1) = k0
    BY <1>2 DEF CacheInv, CallInv
  <2>2. m_lru_list \in Seq(Nodes) /\ n \in Nat /\ DOMAIN m_lru_list = 1 .. n /\ n # 0
    BY <2>1, CacheFacts
  <2>3. 1 \in 1 .. n /\ k0 \in Keys
    BY <2>2, <1>2 DEF Calls
  <2>4. Head(m_lru_list) = m_lru_list[1]
    BY <2>1, <2>2
  <2> QED  BY <2>1, <2>2, <2>3, <2>4, CacheFacts
<1>5. /\ m_cache' = [m_cache EXCEPT ![k0] = m_lru_list[1]]
      /\ m_cache \in [Keys -> Nodes \cup {None}]
  BY <1>1, <1>2, <1>4 DEF Index, TypeOK
<1>6. /\ m_cache'[k0] = m_lru_list[1]
      /\ \A k \in Keys : k # k0 => m_cache'[k] = m_cache[k]
      /\ m_cache' \in [Keys -> Nodes \cup {None}]
  BY <1>4, <1>5
<1>7. \A i \in 1 .. n : i # 1 => /\ m_cache[KeyAt(i)] = m_lru_list[i] /\ KeyAt(i) \in Keys
                                 /\ KeyAt(i) # k0
  BY <1>2, <1>4, CacheFacts DEF CacheInv, MapInv, Unmapped, ListInv
<1>8. k0 \notin S /\ {k \in Keys : m_cache'[k] # None} = S \cup {k0}
  BY <1>4, <1>6
<1>9. /\ IsFiniteSet(S \cup {k0}) /\ Cardinality(S \cup {k0}) = Cardinality(S) + 1
      /\ Cardinality(S) \in Nat
  BY <1>8, FS_AddElement, FS_CardinalityType DEF CacheInv, MapInv
<1>10. /\ CacheSize' = CacheSize + 1 /\ CacheSize \in Nat
       /\ n = CacheSize + 1 /\ n <= MaxSize
  BY <1>2, <1>8, <1>9 DEF CacheSize, CacheInv, MapInv
<1>11. \A i : KeyAt(i)' = KeyAt(i)
  BY <1>1 DEF KeyAt
<1>12. ListInv'
  BY <1>1, <1>11 DEF CacheInv, ListInv
<1> HIDE DEF k0, n
<1>13. MapInv'
  <2>1. ASSUME NEW k \in Keys, m_cache'[k] # None
        PROVE  \E j \in DOMAIN m_lru_list' : m_cache'[k] = m_lru_list'[j] /\ KeyAt(j)' = k
    <3>1. CASE k = k0
      BY <3>1, <1>1, <1>4, <1>6, <1>11
    <3>2. CASE k # k0
      <4>1. m_cache[k] # None /\ m_cache'[k] = m_cache[k]
        BY <2>1, <3>2, <1>6
      <4> QED  BY <4>1, <1>1, <1>11 DEF CacheInv, MapInv
    <3> QED  BY <3>1, <3>2
  <2>2. \A i \in 1 .. n : m_cache'[KeyAt(i)'] = m_lru_list'[i]
    BY <1>1, <1>4, <1>6, <1>7, <1>11
  <2>3. \A i : ~Unmapped(i)'
    BY <1>3 DEF Unmapped
  <2>4. IsFiniteSet({k \in Keys : m_cache'[k] # None})
    BY <1>8, <1>9
  <2>5. /\ Len(m_lru_list') = CacheSize' + (IF Phase' \in {"pop", "index"} THEN 1 ELSE 0)
        /\ Len(m_lru_list') <= MaxSize
    BY <1>1, <1>3, <1>10 DEF n
  <2> QED  BY <2>1, <2>2, <2>3, <2>4, <2>5, <1>1, <1>4 DEF MapInv
<1>14. TypeOK'
  BY <1>1, <1>3, <1>6 DEF TypeOK, CacheInv, Places
<1> QED
  BY <1>2, <1>3, <1>12, <1>13, <1>14 DEF CacheInv, CallInv

\* Every step keeps the invariant of the cache.
LEMMA CachePreserves == CacheInv /\ [Next]_vars => CacheInv'
<1> SUFFICES ASSUME CacheInv, [Next]_vars PROVE CacheInv'
  OBVIOUS
<1>1. ASSUME NEW t \in Threads, NEW c \in Calls, Invoke(t, c) PROVE CacheInv'
  BY <1>1, InvokePreserves
<1>2. ASSUME NEW t \in Threads,
             \/ Enter(t) \/ Miss(t) \/ Found(t) \/ Value(t)
             \/ Evict(t) \/ PopBack(t) \/ PushFront(t) \/ Index(t)
      PROVE  CacheInv'
  BY <1>2, EnterPreserves, MissPreserves, FoundPreserves, ValuePreserves, EvictPreserves,
     PopBackPreserves, PushFrontPreserves, IndexPreserves
<1>3. CASE UNCHANGED vars
  BY <1>3, CacheStutters
<1> QED
  BY <1>1, <1>2, <1>3 DEF Next

-----------------------------------------------------------------------------
(* Theorems                                                                *)

\* The inductive invariant.
THEOREM CacheInvariance == Spec => []CacheInv
BY CacheStarts, CachePreserves, PTL DEF Spec

\* Every variable of the cache has its type.
THEOREM CacheTypeCorrect == Spec => []TypeOK
<1>1. CacheInv => TypeOK
  BY DEF CacheInv
<1> QED
  BY <1>1, CacheInvariance, PTL

\* An iterator in the map points to the pair of its key.
LEMMA InMap == CacheInv => NoDanglingIterator
<1> SUFFICES ASSUME CacheInv, NEW k \in Keys, m_cache[k] # None
             PROVE  m_cache[k] \in ToSet(m_lru_list) /\ node[m_cache[k]].key = k
  BY DEF NoDanglingIterator
<1>1. PICK i \in DOMAIN m_lru_list : m_cache[k] = m_lru_list[i] /\ KeyAt(i) = k
  BY DEF CacheInv, MapInv
<1> QED
  BY <1>1 DEF ToSet, KeyAt

\* No iterator in the map dangles, whatever step of a call a thread is at.
THEOREM NeverDangles == Spec => []NoDanglingIterator
BY InMap, CacheInvariance, PTL

\* Outside of calls, a pair of the list is the one the map knows for its key.
LEMMA InList == CacheInv => Coherent
<1> SUFFICES ASSUME CacheInv, m_mutex = None PROVE Coherent
  BY DEF Coherent
<1>1. Phase = "idle" /\ \A i : ~Unmapped(i)
  BY DEF Phase, Unmapped
<1>2. CacheSize \in Nat
  BY CacheFacts
<1> QED
  BY <1>1, <1>2 DEF CacheInv, MapInv, Coherent, KeyAt

\* Between calls the list and the map agree, and the cache is within its size.
THEOREM AlwaysCoherent == Spec => []Coherent
BY InList, CacheInvariance, PTL
-----------------------------------------------------------------------------
(* The history variables                                                   *)

\* A call that returns is the only one that does: it is remembered as the call that
\* used its key last, and that stored its value if it is a put.
LEMMA Remembered ==
  ASSUME CacheInv, HNext, NEW t \in Threads, pc[t] \in Places, NEW a, Return(t, a)
  PROVE  /\ recent' = IF pc[t] = "miss" THEN recent ELSE Lru!MoveToFront(call[t].key)
         /\ latest' = IF call[t].op = "put"
                        THEN [latest EXCEPT ![call[t].key] = call[t].value] ELSE latest
<1>1. pc' = [pc EXCEPT ![t] = "idle"] /\ t \in DOMAIN pc /\ pc[t] # "idle"
  BY DEF Return, CacheInv, TypeOK, Places
<1>2. \A u \in Threads : Returns(u) <=> u = t
  BY <1>1 DEF Returns, CacheInv, TypeOK
<1> DEFINE r == CHOOSE u \in Threads : Returns(u)
<1>3. r \in Threads /\ Returns(r)
  BY <1>2
<1>4. r = t
  BY <1>2, <1>3
<1>5. \E u \in Threads : Returns(u)
  BY <1>2
<1>6. /\ recent' = IF pc[r] = "miss" THEN recent ELSE Lru!MoveToFront(call[r].key)
      /\ latest' = IF call[r].op = "put"
                     THEN [latest EXCEPT ![call[r].key] = call[r].value] ELSE latest
  BY <1>5 DEF HNext
<1> HIDE DEF r
<1> QED
  BY <1>4, <1>6

\* A step within a call changes nothing of what is remembered.
LEMMA Silent ==
  ASSUME CacheInv, HNext, NEW t \in Threads, NEW l, l # "idle", pc' = [pc EXCEPT ![t] = l]
  PROVE  recent' = recent /\ latest' = latest
<1>1. \A u \in Threads : ~Returns(u)
  BY DEF Returns, CacheInv, TypeOK
<1> QED
  BY <1>1 DEF HNext

\* The key of the p-th pair moves to the front, as in the splice of the list.
LEMMA MovedForward ==
  ASSUME OrderInv, NEW p \in 1 .. Len(recent)
  PROVE  LET t == Lru!MoveToFront(recent[p]) IN
         /\ t \in Seq(Keys) /\ Len(t) = Len(recent)
         /\ \A i, j \in 1 .. Len(t) : t[i] = t[j] => i = j
         /\ t[1] = recent[p]
         /\ \A j \in 1 .. p - 1 : t[j + 1] = recent[j]
         /\ \A j \in p + 1 .. Len(recent) : t[j] = recent[j]
<1> DEFINE t == Lru!MoveToFront(recent[p])
           c == CHOOSE i \in DOMAIN recent : recent[i] = recent[p]
           n == Len(recent)
           from(j) == IF j = 1 THEN p ELSE IF j <= p THEN j - 1 ELSE j
<1>1. /\ recent \in Seq(Keys) /\ n \in Nat /\ DOMAIN recent = 1 .. n
      /\ \A i, j \in 1 .. n : recent[i] = recent[j] => i = j
  BY LenProperties DEF OrderInv
<1>2. c \in DOMAIN recent /\ recent[c] = recent[p]
  BY <1>1
<1>3. c = p
  BY <1>1, <1>2
<1>4. recent[p] \in ToSet(recent)
  BY <1>1 DEF ToSet
<1>5. t = <<recent[p]>> \o RemoveAt(recent, p)
  <2>1. recent[p] \in Lru!ToSet(recent)
    BY <1>4 DEF ToSet, Lru!ToSet
  <2>2. t = <<recent[p]>> \o Lru!RemoveAt(recent, c)
    BY <2>1 DEF Lru!MoveToFront
  <2>3. Lru!RemoveAt(recent, p) = RemoveAt(recent, p)
    BY DEF RemoveAt, Lru!RemoveAt
  <2> HIDE DEF c, t
  <2> QED  BY <1>3, <2>2, <2>3
<1>6. /\ t \in Seq(Keys) /\ Len(t) = n
      /\ t[1] = recent[p]
      /\ \A j \in 1 .. p - 1 : t[j + 1] = recent[j]
      /\ \A j \in p + 1 .. n : t[j] = recent[j]
  <2> HIDE DEF t, c
  <2>1. LET r == <<recent[p]>> \o RemoveAt(recent, p) IN
        /\ r \in Seq(Keys) /\ Len(r) = Len(recent) /\ DOMAIN r = 1 .. Len(recent)
        /\ r[1] = recent[p]
        /\ \A j \in 1 .. p - 1 : r[j + 1] = recent[j]
        /\ \A j \in p + 1 .. Len(recent) : r[j] = recent[j]
    <3>1. recent \in Seq(Keys) /\ p \in 1 .. Len(recent)
      BY <1>1
    <3> QED  BY ONLY <3>1, Spliced
  <2> QED  BY <1>5, <2>1
<1> HIDE DEF t, c
<1>7. \A j \in 1 .. n : from(j) \in 1 .. n /\ t[j] = recent[from(j)]
  <2> SUFFICES ASSUME NEW j \in 1 .. n
               PROVE  from(j) \in 1 .. n /\ t[j] = recent[from(j)]
    OBVIOUS
  <2>1. CASE j = 1
    BY <2>1, <1>6
  <2>2. CASE j # 1 /\ j <= p
    <3>1. j - 1 \in 1 .. p - 1 /\ (j - 1) + 1 = j /\ j - 1 \in 1 .. n
      BY <1>1, <2>2
    <3>2. t[(j - 1) + 1] = recent[j - 1]
      BY <3>1, <1>6
    <3> QED  BY <3>1, <3>2, <2>2
  <2>3. CASE ~(j <= p)
    BY <1>1, <1>6, <2>3
  <2> QED  BY <2>1, <2>2, <2>3
<1>8. \A j, k \in 1 .. n : from(j) = from(k) => j = k
  BY <1>1
<1> HIDE DEF from
<1>9. ASSUME NEW i \in 1 .. n, NEW j \in 1 .. n, t[i] = t[j] PROVE i = j
  <2>1. /\ from(i) \in 1 .. n /\ t[i] = recent[from(i)]
        /\ from(j) \in 1 .. n /\ t[j] = recent[from(j)]
    BY <1>7
  <2>2. from(i) = from(j)
    BY <2>1, <1>1, <1>9
  <2> QED  BY <2>2, <1>8
<1> QED
  BY <1>6, <1>9 DEF t

\* A key that was never stored comes to the front.
LEMMA AddedInFront ==
  ASSUME OrderInv, NEW k \in Keys, \A i \in 1 .. Len(recent) : recent[i] # k
  PROVE  LET t == Lru!MoveToFront(k) IN
         /\ t \in Seq(Keys) /\ Len(t) = Len(recent) + 1
         /\ \A i, j \in 1 .. Len(t) : t[i] = t[j] => i = j
         /\ t[1] = k
         /\ \A j \in 1 .. Len(recent) : t[j + 1] = recent[j]
<1> DEFINE t == Lru!MoveToFront(k)
           n == Len(recent)
<1>1. /\ recent \in Seq(Keys) /\ n \in Nat /\ DOMAIN recent = 1 .. n
      /\ \A i, j \in 1 .. n : recent[i] = recent[j] => i = j
  BY LenProperties DEF OrderInv
<1>2. t = <<k>> \o recent
  BY <1>1 DEF Lru!ToSet, Lru!MoveToFront
<1>3. /\ t \in Seq(Keys) /\ Len(t) = n + 1
      /\ t[1] = k
      /\ \A j \in 1 .. n : t[j + 1] = recent[j]
  BY <1>1, <1>2, Pushed
<1> HIDE DEF t
<1>4. \A i \in 1 .. n + 1 : i # 1 => \E j \in 1 .. n : i = j + 1
  <2> SUFFICES ASSUME NEW i \in 1 .. n + 1, i # 1 PROVE \E j \in 1 .. n : i = j + 1
    OBVIOUS
  <2>1. i - 1 \in 1 .. n /\ i = (i - 1) + 1
    <3>1. n \in Nat
      BY <1>1
    <3> HIDE DEF n
    <3> QED  BY <3>1
  <2> QED  BY <2>1
<1>5. ASSUME NEW i \in 1 .. n + 1, NEW j \in 1 .. n + 1, t[i] = t[j] PROVE i = j
  <2>1. CASE i = 1 /\ j = 1
    BY <2>1
  <2>2. CASE i # 1 /\ j = 1
    BY <2>2, <1>3, <1>4, <1>5
  <2>3. CASE i = 1 /\ j # 1
    BY <2>3, <1>3, <1>4, <1>5
  <2>4. CASE i # 1 /\ j # 1
    <3>1. PICK a \in 1 .. n : i = a + 1
      BY <2>4, <1>4
    <3>2. PICK b \in 1 .. n : j = b + 1
      BY <2>4, <1>4
    <3>3. a = b
      BY <3>1, <3>2, <1>1, <1>3, <1>5
    <3> QED  BY <3>1, <3>2, <3>3
  <2> QED  BY <2>1, <2>2, <2>3, <2>4
<1> QED
  BY <1>3, <1>5 DEF t

\* The numbers of the two orders.
LEMMA HistoryFacts ==
  ASSUME HistoryInv
  PROVE  /\ CacheInv /\ OrderInv /\ ValueInv
         /\ recent \in Seq(Keys) /\ Len(recent) \in Nat
         /\ \A i \in 1 .. Len(recent) : recent[i] \in Keys
         /\ Len(m_lru_list) \in Nat /\ MaxSize \in Nat /\ MaxSize - 1 \in Nat
BY LenProperties, CacheFacts DEF HistoryInv, OrderInv

\* Nothing was stored yet, as in the abstract cache.
LEMMA HistoryStarts == HInit => HistoryInv /\ Lru!Init
<1> SUFFICES ASSUME HInit PROVE HistoryInv /\ Lru!Init
  OBVIOUS
<1>1. CacheInv /\ Phase = "idle"
  BY CacheStarts DEF HInit, Init, Phase
<1>2. /\ m_lru_list = <<>> /\ Len(m_lru_list) = 0
      /\ recent = <<>> /\ Len(recent) = 0 /\ recent \in Seq(Keys)
  BY DEF HInit, Init
<1>3. Least(0, MaxSize) = 0
  BY CacheAssumption DEF Least
<1>4. OrderInv
  BY <1>1, <1>2, <1>3 DEF OrderInv, Agrees
<1>5. ValueInv
  BY <1>2 DEF HInit, ValueInv
<1> QED
  BY <1>1, <1>4, <1>5 DEF HistoryInv, Lru!Init, HInit, Init

\* A step that changes neither list nor history leaves the two in order.
LEMMA OrderKept ==
  ASSUME OrderInv, ValueInv, UNCHANGED <<m_lru_list, node, recent, latest>>,
         Phase' = Phase, Phase # "idle" => Current' = Current
  PROVE  OrderInv' /\ ValueInv'
<1>1. \A i : KeyAt(i)' = KeyAt(i)
  BY DEF KeyAt
<1>2. OrderInv'
  BY <1>1 DEF OrderInv, Agrees, Moved, Least
<1>3. ValueInv'
  BY <1>1 DEF ValueInv
<1> QED
  BY <1>2, <1>3

\* A call that begins is no step of the abstract cache.
LEMMA InvokeRefines ==
  ASSUME HistoryInv, HNext, NEW t \in Threads, NEW c \in Calls, Invoke(t, c)
  PROVE  OrderInv' /\ ValueInv' /\ UNCHANGED Lru!lvars
<1>1. CacheInv /\ OrderInv /\ ValueInv
  BY HistoryFacts
<1>2. Phase' = Phase /\ (Phase # "idle" => Current' = Current)
  BY <1>1, InvokePreserves
<1>3. /\ pc' = [pc EXCEPT ![t] = "enter"]
      /\ UNCHANGED <<m_lru_list, node, answer>>
  BY DEF Invoke
<1>4. recent' = recent /\ latest' = latest
  BY <1>1, <1>3, Silent
<1> QED
  BY <1>1, <1>2, <1>3, <1>4, OrderKept DEF Lru!lvars

\* A key that is not in the map is none of the first MaxSize ever stored.
LEMMA EnterRefines ==
  ASSUME HistoryInv, HNext, NEW t \in Threads, Enter(t)
  PROVE  OrderInv' /\ ValueInv' /\ UNCHANGED Lru!lvars
<1> DEFINE n == Least(Len(recent), MaxSize)
<1>1. /\ CacheInv /\ OrderInv /\ ValueInv /\ Len(recent) \in Nat
      /\ MaxSize \in Nat /\ MaxSize - 1 \in Nat
  BY HistoryFacts
<1>2. /\ Phase = "idle" /\ Phase' \in {"found", "miss", "full", "insert"}
      /\ Phase' = "insert" => CacheSize < MaxSize
      /\ Phase' = "insert" \/ Phase' = "full" \/ Phase' = "miss" => m_cache[Current'.key] = None
  BY <1>1, EnterPreserves
<1>3. /\ \E l : l # "idle" /\ pc' = [pc EXCEPT ![t] = l]
      /\ UNCHANGED <<m_lru_list, node, answer>>
  BY DEF Enter
<1>4. recent' = recent /\ latest' = latest
  BY <1>1, <1>3, Silent
<1>5. Len(m_lru_list) = 0 + n /\ \A j \in 1 .. n : KeyAt(0 + j) = recent[j]
  BY <1>1, <1>2 DEF OrderInv, Agrees
<1>6. n \in Nat /\ Len(m_lru_list) = n /\ \A j \in 1 .. n : KeyAt(j) = recent[j]
  <2>1. n \in Nat
    BY <1>1 DEF Least
  <2> HIDE DEF n
  <2>2. \A j \in 1 .. n : 0 + j = j
    BY <2>1
  <2> QED  BY <1>5, <2>1, <2>2
<1>7. Phase' = "insert" => Len(m_lru_list) < MaxSize
  <2>1. Len(m_lru_list) = CacheSize + 0 /\ CacheSize \in Nat
    BY <1>1, <1>2, CacheFacts DEF CacheInv, MapInv
  <2> QED  BY <2>1, <1>2
<1>8. Phase' = "insert" => n = Least(Len(recent), MaxSize - 1)
  BY <1>1, <1>6, <1>7 DEF Least
<1>9. ASSUME Phase' \in {"miss", "full", "insert"},
             NEW i \in 1 .. Len(recent), i <= MaxSize
      PROVE  recent[i] # Current'.key
  <2>1. i \in 1 .. n
    BY <1>1, <1>9 DEF Least
  <2>2. recent[i] = KeyAt(i) /\ i \in DOMAIN m_lru_list /\ m_lru_list[i] # None
    BY <2>1, <1>1, <1>6, CacheFacts
  <2>3. m_cache[KeyAt(i)] = m_lru_list[i]
    BY <2>2, <1>1, <1>2 DEF CacheInv, MapInv, Unmapped
  <2> QED  BY <2>2, <2>3, <1>2, <1>9
<1>10. \A i : KeyAt(i)' = KeyAt(i)
  BY <1>3 DEF KeyAt
<1>11. OrderInv'
  BY <1>1, <1>2, <1>3, <1>4, <1>5, <1>8, <1>9, <1>10 DEF OrderInv, Agrees
<1>12. ValueInv'
  BY <1>1, <1>2, <1>3, <1>4, <1>10 DEF ValueInv
<1> QED
  BY <1>3, <1>4, <1>11, <1>12 DEF Lru!lvars

\* A get that finds nothing is a miss of the abstract cache.
LEMMA MissRefines ==
  ASSUME HistoryInv, HNext, NEW t \in Threads, Miss(t)
  PROVE  OrderInv' /\ ValueInv' /\ Lru!Next
<1>1. CacheInv /\ OrderInv /\ ValueInv /\ Len(recent) \in Nat /\ MaxSize \in Nat
  BY HistoryFacts
<1>2. /\ Phase = "miss" /\ Phase' = "idle" /\ Current = call[t]
  BY <1>1, MissPreserves
<1>3. /\ pc[t] = "miss" /\ pc[t] \in Places /\ Return(t, None)
      /\ UNCHANGED <<m_lru_list, node>>
  BY DEF Miss, Places
<1>4. Current \in Calls /\ Current.op = "get" /\ Current.key \in Keys
  BY <1>1, <1>2, <1>3, Holder DEF CacheInv, CallInv, Calls
<1>5. recent' = recent /\ latest' = latest /\ answer' = None
  <2>1. /\ recent' = IF pc[t] = "miss" THEN recent ELSE Lru!MoveToFront(call[t].key)
        /\ latest' = IF call[t].op = "put"
                       THEN [latest EXCEPT ![call[t].key] = call[t].value] ELSE latest
    BY <1>1, <1>3, Remembered
  <2> QED  BY <2>1, <1>2, <1>3, <1>4 DEF Return
<1>6. \A i : KeyAt(i)' = KeyAt(i)
  BY <1>3 DEF KeyAt
<1>7. OrderInv'
  BY <1>1, <1>2, <1>3, <1>5, <1>6 DEF OrderInv, Agrees
<1>8. ValueInv'
  BY <1>1, <1>2, <1>3, <1>5, <1>6 DEF ValueInv
<1>9. Lru!Miss(Current.key)
  <2>1. \A i \in 1 .. Len(recent) : i <= MaxSize => recent[i] # Current.key
    BY <1>1, <1>2 DEF OrderInv
  <2> QED  BY <2>1, <1>5 DEF Lru!Miss, Lru!Cached
<1> QED
  BY <1>4, <1>7, <1>8, <1>9 DEF Lru!Next

\* The splice moves the pair as the abstract cache will move its key.
LEMMA FoundRefines ==
  ASSUME HistoryInv, HNext, NEW t \in Threads, Found(t)
  PROVE  OrderInv' /\ ValueInv' /\ UNCHANGED Lru!lvars
<1> DEFINE n == Least(Len(recent), MaxSize)
<1>1. /\ CacheInv /\ OrderInv /\ ValueInv /\ Len(recent) \in Nat
      /\ MaxSize \in Nat
  BY HistoryFacts
<1>2. /\ Phase = "found" /\ Phase' = "value" /\ Current' = Current
      /\ \E i \in 1 .. Len(m_lru_list) :
           /\ KeyAt(i) = Current.key
           /\ Len(m_lru_list') = Len(m_lru_list)
           /\ m_lru_list'[1] = m_lru_list[i]
           /\ \A j \in 1 .. i - 1 : m_lru_list'[j + 1] = m_lru_list[j]
           /\ \A j \in i + 1 .. Len(m_lru_list) : m_lru_list'[j] = m_lru_list[j]
  BY <1>1, FoundPreserves
<1>3. pc' = [pc EXCEPT ![t] = "value"] /\ UNCHANGED <<node, answer>>
  BY DEF Found, Goto
<1>4. recent' = recent /\ latest' = latest
  BY <1>1, <1>3, Silent
<1>5. Len(m_lru_list) = 0 + n /\ \A j \in 1 .. n : KeyAt(0 + j) = recent[j]
  BY <1>1, <1>2 DEF OrderInv, Agrees
<1>6. /\ n \in Nat /\ Len(m_lru_list) = n /\ \A j \in 1 .. n : KeyAt(j) = recent[j]
      /\ n <= Len(recent)
  <2>1. n \in Nat /\ n <= Len(recent)
    BY <1>1 DEF Least
  <2> HIDE DEF n
  <2>2. \A j \in 1 .. n : 0 + j = j
    BY <2>1
  <2> QED  BY <1>5, <2>1, <2>2
<1> HIDE DEF n
<1>7. PICK i \in 1 .. n :
        /\ KeyAt(i) = Current.key
        /\ Len(m_lru_list') = n
        /\ m_lru_list'[1] = m_lru_list[i]
        /\ \A j \in 1 .. i - 1 : m_lru_list'[j + 1] = m_lru_list[j]
        /\ \A j \in i + 1 .. n : m_lru_list'[j] = m_lru_list[j]
  BY <1>2, <1>6
<1>8. /\ KeyAt(1)' = recent[i]
      /\ \A j \in 1 .. i - 1 : KeyAt(j + 1)' = recent[j]
      /\ \A j \in i + 1 .. n : KeyAt(j)' = recent[j]
      /\ i \in 1 .. Len(recent) /\ recent[i] = Current.key
  <2>1. /\ \A j \in 1 .. i - 1 : j \in 1 .. n
        /\ \A j \in i + 1 .. n : j \in 1 .. n
        /\ i \in 1 .. Len(recent)
    BY <1>1, <1>6
  <2> QED  BY <2>1, <1>3, <1>6, <1>7 DEF KeyAt
<1>9. OrderInv'
  <2>1. Least(Len(recent'), MaxSize) = n
    BY <1>4 DEF n
  <2>2. /\ Len(m_lru_list') = Least(Len(recent'), MaxSize)
        /\ i \in 1 .. Least(Len(recent'), MaxSize)
        /\ KeyAt(1)' = recent'[i]
        /\ \A j \in 1 .. i - 1 : KeyAt(j + 1)' = recent'[j]
        /\ \A j \in i + 1 .. Least(Len(recent'), MaxSize) : KeyAt(j)' = recent'[j]
        /\ i \in 1 .. Len(recent') /\ recent'[i] = Current'.key
    BY <2>1, <1>2, <1>4, <1>7, <1>8
  <2>3. /\ recent' \in Seq(Keys)
        /\ \A j, k \in 1 .. Len(recent') : recent'[j] = recent'[k] => j = k
    BY <1>1, <1>4 DEF OrderInv
  <2> QED  BY <2>2, <2>3, <1>2 DEF OrderInv, Moved
<1>10. ValueInv'
  <2>1. ASSUME NEW j \in 1 .. n
        PROVE  node'[m_lru_list'[j]].value = latest'[KeyAt(j)']
    <3>1. \E k \in 1 .. n : m_lru_list'[j] = m_lru_list[k]
      <4>1. CASE j = 1
        BY <4>1, <1>7
      <4>2. CASE j # 1 /\ j <= i
        <5>1. j - 1 \in 1 .. i - 1 /\ (j - 1) + 1 = j /\ j - 1 \in 1 .. n
          BY <4>2, <1>6
        <5>2. m_lru_list'[(j - 1) + 1] = m_lru_list[j - 1]
          BY <5>1, <1>7
        <5> QED  BY <5>1, <5>2
      <4>3. CASE ~(j <= i)
        BY <4>3, <1>6, <1>7
      <4> QED  BY <4>1, <4>2, <4>3
    <3>2. PICK k \in 1 .. n : m_lru_list'[j] = m_lru_list[k]
      BY <3>1
    <3>3. node[m_lru_list[k]].value = latest[KeyAt(k)]
      BY <1>1, <1>2, <1>6 DEF ValueInv
    <3> QED  BY <3>2, <3>3, <1>3, <1>4 DEF KeyAt
  <2> QED  BY <2>1, <1>1, <1>2, <1>4, <1>7 DEF ValueInv
<1> QED
  BY <1>3, <1>4, <1>9, <1>10 DEF Lru!lvars

\* get answers with the value stored last, and put replaces that value: a hit, or a
\* put, of the abstract cache.
LEMMA ValueRefines ==
  ASSUME HistoryInv, HNext, NEW t \in Threads, Value(t)
  PROVE  OrderInv' /\ ValueInv' /\ Lru!Next
<1> DEFINE n == Least(Len(recent), MaxSize)
           k0 == Current.key
<1>1. /\ CacheInv /\ OrderInv /\ ValueInv /\ Len(recent) \in Nat /\ MaxSize \in Nat
      /\ TypeOK /\ LockInv
  BY HistoryFacts DEF CacheInv
<1>2. /\ Phase = "value" /\ Phase' = "idle" /\ Current = call[t]
      /\ \A i \in 1 .. Len(m_lru_list) : KeyAt(i)' = KeyAt(i)
  BY <1>1, ValuePreserves
<1>3. pc[t] = "value" /\ pc[t] \in Places /\ m_lru_list' = m_lru_list
  BY DEF Value, Places
<1>4. Current \in Calls /\ k0 \in Keys
  BY <1>1, <1>2, <1>3, Holder DEF Calls
<1>5. PICK p \in 1 .. Len(recent) : recent[p] = k0 /\ Moved(p, n)
  BY <1>1, <1>2 DEF OrderInv
<1>6. n \in Nat /\ n <= Len(recent) /\ n <= MaxSize
  BY <1>1 DEF Least
<1>7. /\ Len(m_lru_list) = n /\ p \in 1 .. n /\ 1 \in 1 .. n
      /\ KeyAt(1) = recent[p]
      /\ \A j \in 1 .. p - 1 : KeyAt(j + 1) = recent[j]
      /\ \A j \in p + 1 .. n : KeyAt(j) = recent[j]
  <2>1. p \in 1 .. n
    BY <1>5 DEF Moved
  <2> HIDE DEF n
  <2>2. 1 \in 1 .. n
    BY <2>1, <1>6
  <2> QED  BY <2>1, <2>2, <1>5 DEF Moved
<1>8. /\ m_cache[k0] = m_lru_list[1] /\ m_lru_list[1] \in Nodes
      /\ node[m_lru_list[1]].value = latest[k0]
      /\ \A i \in 1 .. n : /\ m_lru_list[i] \in Nodes /\ KeyAt(i) \in Keys
                           /\ node[m_lru_list[i]].value = latest[KeyAt(i)]
                           /\ node[m_lru_list[i]] \in Pairs
                           /\ i # 1 => m_lru_list[i] # m_lru_list[1] /\ KeyAt(i) # KeyAt(1)
  <2> HIDE DEF n, k0
  <2>1. KeyAt(1) = k0 /\ ~Unmapped(1) /\ DOMAIN m_lru_list = 1 .. n
    BY <1>1, <1>2, <1>5, <1>7, CacheFacts DEF Unmapped
  <2>2. m_cache[KeyAt(1)] = m_lru_list[1]
    BY <2>1, <1>1, <1>7 DEF CacheInv, MapInv
  <2>3. \A i \in 1 .. n : node[m_lru_list[i]].value = latest[KeyAt(i)]
    BY <1>1, <1>2, <1>7 DEF ValueInv
  <2>4. \A i \in 1 .. n : i # 1 => m_lru_list[i] # m_lru_list[1] /\ KeyAt(i) # KeyAt(1)
    BY <2>1, <1>1, <1>7 DEF CacheInv, ListInv
  <2>5. \A i \in 1 .. n : m_lru_list[i] \in Nodes /\ KeyAt(i) \in Keys /\ node[m_lru_list[i]] \in Pairs
    BY <1>1, <1>7, CacheFacts
  <2> QED  BY <2>1, <2>2, <2>3, <2>4, <2>5, <1>7
<1> DEFINE r == Lru!MoveToFront(recent[p])
<1>9. /\ r \in Seq(Keys) /\ Len(r) = Len(recent)
      /\ \A i, j \in 1 .. Len(r) : r[i] = r[j] => i = j
      /\ r[1] = recent[p]
      /\ \A j \in 1 .. p - 1 : r[j + 1] = recent[j]
      /\ \A j \in p + 1 .. Len(recent) : r[j] = recent[j]
  BY <1>1, MovedForward
<1>10. \E a : Return(t, a)
  BY DEF Value
<1>11. /\ recent' = Lru!MoveToFront(k0)
       /\ latest' = IF call[t].op = "put"
                      THEN [latest EXCEPT ![call[t].key] = call[t].value] ELSE latest
  <2>1. PICK a : Return(t, a)
    BY <1>10
  <2>2. /\ recent' = IF pc[t] = "miss" THEN recent ELSE Lru!MoveToFront(call[t].key)
        /\ latest' = IF call[t].op = "put"
                       THEN [latest EXCEPT ![call[t].key] = call[t].value] ELSE latest
    BY <2>1, <1>1, <1>3, Remembered
  <2> QED  BY <2>2, <1>2, <1>3
<1>12. recent' = r
  BY <1>5, <1>11
<1> HIDE DEF r, n
<1>13. \A j \in 1 .. n : KeyAt(j) = r[j]
  <2> SUFFICES ASSUME NEW j \in 1 .. n PROVE KeyAt(j) = r[j]
    OBVIOUS
  <2>1. CASE j = 1
    BY <2>1, <1>7, <1>9
  <2>2. CASE j # 1 /\ j <= p
    <3>1. j - 1 \in 1 .. p - 1 /\ (j - 1) + 1 = j
      BY <2>2, <1>6
    <3>2. KeyAt((j - 1) + 1) = recent[j - 1] /\ r[(j - 1) + 1] = recent[j - 1]
      BY <3>1, <1>7, <1>9
    <3> QED  BY <3>1, <3>2
  <2>3. CASE ~(j <= p)
    <3>1. j \in p + 1 .. n /\ j \in p + 1 .. Len(recent)
      BY <2>3, <1>1, <1>6
    <3> QED  BY <3>1, <1>7, <1>9
  <2> QED  BY <2>1, <2>2, <2>3
<1>14. OrderInv'
  <2>1. Least(Len(recent'), MaxSize) = n
    BY <1>9, <1>12 DEF n
  <2>2. \A j \in 1 .. n : 0 + j = j
    BY <1>6
  <2>3. /\ Len(m_lru_list') = 0 + Least(Len(recent'), MaxSize)
        /\ \A j \in 1 .. Least(Len(recent'), MaxSize) : KeyAt(0 + j)' = recent'[j]
    BY <2>1, <2>2, <1>2, <1>3, <1>6, <1>7, <1>12, <1>13
  <2>4. /\ recent' \in Seq(Keys)
        /\ \A i, j \in 1 .. Len(recent') : recent'[i] = recent'[j] => i = j
    BY <1>9, <1>12
  <2> QED  BY <2>3, <2>4, <1>2 DEF OrderInv, Agrees
<1>15. /\ latest' \in [Keys -> Values \cup {None}]
       /\ \A i \in 1 .. n : node'[m_lru_list[i]].value = latest'[KeyAt(i)]
       /\ Lru!Hit(k0) \/ \E v \in Values : Lru!Put(k0, v)
  <2>1. CASE call[t].op = "get" /\ Return(t, node[m_cache[call[t].key]].value) /\ UNCHANGED node
    <3>1. latest' = latest /\ node' = node
      BY <2>1, <1>11
    <3>2. Lru!Hit(k0)
      <4>1. Lru!Cached(k0)
        <5>1. p <= MaxSize
          BY <1>1, <1>6, <1>7
        <5> QED  BY <5>1, <1>5 DEF Lru!Cached
      <4>2. answer' = latest[k0]
        BY <2>1, <1>2, <1>8 DEF Return
      <4> QED  BY <4>1, <4>2, <3>1, <1>11 DEF Lru!Hit
    <3> QED  BY <3>1, <3>2, <1>1, <1>8 DEF ValueInv
  <2>2. CASE /\ call[t].op = "put" /\ Return(t, None)
             /\ node' = [node EXCEPT ![m_cache[call[t].key]].value = call[t].value]
    <3> DEFINE v == call[t].value
    <3>1. v \in Values
      BY <2>2, <1>2, <1>4 DEF Calls
    <3>2. latest' = [latest EXCEPT ![k0] = v] /\ answer' = None
      BY <2>2, <1>2, <1>11 DEF Return
    <3>3. latest \in [Keys -> Values \cup {None}]
      BY <1>1 DEF ValueInv
    <3>4. node' = [node EXCEPT ![m_lru_list[1]].value = v]
      BY <2>2, <1>2, <1>8
    <3>5. node \in [Nodes -> Pairs \cup {None}]
      BY <1>1 DEF TypeOK
    <3>a. k0 \in Keys
      BY <1>4
    <3> HIDE DEF k0, v
    <3>6. /\ latest' \in [Keys -> Values \cup {None}]
          /\ latest'[k0] = v /\ \A k \in Keys : k # k0 => latest'[k] = latest[k]
      BY ONLY <3>1, <3>2, <3>3, <3>a
    <3>7. node[m_lru_list[1]] \in Pairs /\ m_lru_list[1] \in Nodes
      BY <1>7, <1>8
    <3>8. node'[m_lru_list[1]].value = v
      BY <3>4, <3>5, <3>7 DEF Pairs
    <3>9. \A m \in Nodes : m # m_lru_list[1] => node'[m] = node[m]
      BY <3>4, <3>5
    <3>10. ASSUME NEW i \in 1 .. n PROVE node'[m_lru_list[i]].value = latest'[KeyAt(i)]
      <4>1. CASE i = 1
        BY <4>1, <3>6, <3>8, <1>5, <1>7
      <4>2. CASE i # 1
        BY <4>2, <3>6, <3>9, <1>5, <1>7, <1>8
      <4> QED  BY <4>1, <4>2
    <3>11. Lru!Put(k0, v)
      BY <3>2, <1>11 DEF Lru!Put
    <3> QED  BY <3>1, <3>6, <3>10, <3>11
  <2> QED  BY <2>1, <2>2 DEF Value
<1>16. ValueInv'
  BY <1>2, <1>3, <1>7, <1>15 DEF ValueInv
<1> QED
  BY <1>4, <1>14, <1>15, <1>16 DEF Lru!Next

\* The key that leaves the map stays in the list until its pair does.
LEMMA EvictRefines ==
  ASSUME HistoryInv, HNext, NEW t \in Threads, Evict(t)
  PROVE  OrderInv' /\ ValueInv' /\ UNCHANGED Lru!lvars
<1>1. CacheInv /\ OrderInv /\ ValueInv
  BY HistoryFacts
<1>2. Phase = "full" /\ Phase' = "pop" /\ Current' = Current
  BY <1>1, EvictPreserves
<1>3. pc' = [pc EXCEPT ![t] = "pop"] /\ UNCHANGED <<m_lru_list, node, answer>>
  BY DEF Evict, Goto
<1>4. recent' = recent /\ latest' = latest
  BY <1>1, <1>3, Silent
<1>5. \A i : KeyAt(i)' = KeyAt(i)
  BY <1>3 DEF KeyAt
<1>6. OrderInv'
  BY <1>1, <1>2, <1>3, <1>4, <1>5 DEF OrderInv, Agrees
<1>7. ValueInv'
  BY <1>1, <1>2, <1>3, <1>4, <1>5 DEF ValueInv
<1> QED
  BY <1>3, <1>4, <1>6, <1>7 DEF Lru!lvars

\* The pair that leaves a full list is that of the least recently used key.
LEMMA PopBackRefines ==
  ASSUME HistoryInv, HNext, NEW t \in Threads, PopBack(t)
  PROVE  OrderInv' /\ ValueInv' /\ UNCHANGED Lru!lvars
<1> DEFINE n == Least(Len(recent), MaxSize)
           m == Least(Len(recent), MaxSize - 1)
<1>1. /\ CacheInv /\ OrderInv /\ ValueInv /\ Len(recent) \in Nat
      /\ MaxSize \in Nat /\ MaxSize - 1 \in Nat
  BY HistoryFacts
<1>2. /\ Phase = "pop" /\ Phase' = "insert" /\ Current' = Current
      /\ Len(m_lru_list') = Len(m_lru_list) - 1
      /\ \A i \in 1 .. Len(m_lru_list) - 1 : /\ m_lru_list'[i] = m_lru_list[i]
                                             /\ node'[m_lru_list[i]] = node[m_lru_list[i]]
  BY <1>1, PopBackPreserves
<1>3. pc' = [pc EXCEPT ![t] = "insert"] /\ answer' = answer
  BY DEF PopBack, Goto
<1>4. recent' = recent /\ latest' = latest
  BY <1>1, <1>3, Silent
<1>5. Len(m_lru_list) = 0 + n /\ \A j \in 1 .. n : KeyAt(0 + j) = recent[j]
  BY <1>1, <1>2 DEF OrderInv, Agrees
<1>6. Len(m_lru_list) = MaxSize
  BY <1>1, <1>2 DEF CacheInv, CallInv
<1>7. m = MaxSize - 1 /\ m \in Nat /\ n = m + 1 /\ Len(m_lru_list) = m + 1
  BY <1>1, <1>5, <1>6 DEF Least
<1> HIDE DEF n, m
<1>8. /\ Len(m_lru_list') = m
      /\ \A j \in 1 .. m : /\ m_lru_list'[j] = m_lru_list[j] /\ 0 + j = j
                           /\ j \in 1 .. Len(m_lru_list)
                           /\ KeyAt(j)' = KeyAt(j) /\ KeyAt(j) = recent[j]
  <2>1. \A j \in 1 .. m : j \in 1 .. n /\ j \in 1 .. Len(m_lru_list) - 1 /\ 0 + j = j
                          /\ j \in 1 .. Len(m_lru_list)
    BY <1>7
  <2>2. \A j \in 1 .. m : KeyAt(j) = recent[j]
    BY <2>1, <1>5
  <2>3. Len(m_lru_list') = m
    BY <1>2, <1>7
  <2> QED  BY <2>1, <2>2, <2>3, <1>2 DEF KeyAt
<1>9. OrderInv'
  <2>1. m = Least(Len(recent'), MaxSize - 1)
    BY <1>4 DEF m
  <2>2. /\ Len(m_lru_list') = 0 + Least(Len(recent'), MaxSize - 1)
        /\ \A j \in 1 .. Least(Len(recent'), MaxSize - 1) : KeyAt(0 + j)' = recent'[j]
    BY <2>1, <1>4, <1>7, <1>8
  <2>3. /\ recent' \in Seq(Keys)
        /\ \A i, j \in 1 .. Len(recent') : recent'[i] = recent'[j] => i = j
        /\ \A i \in 1 .. Len(recent') : i <= MaxSize => recent'[i] # Current'.key
    BY <1>1, <1>2, <1>4 DEF OrderInv
  <2> QED  BY <2>2, <2>3, <1>2 DEF OrderInv, Agrees
<1>10. ValueInv'
  <2>1. \A j \in 1 .. m : node'[m_lru_list'[j]].value = latest'[KeyAt(j)']
    <3>1. \A j \in 1 .. m : j \in 1 .. Len(m_lru_list) - 1
      BY <1>7
    <3> QED  BY <3>1, <1>1, <1>2, <1>4, <1>8 DEF ValueInv
  <2> QED  BY <2>1, <1>1, <1>2, <1>4, <1>8 DEF ValueInv
<1> QED
  BY <1>3, <1>4, <1>9, <1>10 DEF Lru!lvars

\* The new pair is ahead of the pairs of the most recently used keys.
LEMMA PushFrontRefines ==
  ASSUME HistoryInv, HNext, NEW t \in Threads, PushFront(t)
  PROVE  OrderInv' /\ ValueInv' /\ UNCHANGED Lru!lvars
<1> DEFINE m == Least(Len(recent), MaxSize - 1)
<1>1. /\ CacheInv /\ OrderInv /\ ValueInv /\ Len(recent) \in Nat
      /\ MaxSize \in Nat /\ MaxSize - 1 \in Nat
  BY HistoryFacts
<1>2. /\ Phase = "insert" /\ Phase' = "index" /\ Current' = Current
      /\ Len(m_lru_list') = Len(m_lru_list) + 1
      /\ node'[m_lru_list'[1]] = [key |-> Current.key, value |-> Current.value]
      /\ \A i \in 1 .. Len(m_lru_list) : /\ m_lru_list'[i + 1] = m_lru_list[i]
                                         /\ node'[m_lru_list[i]] = node[m_lru_list[i]]
  BY <1>1, PushFrontPreserves
<1>3. pc' = [pc EXCEPT ![t] = "index"] /\ answer' = answer
  BY DEF PushFront, Goto
<1>4. recent' = recent /\ latest' = latest
  BY <1>1, <1>3, Silent
<1>5. Len(m_lru_list) = 0 + m /\ \A j \in 1 .. m : KeyAt(0 + j) = recent[j]
  BY <1>1, <1>2 DEF OrderInv, Agrees
<1>6. m \in Nat
  BY <1>1 DEF Least
<1> HIDE DEF m
<1>7. Len(m_lru_list) = m /\ \A j \in 1 .. m : 0 + j = j /\ 1 + j = j + 1 /\ j + 1 # 1
  BY <1>5, <1>6
<1>8. /\ Len(m_lru_list') = 1 + m
      /\ \A j \in 1 .. m : KeyAt(1 + j)' = recent[j]
      /\ node'[m_lru_list'[1]].value = Current.value
      /\ \A j \in 1 .. m : node'[m_lru_list'[j + 1]].value = latest[KeyAt(j + 1)']
  <2>1. \A j \in 1 .. m : node'[m_lru_list'[j + 1]] = node[m_lru_list[j]]
    BY <1>2, <1>7
  <2>2. \A j \in 1 .. m : node[m_lru_list[j]].value = latest[KeyAt(j)] /\ KeyAt(j) = recent[j]
    BY <1>1, <1>2, <1>5, <1>7 DEF ValueInv
  <2>3. Len(m_lru_list') = 1 + m
    BY <1>2, <1>6, <1>7
  <2>4. \A j \in 1 .. m : KeyAt(j + 1)' = KeyAt(j)
    BY <2>1 DEF KeyAt
  <2> QED  BY <2>1, <2>2, <2>3, <2>4, <1>2, <1>7
<1>9. OrderInv'
  <2>1. m = Least(Len(recent'), MaxSize - 1)
    BY <1>4 DEF m
  <2>2. /\ Len(m_lru_list') = 1 + Least(Len(recent'), MaxSize - 1)
        /\ \A j \in 1 .. Least(Len(recent'), MaxSize - 1) : KeyAt(1 + j)' = recent'[j]
    BY <2>1, <1>4, <1>8
  <2>3. /\ recent' \in Seq(Keys)
        /\ \A i, j \in 1 .. Len(recent') : recent'[i] = recent'[j] => i = j
        /\ \A i \in 1 .. Len(recent') : i <= MaxSize => recent'[i] # Current'.key
    BY <1>1, <1>2, <1>4 DEF OrderInv
  <2> QED  BY <2>2, <2>3, <1>2 DEF OrderInv, Agrees
<1>10. ValueInv'
  <2>1. ASSUME NEW i \in 1 .. 1 + m
        PROVE  node'[m_lru_list'[i]].value = IF i = 1 THEN Current.value ELSE latest[KeyAt(i)']
    <3>1. CASE i = 1
      BY <3>1, <1>8
    <3>2. CASE i # 1
      <4>1. i - 1 \in 1 .. m /\ (i - 1) + 1 = i
        BY <3>2, <1>6
      <4> DEFINE ok(j) == node'[m_lru_list'[j]].value = latest[KeyAt(j)']
      <4>2. \A j \in 1 .. m : ok(j + 1)
        BY <1>8
      <4> HIDE DEF ok
      <4>3. ok(i)
        BY <4>1, <4>2
      <4> QED  BY <4>3, <3>2 DEF ok
    <3> QED  BY <3>1, <3>2
  <2> QED  BY <2>1, <1>1, <1>2, <1>4, <1>8 DEF ValueInv
<1> QED
  BY <1>3, <1>4, <1>9, <1>10 DEF Lru!lvars

\* The new pair is in the map: a put of the abstract cache.  If its key was stored
\* before and evicted, it comes back from beyond the first MaxSize keys.
LEMMA IndexRefines ==
  ASSUME HistoryInv, HNext, NEW t \in Threads, Index(t)
  PROVE  OrderInv' /\ ValueInv' /\ Lru!Next
<1> DEFINE m == Least(Len(recent), MaxSize - 1)
           k0 == Current.key
           v == Current.value
           r == Lru!MoveToFront(k0)
<1>1. /\ CacheInv /\ OrderInv /\ ValueInv /\ Len(recent) \in Nat
      /\ MaxSize \in Nat /\ MaxSize - 1 \in Nat
  BY HistoryFacts
<1>2. Phase = "index" /\ Phase' = "idle" /\ Current = call[t]
  BY <1>1, IndexPreserves
<1>3. /\ pc[t] = "index" /\ pc[t] \in Places /\ Return(t, None)
      /\ UNCHANGED <<m_lru_list, node>>
  BY DEF Index, Places
<1>4. Current.op = "put" /\ k0 \in Keys /\ v \in Values
  <2>1. Current \in Calls /\ Current.op = "put"
    BY <1>1, <1>2, <1>3, Holder DEF CacheInv, CallInv
  <2> QED  BY <2>1 DEF Calls
<1>5. recent' = r /\ latest' = [latest EXCEPT ![k0] = v] /\ answer' = None
  <2>1. /\ recent' = IF pc[t] = "miss" THEN recent ELSE Lru!MoveToFront(call[t].key)
        /\ latest' = IF call[t].op = "put"
                       THEN [latest EXCEPT ![call[t].key] = call[t].value] ELSE latest
    BY <1>1, <1>3, Remembered
  <2> QED  BY <2>1, <1>2, <1>3, <1>4 DEF Return
<1>6. Len(m_lru_list) = 1 + m /\ \A j \in 1 .. m : KeyAt(1 + j) = recent[j]
  BY <1>1, <1>2 DEF OrderInv, Agrees
<1>7. KeyAt(1) = k0
  BY <1>1, <1>2 DEF CacheInv, CallInv
<1>8. \A i \in 1 .. Len(recent) : i <= MaxSize => recent[i] # k0
  BY <1>1, <1>2 DEF OrderInv
<1>9. /\ m \in Nat /\ m <= Len(recent) /\ m <= MaxSize - 1
      /\ Least(Len(recent) + 1, MaxSize) = m + 1
      /\ MaxSize <= Len(recent) => m = MaxSize - 1 /\ Least(Len(recent), MaxSize) = m + 1
  BY <1>1 DEF Least
<1> HIDE DEF m, k0, v, r
<1>10. /\ r \in Seq(Keys) /\ Least(Len(r), MaxSize) = m + 1
       /\ \A i, j \in 1 .. Len(r) : r[i] = r[j] => i = j
       /\ r[1] = k0 /\ \A j \in 1 .. m : r[j + 1] = recent[j]
  <2>1. CASE \A i \in 1 .. Len(recent) : recent[i] # k0
    <3>1. /\ r \in Seq(Keys) /\ Len(r) = Len(recent) + 1
          /\ \A i, j \in 1 .. Len(r) : r[i] = r[j] => i = j
          /\ r[1] = k0 /\ \A j \in 1 .. Len(recent) : r[j + 1] = recent[j]
      BY <2>1, <1>1, <1>4, AddedInFront DEF r
    <3>2. \A j \in 1 .. m : j \in 1 .. Len(recent)
      BY <1>1, <1>9
    <3> QED  BY <3>1, <3>2, <1>9
  <2>2. CASE \E p \in 1 .. Len(recent) : recent[p] = k0
    <3>1. PICK p \in 1 .. Len(recent) : recent[p] = k0
      BY <2>2
    <3> DEFINE q == Lru!MoveToFront(recent[p])
    <3>2. /\ q \in Seq(Keys) /\ Len(q) = Len(recent)
          /\ \A i, j \in 1 .. Len(q) : q[i] = q[j] => i = j
          /\ q[1] = recent[p]
          /\ \A j \in 1 .. p - 1 : q[j + 1] = recent[j]
      BY <1>1, MovedForward
    <3>3. q = r
      BY <3>1 DEF r
    <3> HIDE DEF q
    <3>4. p > MaxSize
      BY <3>1, <1>1, <1>8
    <3>5. m = MaxSize - 1 /\ Least(Len(recent), MaxSize) = m + 1
      BY <3>4, <1>1, <1>9
    <3>6. \A j \in 1 .. m : j \in 1 .. p - 1
      BY <3>4, <3>5, <1>1
    <3> QED  BY <3>1, <3>2, <3>3, <3>5, <3>6
  <2> QED  BY <2>1, <2>2
<1>11. \A i : KeyAt(i)' = KeyAt(i)
  BY <1>3 DEF KeyAt
<1>12. \A i \in 1 .. m + 1 : i # 1 => i - 1 \in 1 .. m /\ (i - 1) + 1 = i /\ 1 + (i - 1) = i
  BY <1>9
<1>13. OrderInv'
  <2>1. ASSUME NEW i \in 1 .. m + 1 PROVE KeyAt(i)' = recent'[i] /\ 0 + i = i
    <3>1. CASE i = 1
      BY <3>1, <1>5, <1>7, <1>10, <1>11
    <3>2. CASE i # 1
      <4>1. KeyAt(1 + (i - 1)) = recent[i - 1] /\ r[(i - 1) + 1] = recent[i - 1]
        BY <3>2, <1>6, <1>10, <1>12
      <4>2. KeyAt(i) = r[i]
        BY <4>1, <3>2, <1>12
      <4> QED  BY <4>2, <1>5, <1>9, <1>11
    <3> QED  BY <3>1, <3>2
  <2>2. Least(Len(recent'), MaxSize) = m + 1
    BY <1>5, <1>10
  <2>3. /\ Len(m_lru_list') = 0 + Least(Len(recent'), MaxSize)
        /\ \A j \in 1 .. Least(Len(recent'), MaxSize) : KeyAt(0 + j)' = recent'[j]
    <3>1. 1 + m = 0 + (m + 1)
      BY <1>9
    <3> QED  BY <3>1, <2>1, <2>2, <1>3, <1>6
  <2>4. /\ recent' \in Seq(Keys)
        /\ \A i, j \in 1 .. Len(recent') : recent'[i] = recent'[j] => i = j
    BY <1>5, <1>10
  <2> QED  BY <2>3, <2>4, <1>2 DEF OrderInv, Agrees
<1>14. ValueInv'
  <2>1. /\ latest' \in [Keys -> Values \cup {None}]
        /\ latest'[k0] = v /\ \A k \in Keys : k # k0 => latest'[k] = latest[k]
    BY <1>1, <1>4, <1>5 DEF ValueInv
  <2>2. /\ node[m_lru_list[1]].value = v
        /\ \A i \in 1 .. Len(m_lru_list) : i # 1 => node[m_lru_list[i]].value = latest[KeyAt(i)]
    <3>1. 1 \in 1 .. Len(m_lru_list)
      BY <1>6, <1>9
    <3> QED  BY <3>1, <1>1, <1>2 DEF ValueInv, v
  <2>3. \A i \in 1 .. Len(m_lru_list) : KeyAt(i) \in Keys /\ (i # 1 => KeyAt(i) # k0)
    <3>1. DOMAIN m_lru_list = 1 .. Len(m_lru_list) /\ 1 \in 1 .. Len(m_lru_list)
      BY <1>1, <1>6, <1>9, CacheFacts
    <3> QED  BY <3>1, <1>1, <1>7, CacheFacts DEF CacheInv, ListInv
  <2>4. \A i \in 1 .. Len(m_lru_list) : node[m_lru_list[i]].value = latest'[KeyAt(i)]
    BY <2>1, <2>2, <2>3, <1>7
  <2> QED  BY <2>1, <2>4, <1>2, <1>3, <1>11 DEF ValueInv
<1>15. Lru!Put(k0, v)
  BY <1>5 DEF Lru!Put, r
<1> QED
  BY <1>4, <1>13, <1>14, <1>15 DEF Lru!Next

\* Every step keeps the orders, and is a step of the abstract cache or none.
LEMMA StepRefines ==
  ASSUME HistoryInv, [HNext]_hvars
  PROVE  HistoryInv' /\ [Lru!Next]_(Lru!lvars)
<1>1. CacheInv /\ OrderInv /\ ValueInv
  BY HistoryFacts
<1>2. CacheInv'
  BY <1>1, CachePreserves DEF HNext, hvars
<1>3. CASE UNCHANGED hvars
  <2>1. /\ UNCHANGED <<m_lru_list, node, recent, latest, answer>>
        /\ Phase' = Phase /\ Current' = Current
    BY <1>3 DEF hvars, vars, Phase, Current
  <2> QED  BY <2>1, <1>1, <1>2, OrderKept DEF HistoryInv, Lru!lvars
<1>4. CASE HNext
  <2>1. ASSUME NEW t \in Threads, NEW c \in Calls, Invoke(t, c)
        PROVE  OrderInv' /\ ValueInv' /\ [Lru!Next]_(Lru!lvars)
    BY <2>1, <1>4, InvokeRefines
  <2>2. ASSUME NEW t \in Threads, Enter(t) \/ Found(t) \/ Evict(t) \/ PopBack(t) \/ PushFront(t)
        PROVE  OrderInv' /\ ValueInv' /\ [Lru!Next]_(Lru!lvars)
    BY <2>2, <1>4, EnterRefines, FoundRefines, EvictRefines, PopBackRefines, PushFrontRefines
  <2>3. ASSUME NEW t \in Threads, Miss(t) \/ Value(t) \/ Index(t)
        PROVE  OrderInv' /\ ValueInv' /\ [Lru!Next]_(Lru!lvars)
    BY <2>3, <1>4, MissRefines, ValueRefines, IndexRefines
  <2>4. OrderInv' /\ ValueInv' /\ [Lru!Next]_(Lru!lvars)
    BY <2>1, <2>2, <2>3, <1>4 DEF HNext, Next
  <2> QED  BY <2>4, <1>2 DEF HistoryInv
<1> QED
  BY <1>3, <1>4

-----------------------------------------------------------------------------
(* Theorems about the cache and its history                                *)

\* The inductive invariant of the cache with its history.
THEOREM HistoryInvariance == HSpec => []HistoryInv
<1>1. HistoryInv /\ [HNext]_hvars => HistoryInv'
  BY StepRefines
<1> QED
  BY <1>1, HistoryStarts, PTL DEF HSpec

\* The history variables only watch: the cache behaves as without them, and all that
\* is proved of it holds.
THEOREM HistoryWatches == HSpec => Spec
<1>1. HInit => Init
  BY DEF HInit
<1>2. [HNext]_hvars => [Next]_vars
  BY DEF HNext, hvars
<1> QED
  BY <1>1, <1>2, PTL DEF HSpec, Spec

\* However the calls of the threads interleave, with however many keys and whatever
\* the size, every get is answered as LruSpec answers it: get and put (36-63) drop
\* nothing but the least recently used key, and never return a value that is not the
\* one stored last.
THEOREM CacheIsLru == HSpec => ImplementsLru
<1>1. HInit => Lru!Init
  BY HistoryStarts
<1>2. HistoryInv /\ [HNext]_hvars => [Lru!Next]_(Lru!lvars)
  BY StepRefines
<1> QED
  BY <1>1, <1>2, HistoryInvariance, PTL DEF HSpec, ImplementsLru, Lru!Spec
=============================================================================
