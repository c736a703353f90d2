-------------------------- MODULE PluginRegistryProofs --------------------------
(***************************************************************************)
(* For any libraries, directories and names, and any number of loads:      *)
(* what PluginManager and PluginRegistry promise.                          *)
(***************************************************************************)
EXTENDS PluginRegistry, SequenceTheorems, FiniteSetTheorems, TLAPS

\* What Balanced leaves open: in the middle of an unload, or of the destructor, the
\* handle that is closed next is still in m_handles (the first one, in the
\* destructor); a load is neither; a live instance knows its handle's library; and
\* only a living manager lists instances.
ManagerInv ==
  /\ ManagerTypeOK
  /\ Balanced
  /\ closing # None => closing \in ToSet(m_handles) /\ loading = None /\ life # "over"
  /\ closing # None /\ life = "ending" => closing = m_handles[1]
  /\ loading # None => life = "alive"
  /\ life = "over" => m_handles = <<>>
  /\ \A h \in ToSet(m_handles) : h # closing => made_by[h.instance] = h.handle
  /\ life = "alive" => m_plugins = [j \in DOMAIN m_handles |-> m_handles[j].instance]

\* The handle k is of a plugin of the name n that a scan has loaded.
Filed(n, k) == NameOf[m_handles[k].handle] = n /\ m_handles[k].instance \notin direct

\* The registry has nothing for the name n, or the instance of the handle j, and
\* no scan has loaded one of that name later.
Newest(n, j) ==
  /\ Filed(n, j)
  /\ m_registry[n] = m_handles[j].instance
  /\ \A k \in DOMAIN m_handles : Filed(n, k) => k <= j

Mirrored(n) ==
  \/ m_registry[n] = None /\ \A k \in DOMAIN m_handles : ~Filed(n, k)
  \/ \E j \in DOMAIN m_handles : Newest(n, j)

RegistryInv ==
  /\ TypeOK
  /\ ManagerInv
  /\ todo # None => life = "alive" /\ closing = None
  /\ life = "alive" /\ closing # None => unloaded
  /\ life = "alive" /\ ~unloaded => \A n \in Names : Mirrored(n)

-----------------------------------------------------------------------------
(* Vectors and their elements                                              *)

\* A vector has finitely many elements, each at one of its positions.
LEMMA Elements ==
  ASSUME NEW S, NEW s \in Seq(S)
  PROVE  /\ IsFiniteSet(ToSet(s))
         /\ ToSet(s) \subseteq S
         /\ DOMAIN s = 1 .. Len(s) /\ Len(s) \in Nat
         /\ \A e : e \in ToSet(s) <=> \E j \in 1 .. Len(s) : s[j] = e
<1>1. DOMAIN s = 1 .. Len(s) /\ Len(s) \in Nat /\ \A j \in 1 .. Len(s) : s[j] \in S
  BY LenProperties
<1>2. IsFiniteSet(1 .. Len(s))
  BY <1>1, FS_Interval
<1>3. s \in Surjection(1 .. Len(s), ToSet(s))
  BY <1>1, LenProperties DEF Surjection, ToSet
<1>4. IsFiniteSet(ToSet(s))
  BY <1>2, <1>3, FS_Surjection
<1> QED
  BY <1>1, <1>4 DEF ToSet

\* push_back adds one element at the end.
LEMMA PushBack ==
  ASSUME NEW S, NEW s \in Seq(S), NEW e \in S
  PROVE  /\ Append(s, e) \in Seq(S) /\ Len(Append(s, e)) = Len(s) + 1
         /\ DOMAIN Append(s, e) = 1 .. Len(s) + 1
         /\ \A j \in 1 .. Len(s) : Append(s, e)[j] = s[j]
         /\ Append(s, e)[Len(s) + 1] = e
         /\ ToSet(Append(s, e)) = ToSet(s) \cup {e}
<1> DEFINE t == Append(s, e)
<1>1. /\ t \in Seq(S) /\ Len(t) = Len(s) + 1 /\ Len(s) \in Nat
      /\ \A j \in 1 .. Len(s) : t[j] = s[j]
      /\ t[Len(s) + 1] = e
  BY AppendProperties, LenProperties
<1>2. DOMAIN t = 1 .. Len(s) + 1
  BY <1>1, LenProperties
<1>3. \A x : x \in ToSet(s) <=> \E j \in 1 .. Len(s) : s[j] = x
  BY Elements
<1> HIDE DEF t
<1>4. \A x : x \in ToSet(t) <=> \E j \in 1 .. Len(s) + 1 : t[j] = x
  <2>1. \A x : x \in ToSet(t) <=> \E j \in 1 .. Len(t) : t[j] = x
    BY <1>1, Elements
  <2> QED  BY <2>1, <1>1
<1>5. \A x : x \in ToSet(t) <=> x \in ToSet(s) \/ x = e
  <2>1. ASSUME NEW x, x \in ToSet(t) PROVE x \in ToSet(s) \/ x = e
    <3>1. PICK j \in 1 .. Len(s) + 1 : t[j] = x
      BY <2>1, <1>4
    <3> QED  BY <3>1, <1>1, <1>3
  <2>2. ASSUME NEW x, x \in ToSet(s) PROVE x \in ToSet(t)
    <3>1. PICK j \in 1 .. Len(s) : s[j] = x
      BY <2>2, <1>3
    <3>2. j \in 1 .. Len(s) + 1 /\ t[j] = x
      BY <3>1, <1>1
    <3> QED  BY <3>2, <1>4
  <2>3. Len(s) + 1 \in 1 .. Len(s) + 1 /\ t[Len(s) + 1] = e
    BY <1>1
  <2> QED  BY <2>1, <2>2, <2>3, <1>4
<1>6. ToSet(t) = ToSet(s) \cup {e}
  BY <1>5
<1> QED
  BY <1>1, <1>2, <1>6 DEF t

\* Min and Max of some numbers of the positions of a sequence.
LEMMA LeastAndGreatest ==
  ASSUME NEW n \in Nat, NEW S \in SUBSET (1 .. n), S # {}
  PROVE  /\ Min(S) \in S /\ \A x \in S : Min(S) <= x
         /\ Max(S) \in S /\ \A x \in S : Max(S) >= x
<1> DEFINE Less == {p \in Nat \X Nat : p[1] < p[2]}
           Gaps == {n - x : x \in S}
<1>1. IsWellFoundedOn(Less, Nat)
  BY NatLessThanWellFounded DEF OpToRel
<1>2. \A x, y : <<x, y>> \in Less <=> x \in Nat /\ y \in Nat /\ x < y
  OBVIOUS
<1> HIDE DEF Less
<1>3. \E x \in S : \A y \in S : x <= y
  <2>1. S \subseteq Nat
    OBVIOUS
  <2>2. PICK x \in S : \A y \in S : ~(<<y, x>> \in Less)
    BY <1>1, <2>1, WFMin
  <2>3. ASSUME NEW y \in S PROVE x <= y
    <3>1. x \in Nat /\ y \in Nat /\ ~(<<y, x>> \in Less)
      BY <2>1, <2>2
    <3> QED  BY <3>1, <1>2
  <2> QED  BY <2>3
<1>4. \E x \in S : \A y \in S : x >= y
  <2>1. Gaps \subseteq Nat /\ Gaps # {}
    <3>1. \A x \in S : n - x \in Nat
      OBVIOUS
    <3> QED  BY <3>1
  <2>2. PICK r \in Gaps : \A y \in Gaps : ~(<<y, r>> \in Less)
    BY <1>1, <2>1, WFMin
  <2>3. PICK x \in S : r = n - x
    BY <2>2
  <2>4. ASSUME NEW y \in S PROVE x >= y
    <3>1. n - y \in Gaps /\ n - y \in Nat /\ r \in Nat
      BY <2>1
    <3>2. ~(n - y < r)
      BY <3>1, <2>2, <1>2
    <3> QED  BY <3>2, <2>3
  <2> QED  BY <2>4
<1> QED
  BY <1>3, <1>4 DEF Min, Max

\* A vector without its element i: the elements before it stay, the others move up
\* by one; if no element was in it twice, the one that went is in it no more.
LEMMA Without ==
  ASSUME NEW S, NEW s \in Seq(S), NEW i \in 1 .. Len(s), NEW t \in Seq(S),
         Len(t) = Len(s) - 1,
         \A k \in 1 .. Len(s) - 1 : t[k] = IF k < i THEN s[k] ELSE s[k + 1],
         \A j, k \in 1 .. Len(s) : s[j] = s[k] => j = k
  PROVE  ToSet(t) = ToSet(s) \ {s[i]}
<1>1. Len(s) \in Nat /\ Len(t) \in Nat
  BY LenProperties
<1>2. \A x : x \in ToSet(s) <=> \E j \in 1 .. Len(s) : s[j] = x
  BY Elements
<1>3. \A x : x \in ToSet(t) <=> \E j \in 1 .. Len(s) - 1 : t[j] = x
  BY Elements
<1>4. ASSUME NEW x, x \in ToSet(t) PROVE x \in ToSet(s) /\ x # s[i]
  <2>1. PICK k \in 1 .. Len(s) - 1 : t[k] = x
    BY <1>4, <1>3
  <2> DEFINE j == IF k < i THEN k ELSE k + 1
  <2>2. j \in 1 .. Len(s) /\ j # i /\ s[j] = x
    BY <2>1, <1>1
  <2> QED  BY <2>2, <1>2
<1>5. ASSUME NEW x, x \in ToSet(s), x # s[i] PROVE x \in ToSet(t)
  <2>1. PICK j \in 1 .. Len(s) : s[j] = x
    BY <1>5, <1>2
  <2> DEFINE k == IF j < i THEN j ELSE j - 1
  <2>2. j # i
    BY <2>1, <1>5
  <2>3. k \in 1 .. Len(s) - 1 /\ t[k] = s[j]
    BY <2>2, <1>1
  <2> QED  BY <2>1, <2>3, <1>3
<1> QED
  BY <1>4, <1>5

\* find and erase, on a vector that has the element exactly once.
LEMMA Erased ==
  ASSUME NEW S, NEW s \in Seq(S), NEW i \in 1 .. Len(s),
         \A j, k \in 1 .. Len(s) : s[j] = s[k] => j = k
  PROVE  /\ Erase(s, s[i]) \in Seq(S) /\ Len(Erase(s, s[i])) = Len(s) - 1
         /\ DOMAIN Erase(s, s[i]) = 1 .. Len(s) - 1
         /\ \A k \in 1 .. Len(s) - 1 :
              Erase(s, s[i])[k] = IF k < i THEN s[k] ELSE s[k + 1]
         /\ ToSet(Erase(s, s[i])) = ToSet(s) \ {s[i]}
<1> DEFINE front == SubSeq(s, 1, i - 1)
           back == SubSeq(s, i + 1, Len(s))
           t == front \o back
<1>1. Len(s) \in Nat /\ DOMAIN s = 1 .. Len(s) /\ \A j \in 1 .. Len(s) : s[j] \in S
  BY LenProperties
<1>2. s[i] \in ToSet(s)
  BY <1>1, Elements
<1>3. \A j \in DOMAIN s : s[j] = s[i] <=> j = i
  BY <1>1
<1>4. (CHOOSE j \in DOMAIN s : s[j] = s[i]) = i
  BY <1>1, <1>3
<1>5. Erase(s, s[i]) = t
  BY <1>2, <1>4 DEF Erase, RemoveAt
<1>6. /\ front \in Seq(S) /\ Len(front) = i - 1
      /\ \A k \in 1 .. i - 1 : front[k] = s[k]
  <2>1. /\ front \in Seq(S)
        /\ Len(front) = IF 1 <= i - 1 THEN (i - 1) - 1 + 1 ELSE 0
        /\ \A k \in 1 .. (i - 1) - 1 + 1 : front[k] = s[1 + k - 1]
    BY <1>1, SubSeqProperties
  <2> QED  BY <2>1, <1>1
<1>7. /\ back \in Seq(S) /\ Len(back) = Len(s) - i
      /\ \A k \in 1 .. Len(s) - i : back[k] = s[i + k]
  <2>1. /\ back \in Seq(S)
        /\ Len(back) = IF i + 1 <= Len(s) THEN Len(s) - (i + 1) + 1 ELSE 0
        /\ \A k \in 1 .. Len(s) - (i + 1) + 1 : back[k] = s[(i + 1) + k - 1]
    BY <1>1, SubSeqProperties
  <2> QED  BY <2>1, <1>1
<1>8. /\ t \in Seq(S) /\ Len(t) = Len(s) - 1
      /\ \A k \in 1 .. Len(s) - 1 : t[k] = IF k < i THEN s[k] ELSE s[k + 1]
  <2> HIDE DEF front, back
  <2>1. /\ t \in Seq(S) /\ Len(t) = Len(front) + Len(back)
        /\ \A k \in 1 .. Len(front) + Len(back) :
             t[k] = IF k <= Len(front) THEN front[k] ELSE back[k - Len(front)]
    <3>1. front \in Seq(S) /\ back \in Seq(S)
      BY <1>6, <1>7
    <3> QED  BY <3>1, ConcatProperties
  <2>2. Len(t) = Len(s) - 1
    BY <2>1, <1>6, <1>7, <1>1
  <2>3. ASSUME NEW k \in 1 .. Len(s) - 1
        PROVE  t[k] = IF k < i THEN s[k] ELSE s[k + 1]
    <3>1. CASE k < i
      BY <3>1, <2>1, <1>6, <1>7, <1>1
    <3>2. CASE k >= i
      <4>1. t[k] = back[k - (i - 1)] /\ k - (i - 1) \in 1 .. Len(s) - i
        BY <3>2, <2>1, <1>6, <1>7, <1>1
      <4>2. back[k - (i - 1)] = s[i + (k - (i - 1))]
        BY <4>1, <1>7
      <4>3. i + (k - (i - 1)) = k + 1
        BY <1>1
      <4>4. t[k] = s[k + 1]
        BY <4>1, <4>2, <4>3
      <4> QED  BY <4>4, <3>2
    <3>3. k < i \/ k >= i
      BY <1>1
    <3> QED  BY <3>1, <3>2, <3>3
  <2> QED  BY <2>1, <2>2, <2>3
<1> HIDE DEF t
<1>9. ToSet(t) = ToSet(s) \ {s[i]}
  BY <1>8, Without
<1>10. DOMAIN t = 1 .. Len(s) - 1
  BY <1>8, LenProperties
<1> QED
  BY <1>5, <1>8, <1>9, <1>10

\* The loop of the destructor goes on to the rest of a vector.
LEMMA Rest ==
  ASSUME NEW S, NEW s \in Seq(S), s # <<>>,
         \A j, k \in 1 .. Len(s) : s[j] = s[k] => j = k
  PROVE  /\ Tail(s) \in Seq(S) /\ Len(Tail(s)) = Len(s) - 1
         /\ DOMAIN Tail(s) = 1 .. Len(s) - 1
         /\ \A k \in 1 .. Len(s) - 1 : Tail(s)[k] = s[k + 1]
         /\ ToSet(Tail(s)) = ToSet(s) \ {s[1]}
         /\ Head(s) = s[1] /\ 1 \in 1 .. Len(s)
<1>1. /\ Tail(s) \in Seq(S) /\ Len(Tail(s)) = Len(s) - 1
      /\ \A k \in 1 .. Len(Tail(s)) : Tail(s)[k] = s[k + 1]
  BY HeadTailProperties
<1>2. Len(s) \in Nat /\ Len(s) # 0
  BY EmptySeq, LenProperties
<1>3. 1 \in 1 .. Len(s)
  BY <1>2
<1>4. ToSet(Tail(s)) = ToSet(s) \ {s[1]}
  <2> DEFINE t == Tail(s)
  <2>1. /\ t \in Seq(S) /\ Len(t) = Len(s) - 1
        /\ \A k \in 1 .. Len(s) - 1 : t[k] = IF k < 1 THEN s[k] ELSE s[k + 1]
    BY <1>1, <1>2
  <2> HIDE DEF t
  <2>2. ToSet(t) = ToSet(s) \ {s[1]}
    BY <2>1, <1>3, Without
  <2> QED  BY <2>2 DEF t
<1>5. DOMAIN Tail(s) = 1 .. Len(s) - 1
  BY <1>1, LenProperties
<1> QED
  BY <1>1, <1>3, <1>4, <1>5

-----------------------------------------------------------------------------
(* PluginManager                                                           *)

\* What the steps use: the handles of a library are finitely many, and a handle is
\* at one position only, with an instance that no other handle has.
LEMMA HandleFacts ==
  ASSUME ManagerInv
  PROVE  /\ m_handles \in Seq(Handles) /\ m_plugins \in Seq(Instances)
         /\ Len(m_handles) \in Nat /\ DOMAIN m_handles = 1 .. Len(m_handles)
         /\ ToSet(m_handles) \subseteq Handles /\ IsFiniteSet(ToSet(m_handles))
         /\ \A h : h \in ToSet(m_handles) <=> \E j \in 1 .. Len(m_handles) : m_handles[j] = h
         /\ \A j, k \in 1 .. Len(m_handles) : m_handles[j] = m_handles[k] => j = k
         /\ \A g, h \in ToSet(m_handles) : g.instance = h.instance => g = h
         /\ \A l \in Libs : /\ IsFiniteSet(HandlesOf(l))
                            /\ Cardinality(HandlesOf(l)) \in Nat
<1>1. /\ m_handles \in Seq(Handles) /\ m_plugins \in Seq(Instances)
      /\ \A j, k \in DOMAIN m_handles : m_handles[j].instance = m_handles[k].instance => j = k
  BY DEF ManagerInv, ManagerTypeOK, Balanced
<1>2. /\ IsFiniteSet(ToSet(m_handles)) /\ ToSet(m_handles) \subseteq Handles
      /\ DOMAIN m_handles = 1 .. Len(m_handles) /\ Len(m_handles) \in Nat
      /\ \A h : h \in ToSet(m_handles) <=> \E j \in 1 .. Len(m_handles) : m_handles[j] = h
  BY <1>1, Elements
<1>3. ASSUME NEW l \in Libs
      PROVE  IsFiniteSet(HandlesOf(l)) /\ Cardinality(HandlesOf(l)) \in Nat
  <2>1. HandlesOf(l) \subseteq ToSet(m_handles)
    BY DEF HandlesOf
  <2>2. IsFiniteSet(HandlesOf(l))
    BY <2>1, <1>2, FS_Subset
  <2> QED  BY <2>2, FS_CardinalityType
<1>4. \A g, h \in ToSet(m_handles) : g.instance = h.instance => g = h
  BY <1>1, <1>2
<1> QED
  BY <1>1, <1>2, <1>3, <1>4

\* The manager starts with no handles, instances or opens.
LEMMA ManagerStarts == ManagerInit => ManagerInv
<1> SUFFICES ASSUME ManagerInit PROVE ManagerInv
  OBVIOUS
<1>1. /\ ToSet(m_handles) = {} /\ DOMAIN m_handles = {}
      /\ m_handles = <<>> /\ m_plugins = <<>>
      /\ m_handles \in Seq(Handles) /\ m_plugins \in Seq(Instances)
  BY DEF ManagerInit, ToSet
<1>2. Live = {} /\ \A l : HandlesOf(l) = {}
  BY <1>1 DEF Live, HandlesOf, ManagerInit
<1>3. Balanced
  <2>1. m_plugins = [j \in DOMAIN m_handles |-> m_handles[j].instance]
    BY <1>1
  <2>2. \A l \in Libs : refcount[l] = 0 /\ loading # l /\ Cardinality(HandlesOf(l)) = 0
    BY <1>2, FS_EmptySet, PluginAssumption DEF ManagerInit
  <2> QED  BY <2>1, <2>2, <1>1, <1>2 DEF Balanced
<1> QED
  BY <1>1, <1>3 DEF ManagerInv, ManagerTypeOK, ManagerInit, Balanced

\* The invariant speaks of the variables of the manager only.
LEMMA ManagerStutters == ManagerInv /\ UNCHANGED mvars => ManagerInv'
BY DEF ManagerInv, ManagerTypeOK, Balanced, Live, HandlesOf, mvars

\* dlopen: the library is open once more.
LEMMA OpenPreserves ==
  ASSUME ManagerInv, NEW p \in Paths, Open(p)
  PROVE  ManagerInv'
<1>1. /\ LibOf[p] \in Libs /\ loading' = LibOf[p] /\ loading = None
      /\ refcount' = [refcount EXCEPT ![LibOf[p]] = @ + 1]
      /\ UNCHANGED <<m_handles, m_plugins, made_by, closing, life>>
      /\ life = "alive" /\ closing = None
  BY PluginAssumption DEF Open, Ready
<1>2. ManagerTypeOK'
  BY <1>1 DEF ManagerInv, ManagerTypeOK
<1>3. Live' = Live /\ \A l : HandlesOf(l)' = HandlesOf(l)
  BY <1>1 DEF Live, HandlesOf
<1>4. ASSUME NEW l \in Libs
      PROVE  refcount'[l] = Cardinality(HandlesOf(l)') + (IF loading' = l THEN 1 ELSE 0)
  <2>1. refcount[l] = Cardinality(HandlesOf(l)) + 0
    BY <1>1, PluginAssumption DEF ManagerInv, Balanced
  <2>2. refcount'[l] = IF l = LibOf[p] THEN refcount[l] + 1 ELSE refcount[l]
    BY <1>1 DEF ManagerInv, ManagerTypeOK
  <2>3. Cardinality(HandlesOf(l)) \in Nat
    BY HandleFacts
  <2> QED  BY <2>1, <2>2, <2>3, <1>1, <1>3
<1>5. Balanced'
  BY <1>1, <1>3, <1>4 DEF ManagerInv, Balanced
<1> QED
  BY <1>1, <1>2, <1>5 DEF ManagerInv

\* The error returns of load_plugin give the library back.
LEMMA RejectPreserves ==
  ASSUME ManagerInv, Reject
  PROVE  ManagerInv'
<1>1. /\ loading \in Libs /\ loading' = None
      /\ refcount' = [refcount EXCEPT ![loading] = @ - 1]
      /\ UNCHANGED <<m_handles, m_plugins, made_by, closing, life>>
  BY DEF Reject, ManagerInv, ManagerTypeOK
<1>2. Live' = Live /\ \A l : HandlesOf(l)' = HandlesOf(l)
  BY <1>1 DEF Live, HandlesOf
<1>3. ASSUME NEW l \in Libs
      PROVE  /\ refcount'[l] = Cardinality(HandlesOf(l)')
             /\ refcount'[l] \in Nat
  <2>1. refcount[l] = Cardinality(HandlesOf(l)) + (IF loading = l THEN 1 ELSE 0)
    BY DEF ManagerInv, Balanced
  <2>2. refcount'[l] = IF l = loading THEN refcount[l] - 1 ELSE refcount[l]
    BY <1>1 DEF ManagerInv, ManagerTypeOK
  <2>3. Cardinality(HandlesOf(l)) \in Nat
    BY HandleFacts
  <2> QED  BY <2>1, <2>2, <2>3, <1>2
<1>4. ManagerTypeOK'
  <2>1. refcount' \in [Libs -> Nat]
    BY <1>1, <1>3 DEF ManagerInv, ManagerTypeOK
  <2> QED  BY <1>1, <2>1 DEF ManagerInv, ManagerTypeOK
<1>5. Balanced'
  <2>1. \A l \in Libs : refcount'[l] = Cardinality(HandlesOf(l)') + (IF loading' = l THEN 1 ELSE 0)
    BY <1>1, <1>3, PluginAssumption
  <2> QED  BY <1>1, <1>2, <2>1 DEF ManagerInv, Balanced
<1> QED
  BY <1>1, <1>4, <1>5 DEF ManagerInv

\* create_plugin: handle and instance are listed, and what was opened for the load
\* is now open for the handle.
LEMMA CreatePreserves ==
  ASSUME ManagerInv, NEW i \in Instances, Create(i)
  PROVE  ManagerInv'
<1> DEFINE h == [handle |-> loading, instance |-> i]
           n == Len(m_handles)
<1>1. /\ loading \in Libs /\ loading # None /\ loading' = None
      /\ i \notin Live
      /\ made_by' = [made_by EXCEPT ![i] = loading]
      /\ m_handles' = Append(m_handles, h)
      /\ m_plugins' = Append(m_plugins, i)
      /\ UNCHANGED <<refcount, closing, life>>
      /\ h \in Handles /\ h.handle = loading /\ h.instance = i
      /\ closing = None /\ life = "alive"
  BY PluginAssumption DEF Create, Handles, ManagerInv, ManagerTypeOK
<1>2. /\ m_handles \in Seq(Handles) /\ n \in Nat /\ DOMAIN m_handles = 1 .. n
      /\ ToSet(m_handles) \subseteq Handles
      /\ \A g : g \in ToSet(m_handles) <=> \E j \in 1 .. n : m_handles[j] = g
  BY HandleFacts
<1>3. /\ m_handles' \in Seq(Handles) /\ DOMAIN m_handles' = 1 .. n + 1
      /\ \A j \in 1 .. n : m_handles'[j] = m_handles[j]
      /\ m_handles'[n + 1] = h
      /\ ToSet(m_handles') = ToSet(m_handles) \cup {h}
  <2> HIDE DEF h
  <2> QED  BY <1>1, <1>2, PushBack
<1>4. /\ m_plugins \in Seq(Instances) /\ Len(m_plugins) = n
      /\ \A j \in 1 .. n : m_plugins[j] = m_handles[j].instance
  <2>1. /\ m_plugins \in Seq(Instances)
        /\ m_plugins = [j \in 1 .. n |-> m_handles[j].instance]
    BY <1>1, <1>2 DEF ManagerInv, ManagerTypeOK
  <2>2. DOMAIN m_plugins = 1 .. Len(m_plugins) /\ Len(m_plugins) \in Nat
    BY <2>1, LenProperties
  <2>3. Len(m_plugins) = n
    BY <2>1, <2>2, <1>2
  <2> QED  BY <2>1, <2>3
<1>5. /\ m_plugins' \in Seq(Instances) /\ DOMAIN m_plugins' = 1 .. n + 1
      /\ \A j \in 1 .. n : m_plugins'[j] = m_plugins[j]
      /\ m_plugins'[n + 1] = i
  BY <1>1, <1>4, PushBack
<1> HIDE DEF h
<1>6. m_plugins' = [j \in DOMAIN m_handles' |-> m_handles'[j].instance]
  <2>1. \A j \in 1 .. n + 1 : m_plugins'[j] = m_handles'[j].instance
    <3>1. \A j \in 1 .. n + 1 : j \in 1 .. n \/ j = n + 1
      BY <1>2
    <3> QED  BY <3>1, <1>1, <1>3, <1>4, <1>5
  <2>2. m_plugins' = [j \in 1 .. n + 1 |-> m_plugins'[j]]
    BY <1>5, LenProperties
  <2> QED  BY <2>1, <2>2, <1>3
<1>7. \A g \in ToSet(m_handles) : g.instance # i
  <2>1. Live = {g.instance : g \in ToSet(m_handles)}
    BY <1>1, <1>2, PluginAssumption DEF ManagerInv, Balanced
  <2> QED  BY <2>1, <1>1
<1>8. ManagerTypeOK'
  BY <1>1, <1>3, <1>5 DEF ManagerInv, ManagerTypeOK
<1>9. \A j, k \in DOMAIN m_handles' : m_handles'[j].instance = m_handles'[k].instance => j = k
  <2>1. \A j \in 1 .. n : m_handles'[j].instance # i
    BY <1>2, <1>3, <1>7
  <2>2. m_handles'[n + 1].instance = i
    BY <1>1, <1>3
  <2>3. \A j, k \in 1 .. n : m_handles'[j].instance = m_handles'[k].instance => j = k
    BY <1>2, <1>3 DEF ManagerInv, Balanced
  <2>4. \A j \in 1 .. n + 1 : j \in 1 .. n \/ j = n + 1
    BY <1>2
  <2> QED  BY <2>1, <2>2, <2>3, <2>4, <1>3
<1>10. ASSUME NEW l \in Libs
       PROVE  refcount'[l] = Cardinality(HandlesOf(l)') + (IF loading' = l THEN 1 ELSE 0)
  <2>1. refcount[l] = Cardinality(HandlesOf(l)) + (IF loading = l THEN 1 ELSE 0)
    BY DEF ManagerInv, Balanced
  <2>2. HandlesOf(l)' = IF loading = l THEN HandlesOf(l) \cup {h} ELSE HandlesOf(l)
    BY <1>1, <1>3 DEF HandlesOf
  <2>3. h \notin HandlesOf(l)
    BY <1>1, <1>7 DEF HandlesOf
  <2>4. IsFiniteSet(HandlesOf(l)) /\ Cardinality(HandlesOf(l)) \in Nat
    BY HandleFacts
  <2>5. Cardinality(HandlesOf(l) \cup {h}) = Cardinality(HandlesOf(l)) + 1
    BY <2>3, <2>4, FS_AddElement
  <2>6. loading' # l /\ refcount' = refcount
    BY <1>1, PluginAssumption
  <2> QED  BY <2>1, <2>2, <2>4, <2>5, <2>6
<1>11. Live' = {g.instance : g \in ToSet(m_handles') \ {closing'}}
  <2>1. Live = {g.instance : g \in ToSet(m_handles)} /\ closing' \notin ToSet(m_handles')
    BY <1>1, <1>2, <1>3, PluginAssumption DEF ManagerInv, Balanced
  <2>2. Live' = Live \cup {i}
    BY <1>1 DEF Live, ManagerInv, ManagerTypeOK
  <2>3. {g.instance : g \in ToSet(m_handles')} = {g.instance : g \in ToSet(m_handles)} \cup {i}
    BY <1>1, <1>3
  <2> QED  BY <2>1, <2>2, <2>3
<1>12. Balanced'
  BY <1>6, <1>9, <1>10, <1>11 DEF Balanced
<1>13. \A g \in ToSet(m_handles') : g # closing' => made_by'[g.instance] = g.handle
  <2>1. made_by'[i] = loading /\ \A k \in Instances : k # i => made_by'[k] = made_by[k]
    BY <1>1 DEF ManagerInv, ManagerTypeOK
  <2>2. \A g \in ToSet(m_handles) : g.instance \in Instances /\ made_by[g.instance] = g.handle
    BY <1>1, <1>2, PluginAssumption DEF ManagerInv, Handles
  <2>3. ASSUME NEW g \in ToSet(m_handles') PROVE made_by'[g.instance] = g.handle
    <3>1. CASE g = h
      BY <3>1, <2>1, <1>1
    <3>2. CASE g \in ToSet(m_handles)
      BY <3>2, <2>1, <2>2, <1>7
    <3> QED  BY <3>1, <3>2, <1>3
  <2> QED  BY <2>3
<1> QED
  BY <1>1, <1>6, <1>8, <1>12, <1>13 DEF ManagerInv

\* The instance of h is destroyed; its handle comes next.
LEMMA DestroyPreserves ==
  ASSUME ManagerInv, NEW h \in ToSet(m_handles), Destroy(h),
         closing = None, loading = None, life # "over",
         life' \in {life, "ending"}, life' = "ending" => h = m_handles[1]
  PROVE  ManagerInv'
<1>1. /\ made_by' = [made_by EXCEPT ![h.instance] = None]
      /\ closing' = h
      /\ UNCHANGED <<m_handles, m_plugins, refcount, loading>>
  BY DEF Destroy
<1>2. h \in Handles /\ h.instance \in Instances /\ h # None
  BY HandleFacts, PluginAssumption DEF Handles
<1>3. ManagerTypeOK'
  BY <1>1, <1>2 DEF ManagerInv, ManagerTypeOK
<1>4. /\ made_by'[h.instance] = None
      /\ \A i \in Instances : i # h.instance => made_by'[i] = made_by[i]
  BY <1>1, <1>2 DEF ManagerInv, ManagerTypeOK
<1>5. \A g \in ToSet(m_handles) : /\ g.instance \in Instances
                                  /\ g # h => g.instance # h.instance
                                  /\ made_by[g.instance] = g.handle
  BY HandleFacts, PluginAssumption DEF ManagerInv, Handles
<1>6. Live' = {g.instance : g \in ToSet(m_handles') \ {closing'}}
  <2>1. Live = {g.instance : g \in ToSet(m_handles)}
    BY HandleFacts, PluginAssumption DEF ManagerInv, Balanced
  <2>2. Live' = Live \ {h.instance}
    BY <1>2, <1>4 DEF Live
  <2>3. \A i : i \in Live' <=> i \in {g.instance : g \in ToSet(m_handles) \ {h}}
    BY <2>1, <2>2, <1>5
  <2>4. Live' = {g.instance : g \in ToSet(m_handles) \ {h}}
    BY <2>3
  <2> QED  BY <2>4, <1>1
<1>7. \A l : HandlesOf(l)' = HandlesOf(l)
  BY <1>1 DEF HandlesOf
<1>8. Balanced'
  <2>1. closing' # None
    BY <1>1, <1>2
  <2> QED  BY <1>1, <1>6, <1>7, <2>1 DEF ManagerInv, Balanced
<1>9. \A g \in ToSet(m_handles') : g # closing' => made_by'[g.instance] = g.handle
  BY <1>1, <1>4, <1>5
<1> QED
  BY <1>1, <1>3, <1>8, <1>9 DEF ManagerInv, ManagerTypeOK

\* A library is closed, and its handle is given up: what is common to the end of
\* unload_plugin and to a turn of the destructor's loop.
LEMMA Closed ==
  ASSUME ManagerInv, closing # None, closing' = None,
         refcount' = [refcount EXCEPT ![closing.handle] = @ - 1],
         m_handles' \in Seq(Handles), m_plugins' \in Seq(Instances),
         ToSet(m_handles') = ToSet(m_handles) \ {closing},
         \A j, k \in DOMAIN m_handles' :
            m_handles'[j].instance = m_handles'[k].instance => j = k,
         life = "alive" => m_plugins' = [j \in DOMAIN m_handles' |-> m_handles'[j].instance],
         UNCHANGED <<made_by, loading, life>>
  PROVE  ManagerInv'
<1>1. /\ closing \in Handles /\ closing \in ToSet(m_handles) /\ closing.handle \in Libs
      /\ loading = None /\ loading' = None /\ life # "over"
      /\ \A g \in ToSet(m_handles) : g # None
  BY HandleFacts, PluginAssumption DEF ManagerInv, Handles
<1>2. ASSUME NEW l \in Libs
      PROVE  refcount'[l] = Cardinality(HandlesOf(l)') /\ refcount'[l] \in Nat
  <2>1. refcount[l] = Cardinality(HandlesOf(l)) + 0
    BY <1>1, PluginAssumption DEF ManagerInv, Balanced
  <2>2. refcount'[l] = IF l = closing.handle THEN refcount[l] - 1 ELSE refcount[l]
    BY DEF ManagerInv, ManagerTypeOK
  <2>3. HandlesOf(l)' = HandlesOf(l) \ {closing}
    BY DEF HandlesOf
  <2>4. IsFiniteSet(HandlesOf(l)) /\ Cardinality(HandlesOf(l)) \in Nat
    BY HandleFacts
  <2>5. CASE l = closing.handle
    <3>1. closing \in HandlesOf(l)
      BY <1>1, <2>5 DEF HandlesOf
    <3>2. Cardinality(HandlesOf(l) \ {closing}) = Cardinality(HandlesOf(l)) - 1
      BY <3>1, <2>4, FS_RemoveElement
    <3>3. Cardinality(HandlesOf(l) \ {closing}) \in Nat
      BY <2>4, FS_RemoveElement, FS_CardinalityType
    <3> QED  BY <3>2, <3>3, <2>1, <2>2, <2>3, <2>4, <2>5
  <2>6. CASE l # closing.handle
    <3>1. HandlesOf(l)' = HandlesOf(l)
      BY <2>3, <2>6 DEF HandlesOf
    <3> QED  BY <3>1, <2>1, <2>2, <2>4, <2>6
  <2> QED  BY <2>5, <2>6
<1>3. ManagerTypeOK'
  <2>1. refcount' \in [Libs -> Nat]
    BY <1>2 DEF ManagerInv, ManagerTypeOK
  <2> QED  BY <2>1 DEF ManagerInv, ManagerTypeOK
<1>4. Balanced'
  <2>1. \A l \in Libs : refcount'[l] = Cardinality(HandlesOf(l)') + (IF loading' = l THEN 1 ELSE 0)
    <3> SUFFICES ASSUME NEW l \in Libs
                 PROVE  refcount'[l] = Cardinality(HandlesOf(l)') + 0
      BY <1>1, PluginAssumption
    <3> QED  BY <1>2
  <2>2. Live' = {g.instance : g \in ToSet(m_handles') \ {closing'}}
    <3>1. Live' = Live
      BY DEF Live
    <3>2. ToSet(m_handles') \ {closing'} = ToSet(m_handles) \ {closing}
      BY <1>1
    <3> QED  BY <3>1, <3>2 DEF ManagerInv, Balanced
  <2> QED  BY <2>1, <2>2 DEF Balanced
<1>5. \A g \in ToSet(m_handles') : g # closing' => made_by'[g.instance] = g.handle
  BY DEF ManagerInv
<1> QED
  BY <1>1, <1>3, <1>4, <1>5 DEF ManagerInv

\* unload_plugin destroys the instance that it is given.
LEMMA UnloadPreserves ==
  ASSUME ManagerInv, NEW i \in Instances, Unload(i)
  PROVE  ManagerInv'
<1>1. PICK h \in ToSet(m_handles) : Destroy(h)
  BY DEF Unload
<1>2. Ready /\ life' = life
  BY DEF Unload
<1> QED
  BY <1>1, <1>2, DestroyPreserves DEF Ready

\* unload_plugin gives up the handle and the instance at the same position.
LEMMA UnloadClosePreserves ==
  ASSUME ManagerInv, UnloadClose
  PROVE  ManagerInv'
<1> DEFINE n == Len(m_handles)
<1>1. /\ life = "alive" /\ closing # None /\ closing' = None
      /\ refcount' = [refcount EXCEPT ![closing.handle] = @ - 1]
      /\ m_plugins' = Erase(m_plugins, closing.instance)
      /\ m_handles' = Erase(m_handles, closing)
      /\ UNCHANGED <<made_by, loading, life>>
  BY DEF UnloadClose
<1>2. /\ m_handles \in Seq(Handles) /\ m_plugins \in Seq(Instances)
      /\ n \in Nat /\ DOMAIN m_handles = 1 .. n
      /\ \A j, k \in 1 .. n : m_handles[j] = m_handles[k] => j = k
  BY HandleFacts
<1>3. PICK i \in 1 .. n : m_handles[i] = closing
  BY <1>1, HandleFacts DEF ManagerInv
<1>4. /\ m_handles' \in Seq(Handles) /\ DOMAIN m_handles' = 1 .. n - 1
      /\ \A k \in 1 .. n - 1 : m_handles'[k] = IF k < i THEN m_handles[k] ELSE m_handles[k + 1]
      /\ ToSet(m_handles') = ToSet(m_handles) \ {closing}
  <2> DEFINE t == Erase(m_handles, m_handles[i])
  <2>1. /\ t \in Seq(Handles) /\ DOMAIN t = 1 .. n - 1
        /\ \A k \in 1 .. n - 1 : t[k] = IF k < i THEN m_handles[k] ELSE m_handles[k + 1]
        /\ ToSet(t) = ToSet(m_handles) \ {m_handles[i]}
    <3>1. /\ m_handles \in Seq(Handles) /\ i \in 1 .. Len(m_handles)
          /\ \A j, k \in 1 .. Len(m_handles) : m_handles[j] = m_handles[k] => j = k
      BY <1>2
    <3> QED  BY ONLY <3>1, Erased
  <2> QED  BY <2>1, <1>1, <1>3
<1>5. /\ Len(m_plugins) = n
      /\ \A j \in 1 .. n : m_plugins[j] = m_handles[j].instance
      /\ \A j, k \in 1 .. n : m_plugins[j] = m_plugins[k] => j = k
  <2>1. m_plugins = [j \in 1 .. n |-> m_handles[j].instance]
    BY <1>1, <1>2 DEF ManagerInv
  <2>2. DOMAIN m_plugins = 1 .. Len(m_plugins) /\ Len(m_plugins) \in Nat
    BY <1>2, LenProperties
  <2>3. Len(m_plugins) = n
    BY <2>1, <2>2, <1>2
  <2> QED  BY <2>1, <2>3, <1>2 DEF ManagerInv, Balanced
<1>6. /\ m_plugins' \in Seq(Instances) /\ DOMAIN m_plugins' = 1 .. n - 1
      /\ \A k \in 1 .. n - 1 : m_plugins'[k] = IF k < i THEN m_plugins[k] ELSE m_plugins[k + 1]
  <2> DEFINE t == Erase(m_plugins, m_plugins[i])
  <2>1. /\ t \in Seq(Instances) /\ DOMAIN t = 1 .. n - 1
        /\ \A k \in 1 .. n - 1 : t[k] = IF k < i THEN m_plugins[k] ELSE m_plugins[k + 1]
    <3>1. i \in 1 .. Len(m_plugins)
      BY <1>5
    <3>2. \A j, k \in 1 .. Len(m_plugins) : m_plugins[j] = m_plugins[k] => j = k
      BY <1>5
    <3>3. /\ t \in Seq(Instances) /\ DOMAIN t = 1 .. Len(m_plugins) - 1
          /\ \A k \in 1 .. Len(m_plugins) - 1 :
               t[k] = IF k < i THEN m_plugins[k] ELSE m_plugins[k + 1]
      BY <1>2, <3>1, <3>2, Erased
    <3> QED  BY <3>3, <1>5
  <2>2. closing.instance = m_plugins[i]
    BY <1>3, <1>5
  <2> QED  BY <2>1, <2>2, <1>1
<1>7. \A k \in 1 .. n - 1 : IF k < i THEN k \in 1 .. n ELSE k + 1 \in 1 .. n
  BY <1>2
<1>8. m_plugins' = [j \in DOMAIN m_handles' |-> m_handles'[j].instance]
  <2>1. \A k \in 1 .. n - 1 : m_plugins'[k] = m_handles'[k].instance
    BY <1>4, <1>5, <1>6, <1>7
  <2>2. m_plugins' = [k \in 1 .. n - 1 |-> m_plugins'[k]]
    BY <1>6, LenProperties
  <2> QED  BY <2>1, <2>2, <1>4
<1>9. \A j, k \in DOMAIN m_handles' : m_handles'[j].instance = m_handles'[k].instance => j = k
  <2> SUFFICES ASSUME NEW j \in 1 .. n - 1, NEW k \in 1 .. n - 1,
                      m_handles'[j].instance = m_handles'[k].instance
               PROVE  j = k
    BY <1>4
  <2> DEFINE a == IF j < i THEN j ELSE j + 1
             b == IF k < i THEN k ELSE k + 1
  <2>1. a \in 1 .. n /\ b \in 1 .. n /\ m_handles'[j] = m_handles[a] /\ m_handles'[k] = m_handles[b]
    BY <1>4, <1>7
  <2>2. a = b
    BY <2>1, <1>2 DEF ManagerInv, Balanced
  <2> QED  BY <2>2, <1>2, <1>3
<1> HIDE DEF n
<1> QED
  BY <1>1, <1>4, <1>6, <1>8, <1>9, Closed

\* The destructor destroys the instance of the first handle that is left.
LEMMA DestroyNextPreserves ==
  ASSUME ManagerInv, DestroyNext
  PROVE  ManagerInv'
<1>1. /\ m_handles # <<>> /\ Destroy(Head(m_handles)) /\ life' = "ending"
      /\ closing = None /\ loading = None /\ life # "over"
  BY DEF DestroyNext, Ready, ManagerInv, ManagerTypeOK
<1>2. Head(m_handles) = m_handles[1] /\ 1 \in 1 .. Len(m_handles)
  BY <1>1, HandleFacts, Rest
<1>3. m_handles[1] \in ToSet(m_handles)
  BY <1>2, HandleFacts
<1> QED
  BY <1>1, <1>2, <1>3, DestroyPreserves

\* The destructor closes it, and goes on.
LEMMA CloseNextPreserves ==
  ASSUME ManagerInv, CloseNext
  PROVE  ManagerInv'
<1>1. /\ life = "ending" /\ closing # None /\ closing' = None
      /\ refcount' = [refcount EXCEPT ![closing.handle] = @ - 1]
      /\ m_handles' = Tail(m_handles)
      /\ UNCHANGED <<m_plugins, made_by, loading, life>>
  BY DEF CloseNext
<1>2. /\ closing = m_handles[1] /\ closing \in ToSet(m_handles)
  BY <1>1 DEF ManagerInv
<1>3. /\ m_handles \in Seq(Handles) /\ Len(m_handles) \in Nat
      /\ DOMAIN m_handles = 1 .. Len(m_handles)
      /\ \A j, k \in 1 .. Len(m_handles) : m_handles[j] = m_handles[k] => j = k
      /\ m_plugins \in Seq(Instances)
  BY HandleFacts
<1>4. m_handles # <<>>
  BY <1>2 DEF ToSet
<1>5. /\ m_handles' \in Seq(Handles) /\ DOMAIN m_handles' = 1 .. Len(m_handles) - 1
      /\ \A k \in 1 .. Len(m_handles) - 1 : m_handles'[k] = m_handles[k + 1]
      /\ ToSet(m_handles') = ToSet(m_handles) \ {closing}
  BY <1>1, <1>2, <1>3, <1>4, Rest
<1>6. \A j, k \in DOMAIN m_handles' : m_handles'[j].instance = m_handles'[k].instance => j = k
  <2> SUFFICES ASSUME NEW j \in 1 .. Len(m_handles) - 1, NEW k \in 1 .. Len(m_handles) - 1,
                      m_handles'[j].instance = m_handles'[k].instance
               PROVE  j = k
    BY <1>5
  <2>1. j + 1 \in DOMAIN m_handles /\ k + 1 \in DOMAIN m_handles
    BY <1>3
  <2>2. m_handles[j + 1].instance = m_handles[k + 1].instance
    BY <1>5
  <2>3. j + 1 = k + 1
    BY <2>1, <2>2 DEF ManagerInv, Balanced
  <2> QED  BY <2>3, <1>3
<1>7. m_plugins' \in Seq(Instances) /\ life # "alive"
  BY <1>1, <1>3
<1> QED
  BY <1>1, <1>5, <1>6, <1>7, Closed

\* Nothing is left.
LEMMA EndPreserves ==
  ASSUME ManagerInv, End
  PROVE  ManagerInv'
<1>1. /\ m_handles = <<>> /\ closing = None /\ loading = None
      /\ m_plugins' = <<>> /\ life' = "over"
      /\ UNCHANGED <<m_handles, refcount, made_by, loading, closing>>
  BY DEF End, Ready, ManagerInv
<1>2. ManagerTypeOK'
  BY <1>1 DEF ManagerInv, ManagerTypeOK
<1>3. Live' = Live /\ \A l : HandlesOf(l)' = HandlesOf(l)
  BY <1>1 DEF Live, HandlesOf
<1>4. Balanced'
  BY <1>1, <1>3 DEF ManagerInv, Balanced
<1> QED
  BY <1>1, <1>2, <1>4 DEF ManagerInv

\* A live instance is that of a handle, whose library is open at least once.
LEMMA LiveIsMapped == ManagerInv => LiveCodeMapped
<1> SUFFICES ASSUME ManagerInv, NEW i \in Live PROVE refcount[made_by[i]] > 0
  BY DEF LiveCodeMapped
<1>1. PICK h \in ToSet(m_handles) \ {closing} : h.instance = i
  BY DEF ManagerInv, Balanced
<1>2. made_by[i] = h.handle /\ h.handle \in Libs
  BY <1>1, HandleFacts DEF ManagerInv, Handles
<1>3. h \in HandlesOf(h.handle)
  BY <1>1 DEF HandlesOf
<1>4. IsFiniteSet(HandlesOf(h.handle)) /\ Cardinality(HandlesOf(h.handle)) \in Nat
  BY <1>2, HandleFacts
<1>5. Cardinality(HandlesOf(h.handle)) # 0
  BY <1>3, <1>4, FS_EmptySet
<1>6. refcount[h.handle] = Cardinality(HandlesOf(h.handle)) + (IF loading = h.handle THEN 1 ELSE 0)
  BY <1>2 DEF ManagerInv, Balanced
<1> QED
  BY <1>2, <1>4, <1>5, <1>6

-----------------------------------------------------------------------------
(* PluginRegistry                                                          *)

\* The registry starts empty.
LEMMA RegistryStarts == Init => RegistryInv
<1> SUFFICES ASSUME Init PROVE RegistryInv
  OBVIOUS
<1>1. ManagerInv
  BY ManagerStarts DEF Init
<1>2. m_handles = <<>> /\ DOMAIN m_handles = {} /\ loading = None /\ closing = None
  BY DEF Init, ManagerInit
<1>3. \A n \in Names : Mirrored(n)
  BY <1>2 DEF Init, Mirrored, Filed
<1> QED
  BY <1>1, <1>2, <1>3 DEF RegistryInv, TypeOK, Init, ManagerInv

\* The invariant speaks of the variables of the registry only.
LEMMA RegistryStutters == RegistryInv /\ UNCHANGED rvars => RegistryInv'
<1> SUFFICES ASSUME RegistryInv, UNCHANGED rvars PROVE RegistryInv'
  OBVIOUS
<1>1. ManagerInv' /\ m_handles' = m_handles /\ life' = life /\ closing' = closing
      /\ loading' = loading
  BY ManagerStutters DEF RegistryInv, rvars, mvars
<1>2. UNCHANGED <<m_registry, todo, direct, unloaded>>
  BY DEF rvars
<1>3. \A n : Mirrored(n)' <=> Mirrored(n)
  BY <1>1, <1>2 DEF Mirrored, Newest, Filed
<1> QED
  BY <1>1, <1>2, <1>3 DEF RegistryInv, TypeOK, ManagerInv

\* A step that leaves handles and registry alone leaves the mirror alone.
LEMMA MirrorKept ==
  ASSUME RegistryInv, UNCHANGED <<m_handles, m_registry, direct>>,
         life' = "alive" /\ ~unloaded' => life = "alive" /\ ~unloaded
  PROVE  life' = "alive" /\ ~unloaded' => \A n \in Names : Mirrored(n)'
<1>1. \A n : Mirrored(n)' <=> Mirrored(n)
  BY DEF Mirrored, Newest, Filed
<1> QED
  BY <1>1 DEF RegistryInv

\* scan_directory begins: no plugin is loaded yet.
LEMMA ScanPreserves ==
  ASSUME RegistryInv, NEW d \in Dirs, Scan(d)
  PROVE  RegistryInv'
<1>1. /\ Ready /\ todo' = Entries[d]
      /\ UNCHANGED mvars /\ UNCHANGED <<m_registry, direct, unloaded>>
      /\ UNCHANGED <<m_handles, life, loading, closing>>
  BY DEF Scan, mvars
<1>2. ManagerInv' /\ ManagerTypeOK'
  BY <1>1, ManagerStutters DEF RegistryInv, ManagerInv
<1>3. todo' \in SUBSET Paths /\ todo' # None
  BY <1>1, RegistryAssumption
<1>4. life' = "alive" /\ ~unloaded' => \A n \in Names : Mirrored(n)'
  BY <1>1, MirrorKept
<1> QED
  BY <1>1, <1>2, <1>3, <1>4 DEF RegistryInv, TypeOK, Ready

\* An entry of the directory is opened, or is no library.
LEMMA ScanNextPreserves ==
  ASSUME RegistryInv, ScanNext
  PROVE  RegistryInv'
<1>1. PICK p \in todo : /\ todo' = todo \ {p}
                        /\ Open(p) \/ (LibOf[p] = None /\ UNCHANGED mvars)
  BY DEF ScanNext
<1>2. /\ Ready /\ todo # None /\ todo \in SUBSET Paths
      /\ UNCHANGED <<m_registry, direct, unloaded>>
  BY DEF ScanNext, RegistryInv, TypeOK
<1>3. todo' \in SUBSET Paths /\ todo' # None /\ p \in Paths
  BY <1>1, <1>2, RegistryAssumption
<1>4. UNCHANGED <<m_handles, life, closing>>
  BY <1>1 DEF Open, mvars
<1>5. ManagerInv' /\ ManagerTypeOK'
  BY <1>1, <1>3, OpenPreserves, ManagerStutters DEF RegistryInv, ManagerInv
<1>6. life' = "alive" /\ ~unloaded' => \A n \in Names : Mirrored(n)'
  BY <1>2, <1>4, MirrorKept
<1> QED
  BY <1>2, <1>3, <1>4, <1>5, <1>6 DEF RegistryInv, TypeOK, Ready

\* scan_directory returns.
LEMMA ScanEndPreserves ==
  ASSUME RegistryInv, ScanEnd
  PROVE  RegistryInv'
<1>1. /\ Ready /\ todo' = None
      /\ UNCHANGED mvars /\ UNCHANGED <<m_registry, direct, unloaded>>
      /\ UNCHANGED <<m_handles, life, loading, closing>>
  BY DEF ScanEnd, mvars
<1>2. ManagerInv' /\ ManagerTypeOK'
  BY <1>1, ManagerStutters DEF RegistryInv, ManagerInv
<1>3. life' = "alive" /\ ~unloaded' => \A n \in Names : Mirrored(n)'
  BY <1>1, MirrorKept
<1> QED
  BY <1>1, <1>2, <1>3 DEF RegistryInv, TypeOK, Ready

\* A caller begins to load a path on its own.
LEMMA LoadPathPreserves ==
  ASSUME RegistryInv, NEW p \in Paths, LoadPath(p)
  PROVE  RegistryInv'
<1>1. /\ todo = None /\ Open(p)
      /\ UNCHANGED <<m_registry, todo, direct, unloaded>>
      /\ UNCHANGED <<m_handles, life, closing>>
  BY DEF LoadPath, Open
<1>2. ManagerInv' /\ ManagerTypeOK'
  BY <1>1, OpenPreserves DEF RegistryInv, ManagerInv
<1>3. life' = "alive" /\ ~unloaded' => \A n \in Names : Mirrored(n)'
  BY <1>1, MirrorKept
<1> QED
  BY <1>1, <1>2, <1>3 DEF RegistryInv, TypeOK

\* A load that fails leaves the handles as they were.
LEMMA LoadErrorPreserves ==
  ASSUME RegistryInv, LoadError
  PROVE  RegistryInv'
<1>1. /\ Reject
      /\ UNCHANGED <<m_registry, todo, direct, unloaded>>
      /\ UNCHANGED <<m_handles, life, closing>> /\ loading' = None
  BY DEF LoadError, Reject
<1>2. ManagerInv' /\ ManagerTypeOK'
  BY <1>1, RejectPreserves DEF RegistryInv, ManagerInv
<1>3. life' = "alive" /\ ~unloaded' => \A n \in Names : Mirrored(n)'
  BY <1>1, MirrorKept
<1> QED
  BY <1>1, <1>2, <1>3 DEF RegistryInv, TypeOK

\* A scan files the new instance as the newest of its name, and the other names
\* have no new handle that counts; nor has any name, if no scan is loading.
LEMMA LoadedPreserves ==
  ASSUME RegistryInv, NEW i \in Instances, Loaded(i)
  PROVE  RegistryInv'
<1> DEFINE h == [handle |-> loading, instance |-> i]
           n == Len(m_handles)
<1>1. /\ Create(i)
      /\ m_registry' = IF todo = None THEN m_registry
                       ELSE [m_registry EXCEPT ![NameOf[loading]] = i]
      /\ direct' = IF todo = None THEN direct \cup {i} ELSE direct \ {i}
      /\ UNCHANGED <<todo, unloaded>>
      /\ loading \in Complete /\ loading' = None /\ i \notin Live
      /\ m_handles' = Append(m_handles, h)
      /\ UNCHANGED <<closing, life>>
  BY DEF Loaded, Create
<1>2. ManagerInv' /\ ManagerTypeOK'
  BY <1>1, CreatePreserves DEF RegistryInv, ManagerInv
<1>3. loading \in Libs /\ loading # None /\ NameOf[loading] \in Names /\ h \in Handles
  BY <1>1, PluginAssumption, RegistryAssumption DEF Handles
<1>4. /\ m_registry' \in [Names -> Instances \cup {None}]
      /\ direct' \in SUBSET Instances
  BY <1>1, <1>3 DEF RegistryInv, TypeOK
<1>5. /\ DOMAIN m_handles = 1 .. n /\ n \in Nat
      /\ DOMAIN m_handles' = 1 .. n + 1
      /\ \A j \in 1 .. n : m_handles'[j] = m_handles[j]
      /\ m_handles'[n + 1] = h
  <2>1. m_handles \in Seq(Handles)
    BY DEF RegistryInv, ManagerInv, ManagerTypeOK
  <2> HIDE DEF h
  <2> QED  BY <2>1, <1>1, <1>3, PushBack, HandleFacts DEF RegistryInv
<1>6. \A j \in 1 .. n + 1 : j \in 1 .. n \/ j = n + 1
  BY <1>5
<1>7. \A j \in 1 .. n : m_handles[j].instance # i
  <2>1. closing = None
    BY <1>1, <1>3 DEF RegistryInv, ManagerInv
  <2>2. \A j \in 1 .. n : m_handles[j] \in ToSet(m_handles) \ {closing}
    BY <2>1, HandleFacts, PluginAssumption DEF RegistryInv
  <2> QED  BY <2>2, <1>1 DEF RegistryInv, ManagerInv, Balanced
<1>8. /\ \A j \in 1 .. n : m_handles'[j].instance \in direct' <=> m_handles[j].instance \in direct
      /\ m_handles'[n + 1].handle = loading /\ m_handles'[n + 1].instance = i
      /\ i \in direct' <=> todo = None
  BY <1>1, <1>5, <1>7
<1>9. ASSUME life' = "alive", ~unloaded', NEW m \in Names
      PROVE  Mirrored(m)'
  <2>1. Mirrored(m)
    BY <1>1, <1>9 DEF RegistryInv
  <2>2. CASE todo # None /\ m = NameOf[loading]
    <3>1. m_registry'[m] = i
      BY <1>1, <1>3, <2>2 DEF RegistryInv, TypeOK
    <3>2. /\ n + 1 \in DOMAIN m_handles' /\ NameOf[m_handles'[n + 1].handle] = m
          /\ m_handles'[n + 1].instance \notin direct'
          /\ m_registry'[m] = m_handles'[n + 1].instance
          /\ \A k \in DOMAIN m_handles' : k <= n + 1
      BY <3>1, <1>5, <1>8, <2>2
    <3> QED  BY <3>2 DEF Mirrored, Newest, Filed
  <2>3. CASE ~(todo # None /\ m = NameOf[loading])
    <3>1. /\ m_registry'[m] = m_registry[m]
          /\ ~(/\ NameOf[m_handles'[n + 1].handle] = m
               /\ m_handles'[n + 1].instance \notin direct')
      BY <1>1, <1>3, <1>8, <2>3 DEF RegistryInv, TypeOK
    <3>2. CASE m_registry[m] = None /\ \A k \in DOMAIN m_handles : ~Filed(m, k)
      BY <3>1, <3>2, <1>5, <1>6, <1>8 DEF Mirrored, Filed
    <3>3. CASE \E j \in DOMAIN m_handles : Newest(m, j)
      <4>1. PICK j \in DOMAIN m_handles : Newest(m, j)
        BY <3>3
      <4>2. j \in DOMAIN m_handles' /\ Newest(m, j)'
        BY <4>1, <3>1, <1>5, <1>6, <1>8 DEF Newest, Filed
      <4> QED  BY <4>2 DEF Mirrored
    <3> QED  BY <2>1, <3>2, <3>3 DEF Mirrored
  <2> QED  BY <2>2, <2>3
<1> QED
  BY <1>1, <1>2, <1>3, <1>4, <1>9 DEF RegistryInv, TypeOK

\* A caller unloads a plugin: from here on the registry may have one too many.
LEMMA UnloadPluginPreserves ==
  ASSUME RegistryInv, UnloadPlugin
  PROVE  RegistryInv'
<1>1. /\ todo = None /\ unloaded' /\ unloaded' \in BOOLEAN
      /\ UNCHANGED <<m_registry, todo>> /\ direct' \subseteq direct
      /\ loading' = loading
  BY DEF UnloadPlugin, Unload, Destroy, UnloadClose
<1>2. ManagerInv' /\ ManagerTypeOK'
  BY UnloadPreserves, UnloadClosePreserves DEF UnloadPlugin, RegistryInv, ManagerInv
<1> QED
  BY <1>1, <1>2 DEF RegistryInv, TypeOK

\* The end of the process empties the registry before the manager is destroyed.
LEMMA FinishPreserves ==
  ASSUME RegistryInv, Finish
  PROVE  RegistryInv'
<1>1. /\ todo = None /\ m_registry' = [m \in Names |-> None]
      /\ UNCHANGED <<todo, unloaded>> /\ direct' \subseteq direct
      /\ loading' = loading /\ life' # "alive"
  BY DEF Finish, DestroyNext, Destroy, CloseNext, End
<1>2. ManagerInv' /\ ManagerTypeOK'
  BY DestroyNextPreserves, CloseNextPreserves, EndPreserves
  DEF Finish, RegistryInv, ManagerInv
<1> QED
  BY <1>1, <1>2 DEF RegistryInv, TypeOK

\* Every step keeps the invariant of the registry.
LEMMA RegistryPreserves == RegistryInv /\ [Next]_rvars => RegistryInv'
<1> SUFFICES ASSUME RegistryInv, [Next]_rvars PROVE RegistryInv'
  OBVIOUS
<1>1. ASSUME NEW d \in Dirs, Scan(d) PROVE RegistryInv'
  BY <1>1, ScanPreserves
<1>2. CASE ScanNext
  BY <1>2, ScanNextPreserves
<1>3. CASE ScanEnd
  BY <1>3, ScanEndPreserves
<1>4. ASSUME NEW p \in Paths, LoadPath(p) PROVE RegistryInv'
  BY <1>4, LoadPathPreserves
<1>5. CASE LoadError
  BY <1>5, LoadErrorPreserves
<1>6. ASSUME NEW i \in Instances, Loaded(i) PROVE RegistryInv'
  BY <1>6, LoadedPreserves
<1>7. CASE UnloadPlugin
  BY <1>7, UnloadPluginPreserves
<1>8. CASE Finish
  BY <1>8, FinishPreserves
<1>9. CASE UNCHANGED rvars
  BY <1>9, RegistryStutters
<1> QED
  BY <1>1, <1>2, <1>3, <1>4, <1>5, <1>6, <1>7, <1>8, <1>9 DEF Next, Terminated

\* The position that the invariant names is the greatest of its name.
LEMMA MirrorHolds == RegistryInv => MirrorsHandles
<1> SUFFICES ASSUME RegistryInv, life = "alive", ~unloaded, NEW n \in Names
             PROVE  LET named == {j \in DOMAIN m_handles : Filed(n, j)} IN
                      m_registry[n] = IF named = {} THEN None
                                      ELSE m_handles[Max(named)].instance
  BY DEF MirrorsHandles, Filed
<1> DEFINE named == {j \in DOMAIN m_handles : Filed(n, j)}
<1>1. Mirrored(n)
  BY DEF RegistryInv
<1>2. CASE m_registry[n] = None /\ \A k \in DOMAIN m_handles : ~Filed(n, k)
  BY <1>2
<1>3. ASSUME NEW j \in DOMAIN m_handles, Newest(n, j)
      PROVE  named # {} /\ m_registry[n] = m_handles[Max(named)].instance
  <2>1. j \in named /\ m_registry[n] = m_handles[j].instance /\ \A k \in named : k <= j
    BY <1>3 DEF Newest
  <2>2. named \subseteq Nat
    BY HandleFacts DEF RegistryInv
  <2> HIDE DEF named
  <2>3. \A m \in named : (\A k \in named : m >= k) <=> m = j
    BY <2>1, <2>2
  <2>4. Max(named) = j
    BY <2>1, <2>3 DEF Max
  <2> QED  BY <2>1, <2>4
<1> QED
  BY <1>1, <1>2, <1>3 DEF Mirrored

\* While nothing is unloaded, what is registered for a name is a live instance of a
\* library of that name, and the name of every live instance that a scan has loaded
\* is registered.
LEMMA Registered ==
  ASSUME RegistryInv, life = "alive", ~unloaded
  PROVE  /\ \A n \in Names : m_registry[n] # None =>
              m_registry[n] \in Live /\ NameOf[made_by[m_registry[n]]] = n
         /\ \A i \in Live \ direct : /\ NameOf[made_by[i]] \in Names
                                     /\ m_registry[NameOf[made_by[i]]] # None
<1>1. closing = None /\ DOMAIN m_handles = 1 .. Len(m_handles)
  BY HandleFacts DEF RegistryInv
<1>2. \A j \in DOMAIN m_handles :
        /\ m_handles[j] \in ToSet(m_handles) /\ m_handles[j] # None
        /\ m_handles[j] \in Handles
  BY <1>1, HandleFacts, PluginAssumption DEF RegistryInv
<1>3. \A j \in DOMAIN m_handles :
        /\ made_by[m_handles[j].instance] = m_handles[j].handle
        /\ m_handles[j].instance \in Live /\ m_handles[j].instance # None
        /\ m_handles[j].handle \in Libs
  BY <1>1, <1>2, PluginAssumption DEF RegistryInv, ManagerInv, Handles, Live
<1>4. ASSUME NEW n \in Names, m_registry[n] # None
      PROVE  m_registry[n] \in Live /\ NameOf[made_by[m_registry[n]]] = n
  <2>1. PICK j \in DOMAIN m_handles : Newest(n, j)
    BY <1>4 DEF RegistryInv, Mirrored
  <2> QED  BY <2>1, <1>3 DEF Newest, Filed
<1>5. ASSUME NEW i \in Live \ direct
      PROVE  NameOf[made_by[i]] \in Names /\ m_registry[NameOf[made_by[i]]] # None
  <2>1. PICK h \in ToSet(m_handles) : h.instance = i
    BY DEF RegistryInv, ManagerInv, Balanced
  <2>2. PICK j \in DOMAIN m_handles : m_handles[j] = h
    BY <1>1, HandleFacts DEF RegistryInv
  <2>3. made_by[i] = m_handles[j].handle /\ NameOf[made_by[i]] \in Names
    BY <2>1, <2>2, <1>3, RegistryAssumption
  <2>4. Mirrored(NameOf[made_by[i]]) /\ Filed(NameOf[made_by[i]], j)
    BY <2>1, <2>2, <2>3 DEF RegistryInv, Filed
  <2> QED  BY <2>2, <2>3, <2>4, <1>3 DEF Mirrored, Newest
<1> QED
  BY <1>4, <1>5

\* get_plugin returns what is registered for a matching name, if there is one.
LEMMA LookedUp ==
  ASSUME TypeOK, NEW n
  PROVE  /\ get_plugin(n) \in Instances \cup {None}
         /\ \/ get_plugin(n) = None /\ \A m \in Names : ~Matches(m, n)
            \/ \E m \in Names : Matches(m, n) /\ get_plugin(n) = m_registry[m]
<1> DEFINE matching == {j \in DOMAIN NameOrder : Matches(NameOrder[j], n)}
<1>1. CASE matching = {}
  <2>1. \A m \in Names : \E j \in DOMAIN NameOrder : NameOrder[j] = m
    BY DEF Names, ToSet
  <2> QED  BY <1>1, <2>1 DEF get_plugin
<1>2. CASE matching # {}
  <2>1. matching \in SUBSET (1 .. Len(NameOrder)) /\ Len(NameOrder) \in Nat
    BY RegistryAssumption, LenProperties
  <2>2. Min(matching) \in matching
    BY <1>2, <2>1, LeastAndGreatest
  <2>3. PICK j \in DOMAIN NameOrder : /\ Matches(NameOrder[j], n)
                                      /\ get_plugin(n) = m_registry[NameOrder[j]]
    BY <1>2, <2>2 DEF get_plugin
  <2>4. NameOrder[j] \in Names
    BY DEF Names, ToSet
  <2> QED  BY <2>3, <2>4 DEF TypeOK
<1> QED
  BY <1>1, <1>2

\* get_plugin returns a live instance of a matching name, or else no scan has loaded
\* a live instance of a matching name.
LEMMA Answer ==
  ASSUME RegistryInv, life = "alive", ~unloaded, NEW n
  PROVE  \/ /\ get_plugin(n) \in Live
            /\ Normal[NameOf[made_by[get_plugin(n)]]] = Normal[n]
         \/ /\ get_plugin(n) = None
            /\ \A i \in Live \ direct : Normal[NameOf[made_by[i]]] # Normal[n]
<1>1. CASE get_plugin(n) = None /\ \A m \in Names : ~Matches(m, n)
  BY <1>1, Registered DEF Matches
<1>2. CASE \E m \in Names : Matches(m, n) /\ get_plugin(n) = m_registry[m]
  BY <1>2, Registered DEF Matches
<1> QED
  BY <1>1, <1>2, LookedUp DEF RegistryInv

\* ... so that get_plugin finds what LookupFinds says.
LEMMA LookupHolds == RegistryInv => LookupFinds
<1>1. \A i \in Live : i # None
  BY PluginAssumption DEF Live
<1> QED
  BY <1>1, Answer DEF LookupFinds

-----------------------------------------------------------------------------

\* Every reachable state of a program that uses the registry as it likes satisfies
\* the invariant.
THEOREM RegistryInvariance == Spec => []RegistryInv
<1>1. RegistryInv /\ [Next]_rvars => RegistryInv'
  BY RegistryPreserves
<1> QED
  BY RegistryStarts, <1>1, PTL DEF Spec

\* The code of every live instance is mapped, in every step of load_plugin, of
\* unload_plugin and of the destructor.
THEOREM AlwaysMapped == Spec => []LiveCodeMapped
<1>1. RegistryInv => LiveCodeMapped
  BY LiveIsMapped DEF RegistryInv
<1> QED
  BY <1>1, RegistryInvariance, PTL

\* No handle and no instance is leaked or given up twice.
THEOREM AlwaysBalanced == Spec => []Balanced
<1>1. RegistryInv => Balanced
  BY DEF RegistryInv, ManagerInv
<1> QED
  BY <1>1, RegistryInvariance, PTL

\* While nothing is unloaded, the registry holds the newest instance of every name
\* among those that scans have loaded, whatever else is loaded past it.
THEOREM AlwaysMirrors == Spec => []MirrorsHandles
<1>1. RegistryInv => MirrorsHandles
  BY MirrorHolds
<1> QED
  BY <1>1, RegistryInvariance, PTL

\* While nothing is unloaded, get_plugin finds a live plugin of the name it is
\* given, if a scan has loaded one.
THEOREM LookupAlwaysFinds == Spec => []LookupFinds
<1>1. RegistryInv => LookupFinds
  BY LookupHolds
<1> QED
  BY <1>1, RegistryInvariance, PTL
=============================================================================
