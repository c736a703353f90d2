------------------------------- MODULE LruSpec -------------------------------
(***************************************************************************)
(* What a least-recently-used cache promises its callers, without lists    *)
(* and iterators: there is an order of all keys ever stored, the most      *)
(* recently used first; the cache answers for the first Capacity of them,  *)
(* with the value stored last, and for no other key.                       *)
(***************************************************************************)
EXTENDS Naturals, Sequences, SequencesExt

CONSTANTS Keys, Values, Capacity, None

VARIABLES recent,   \* the keys ever stored, most recently used first
          latest,   \* the value each key was last stored with
          answer    \* what the latest call returned

lvars == <<recent, latest, answer>>

Cached(k) == \E i \in 1 .. Len(recent) : i <= Capacity /\ recent[i] = k

MoveToFront(k) ==
  IF k \in ToSet(recent)
    THEN <<k>> \o RemoveAt(recent, CHOOSE i \in DOMAIN recent : recent[i] = k)
    ELSE <<k>> \o recent

Init == /\ recent = <<>>
        /\ latest = [k \in Keys |-> None]
        /\ answer = None

Hit(k) == /\ Cached(k)
          /\ recent' = MoveToFront(k)
          /\ answer' = latest[k]
          /\ UNCHANGED latest

Miss(k) == /\ ~Cached(k)
           /\ answer' = None
           /\ UNCHANGED <<recent, latest>>

Put(k, v) == /\ recent' = MoveToFront(k)
             /\ latest' = [latest EXCEPT ![k] = v]
             /\ answer' = None

Next == \E k \in Keys : \/ Hit(k)
                        \/ Miss(k)
                        \/ \E v \in Values : Put(k, v)

Spec == Init /\ [][Next]_lvars
=============================================================================
