----------------------------- MODULE CacheProofs -----------------------------
(***************************************************************************)
(* The decision cache, for every capacity, time-to-live, set of keys and   *)
(* decisions and set of instants: the invariant CacheInv is inductive, and *)
(* from it the cache implements TtlStore.                                  *)
(*                                                                         *)
(* The shared cache, for every number of instances, requests and versions  *)
(* of the policy: an entry carries its age, and the version it was made by *)
(* is in use or was when it was made (EntriesDated), so that what an       *)
(* answer comes from is fresh, and old policies die out.                   *)
(***************************************************************************)
EXTENDS DecisionCache, SharedCache, OperatorTheorems

(* The induction hypothesis in the form the steps use it. *)
LEMMA CacheFacts ==
  ASSUME CacheInv
  PROVE  /\ entries \in Seq(EntrySet(Keys, Values))
         /\ Len(entries) \in Nat
         /\ Len(entries) <= MaxEntries
         /\ Distinct(entries)
         /\ clock \in Int
         /\ MaxEntries \in Nat
         /\ \A i \in 1..Len(entries) : entries[i] \in EntrySet(Keys, Values)
  BY LenProperties, ElementOfSeq, CacheAssumption, DecisionCacheAssumption
     DEF CacheInv, TypeOK, Bounded

(* History only grows between two uses of a key, so a key that lost its    *)
(* claim to be retained does not regain it.                                *)
LEMMA SinceGrows ==
  ASSUME NEW A \in SUBSET Keys, NEW B \in SUBSET Keys, A \subseteq B
  PROVE  /\ Cardinality(A) \in Nat
         /\ Cardinality(B) \in Nat
         /\ Cardinality(A) <= Cardinality(B)
  <1>1. IsFiniteSet(A) /\ IsFiniteSet(B)
    BY DecisionCacheAssumption, FS_Subset
  <1>2. QED
    BY <1>1, FS_Subset, FS_CardinalityType

(* An entry found by a lookup is the entry of that key, and by Coherent    *)
(* what the last put of the key stored.                                    *)
LEMMA FoundEntry ==
  ASSUME CacheInv, NEW k \in KeysOf(entries)
  PROVE  LET e == EntryOf(entries, k)
         IN  /\ e \in EntrySet(Keys, Values)
             /\ e.key = k
             /\ stored[k] = [value |-> e.value, expires |-> e.expires]
             /\ stored[k] # Nothing
  <1>1. /\ PositionOf(entries, k) \in 1..Len(entries)
        /\ entries[PositionOf(entries, k)].key = k
    BY CacheFacts, PositionOfPresent
  <1>2. /\ EntryOf(entries, k) \in EntrySet(Keys, Values)
        /\ EntryOf(entries, k).key = k
    BY <1>1, CacheFacts DEF EntryOf
  <1>3. stored[k] = [value |-> EntryOf(entries, k).value,
                     expires |-> EntryOf(entries, k).expires]
    BY <1>1 DEF CacheInv, Coherent, EntryOf
  <1>4. [value |-> EntryOf(entries, k).value, expires |-> EntryOf(entries, k).expires]
          \in [value : Values, expires : Int]
    BY <1>2 DEF EntrySet
  <1>5. QED
    BY <1>2, <1>3, <1>4, DecisionCacheAssumption

-----------------------------------------------------------------------------
LEMMA InitCache == Init => CacheInv
  <1> SUFFICES ASSUME Init PROVE CacheInv
    OBVIOUS
  <1>1. entries = <<>> /\ entries \in Seq(EntrySet(Keys, Values)) /\ Len(entries) = 0
    BY EmptySeq DEF Init
  <1>2. TypeOK
    BY <1>1 DEF Init, TypeOK
  <1>3. Bounded /\ Coherent /\ OrderedByUse
    BY <1>1, CacheAssumption DEF Bounded, Coherent, OrderedByUse, Distinct
  <1>4. RetainsRecent
    BY DEF Init, RetainsRecent
  <1>5. QED
    BY <1>2, <1>3, <1>4 DEF CacheInv
(* A get that hits: the entries are the same, in a new order of use.       *)
LEMMA GetHit ==
  ASSUME CacheInv, NEW k \in Keys, Get(k), Hits(entries, k, clock)
  PROVE  CacheInv'
  <1> DEFINE w == Without(entries, k)
             r == AfterGet(entries, k, clock)
  <1>1. /\ entries' = r
        /\ reply' = EntryOf(entries, k).value
        /\ since' = Used(k)
        /\ clock' = clock
        /\ stored' = stored
    BY DEF Get
  <1>2. k \in KeysOf(entries)
    BY DEF Hits
  <1>3. /\ w \in Seq(EntrySet(Keys, Values))
        /\ Len(w) \in Nat
        /\ \A i \in 1..Len(w) :
             /\ Source(entries, k, i) \in 1..Len(entries)
             /\ w[i] = entries[Source(entries, k, i)]
             /\ w[i].key # k
        /\ \A i, j \in 1..Len(w) :
             i < j => Source(entries, k, i) < Source(entries, k, j)
    BY CacheFacts, WithoutFacts
  <1>4. /\ r \in Seq(EntrySet(Keys, Values))
        /\ Len(r) = Len(w) + 1
        /\ Len(r) = Len(entries)
        /\ r[Len(r)] = EntryOf(entries, k)
        /\ EntryOf(entries, k).key = k
        /\ \A i \in 1..Len(w) : r[i] = w[i]
        /\ KeysOf(r) = KeysOf(entries)
        /\ Distinct(r)
    BY CacheFacts, AfterHit
  <1> HIDE DEF w, r
  <1>5. since \in [Keys -> SUBSET Keys] /\ since' \in [Keys -> SUBSET Keys]
    BY <1>1 DEF CacheInv, TypeOK, Used
  <1>6. TypeOK'
    <2>1. EntryOf(entries, k).value \in Values
      BY <1>2, FoundEntry DEF EntrySet
    <2>2. QED
      BY <1>1, <1>4, <1>5, <2>1 DEF CacheInv, TypeOK
  <1>7. Bounded'
    BY <1>1, <1>4, CacheFacts DEF Bounded
  <1>8. Coherent'
    <2> SUFFICES ASSUME NEW i \in 1..Len(r)
                 PROVE  stored[r[i].key] = [value |-> r[i].value, expires |-> r[i].expires]
      BY <1>1 DEF Coherent
    <2>1. CASE i = Len(r)
      BY <2>1, <1>2, <1>4, FoundEntry
    <2>2. CASE i # Len(r)
      <3>1. i \in 1..Len(w)
        BY <2>2, <1>3, <1>4
      <3>2. QED
        BY <3>1, <1>3, <1>4 DEF CacheInv, Coherent
    <2>3. QED
      BY <2>1, <2>2
  <1>9. OrderedByUse'
    <2> SUFFICES ASSUME NEW i \in 1..Len(r), NEW j \in 1..Len(r), i < j
                 PROVE  r[j].key \in Used(k)[r[i].key]
      BY <1>1 DEF OrderedByUse
    <2>1. i \in 1..Len(w)
      BY <1>3, <1>4
    <2>2. r[i].key \in Keys /\ r[i].key # k
      BY <2>1, <1>3, <1>4, CacheFacts DEF EntrySet
    <2>3. Used(k)[r[i].key] = since[r[i].key] \cup {k}
      BY <2>2 DEF Used
    <2>4. CASE j = Len(r)
      BY <2>3, <2>4, <1>4
    <2>5. CASE j # Len(r)
      <3>1. j \in 1..Len(w)
        BY <2>5, <1>3, <1>4
      <3>2. r[j].key \in since[r[i].key]
        BY <2>1, <3>1, <1>3, <1>4 DEF CacheInv, OrderedByUse
      <3>3. QED
        BY <3>2, <2>3
    <2>6. QED
      BY <2>4, <2>5
  <1>10. RetainsRecent'
    <2> SUFFICES ASSUME NEW j \in Keys, stored[j] # Nothing, clock < stored[j].expires,
                        Cardinality(since'[j]) < MaxEntries
                 PROVE  j \in KeysOf(r)
      BY <1>1 DEF RetainsRecent
    <2>1. CASE j = k
      BY <2>1, <1>2, <1>4
    <2>2. CASE j # k
      <3>1. since[j] \subseteq since'[j]
        BY <2>2, <1>1 DEF Used
      <3>2. Cardinality(since[j]) < MaxEntries
        BY <3>1, <1>5, SinceGrows, CacheFacts
      <3>3. j \in KeysOf(entries)
        BY <3>2 DEF CacheInv, RetainsRecent
      <3>4. QED
        BY <3>3, <1>4
    <2>3. QED
      BY <2>1, <2>2
  <1>11. QED
    BY <1>6, <1>7, <1>8, <1>9, <1>10 DEF CacheInv

(* A get that misses: at most the expired entry of that key goes away.     *)
LEMMA GetMiss ==
  ASSUME CacheInv, NEW k \in Keys, Get(k), ~ Hits(entries, k, clock)
  PROVE  CacheInv'
  <1> DEFINE w == Without(entries, k)
  <1>1. /\ entries' = w
        /\ reply' = Nothing
        /\ since' = since
        /\ clock' = clock
        /\ stored' = stored
    BY DEF Get, AfterGet
  <1>2. /\ w \in Seq(EntrySet(Keys, Values))
        /\ Len(w) \in Nat
        /\ Len(w) <= Len(entries)
        /\ KeysOf(w) = KeysOf(entries) \ {k}
        /\ Distinct(w)
        /\ \A i \in 1..Len(w) :
             /\ Source(entries, k, i) \in 1..Len(entries)
             /\ w[i] = entries[Source(entries, k, i)]
             /\ w[i].key # k
        /\ \A i, j \in 1..Len(w) :
             i < j => Source(entries, k, i) < Source(entries, k, j)
    BY CacheFacts, WithoutFacts
  <1> HIDE DEF w
  <1>3. TypeOK'
    BY <1>1, <1>2 DEF CacheInv, TypeOK
  <1>4. Bounded'
    BY <1>1, <1>2, CacheFacts DEF Bounded
  <1>5. Coherent'
    BY <1>1, <1>2 DEF CacheInv, Coherent
  <1>6. OrderedByUse'
    BY <1>1, <1>2 DEF CacheInv, OrderedByUse
  <1>7. RetainsRecent'
    <2> SUFFICES ASSUME NEW j \in Keys, stored[j] # Nothing, clock < stored[j].expires,
                        Cardinality(since[j]) < MaxEntries
                 PROVE  j \in KeysOf(w)
      BY <1>1 DEF RetainsRecent
    <2>1. j \in KeysOf(entries)
      BY DEF CacheInv, RetainsRecent
    <2>2. ASSUME j = k
          PROVE  FALSE
      <3>1. EntryOf(entries, k).expires <= clock
        BY <2>1, <2>2 DEF Hits, Expired
      <3>2. /\ EntryOf(entries, k) \in EntrySet(Keys, Values)
            /\ stored[k] = [value |-> EntryOf(entries, k).value,
                            expires |-> EntryOf(entries, k).expires]
        BY <2>1, <2>2, FoundEntry
      <3>3. stored[k].expires = EntryOf(entries, k).expires /\ stored[k].expires \in Int
        BY <3>2 DEF EntrySet
      <3>4. QED
        BY <3>1, <3>3, <2>2, CacheFacts
    <2>3. QED
      BY <1>2, <2>1, <2>2
  <1>8. QED
    BY <1>3, <1>4, <1>5, <1>6, <1>7 DEF CacheInv

(* A put evicts at most the entry at the front, and when it does max_entries *)
(* other keys have been used since: nobody was entitled to find it.          *)
LEMMA PutKeeps ==
  ASSUME CacheInv, NEW k \in Keys, NEW v \in Values, Put(k, v)
  PROVE  CacheInv'
  <1> DEFINE w == Without(entries, k)
             r == AfterPut(entries, k, v, clock)
             d == Len(w) + 1 - Len(r)
             e == [key |-> k, expires |-> clock + TtlSeconds, value |-> v]
  <1>1. /\ entries' = r
        /\ reply' = Nothing
        /\ stored' = [stored EXCEPT ![k] = [value |-> v, expires |-> clock + TtlSeconds]]
        /\ since' = Used(k)
        /\ clock' = clock
    BY DEF Put
  <1>2. /\ w \in Seq(EntrySet(Keys, Values))
        /\ Len(w) \in Nat
        /\ KeysOf(w) = KeysOf(entries) \ {k}
        /\ Distinct(w)
        /\ \A i \in 1..Len(w) :
             /\ Source(entries, k, i) \in 1..Len(entries)
             /\ w[i] = entries[Source(entries, k, i)]
             /\ w[i].key # k
        /\ \A i, j \in 1..Len(w) :
             i < j => Source(entries, k, i) < Source(entries, k, j)
    BY CacheFacts, WithoutFacts
  <1>3. /\ r \in Seq(EntrySet(Keys, Values))
        /\ Len(r) \in 1..MaxEntries
        /\ Distinct(r)
        /\ r[Len(r)] = e
        /\ d \in {0, 1}
        /\ d = 1 => Len(r) = MaxEntries
        /\ \A i \in 1..(Len(r) - 1) : i + d \in 1..Len(w) /\ r[i] = w[i + d]
    BY CacheFacts, AfterPutFacts
  <1> HIDE DEF w, r, d
  <1>0. /\ r[Len(r)].key = k
        /\ r[Len(r)].value = v
        /\ r[Len(r)].expires = clock + TtlSeconds
    BY <1>3
  <1> HIDE DEF e
  <1>4. Len(r) = Len(w) + 1 - d /\ Len(r) \in Nat /\ MaxEntries \in Nat
    BY <1>2, <1>3, CacheFacts DEF d
  <1>5. since \in [Keys -> SUBSET Keys] /\ since' \in [Keys -> SUBSET Keys]
    BY <1>1 DEF CacheInv, TypeOK, Used
  <1>6. TypeOK'
    <2>1. stored' \in [Keys -> [value : Values, expires : Int] \cup {Nothing}]
      BY <1>1, CacheFacts, CacheAssumption DEF CacheInv, TypeOK
    <2>2. QED
      BY <1>1, <1>3, <1>5, <2>1 DEF CacheInv, TypeOK
  <1>7. Bounded'
    BY <1>1, <1>3, <1>4 DEF Bounded
  <1>8. \A i \in 1..(Len(r) - 1) :
          /\ i + d \in 1..Len(w)
          /\ r[i] = w[i + d]
          /\ r[i].key \in Keys
          /\ r[i].key # k
    BY <1>2, <1>3, CacheFacts DEF EntrySet
  <1>9. Coherent'
    <2> SUFFICES ASSUME NEW i \in 1..Len(r)
                 PROVE  stored'[r[i].key] = [value |-> r[i].value, expires |-> r[i].expires]
      <3>1. entries' = r
        BY <1>1
      <3>2. QED
        BY <3>1 DEF Coherent
    <2>0. stored \in [Keys -> [value : Values, expires : Int] \cup {Nothing}]
      BY DEF CacheInv, TypeOK
    <2>1. CASE i = Len(r)
      <3>1. stored'[k] = [value |-> v, expires |-> clock + TtlSeconds]
        BY <1>1, <2>0
      <3>2. QED
        BY <3>1, <2>1, <1>0
    <2>2. CASE i # Len(r)
      <3>1. i \in 1..(Len(r) - 1)
        BY <2>2, <1>4
      <3>2. stored'[r[i].key] = stored[r[i].key]
        BY <3>1, <1>1, <1>8, <2>0
      <3>3. stored[r[i].key] = [value |-> r[i].value, expires |-> r[i].expires]
        <4>1. PICK a \in 1..Len(entries) : r[i] = entries[a]
          BY <3>1, <1>2, <1>8
        <4>2. stored[entries[a].key] = [value |-> entries[a].value, expires |-> entries[a].expires]
          BY DEF CacheInv, Coherent
        <4>3. QED
          BY <4>1, <4>2
      <3>4. QED
        BY <3>2, <3>3
    <2>3. QED
      BY <2>1, <2>2
  (* The keys of w stand in order of use, and k comes after all of them. *)
  <1>10. \A i, j \in 1..Len(w) : i < j => w[j].key \in since[w[i].key]
    BY <1>2 DEF CacheInv, OrderedByUse
  <1>11. \A i \in 1..Len(w) :
           /\ w[i].key \in Keys
           /\ since'[w[i].key] = since[w[i].key] \cup {k}
    BY <1>1, <1>2, CacheFacts DEF EntrySet, Used
  <1>12. OrderedByUse'
    <2> SUFFICES ASSUME NEW i \in 1..Len(r), NEW j \in 1..Len(r), i < j
                 PROVE  r[j].key \in since'[r[i].key]
      BY <1>1 DEF OrderedByUse
    <2>1. i \in 1..(Len(r) - 1)
      BY <1>4
    <2>2. i + d \in 1..Len(w) /\ r[i] = w[i + d]
      BY <2>1, <1>8
    <2>3. CASE j = Len(r)
      BY <2>2, <2>3, <1>0, <1>11
    <2>4. CASE j # Len(r)
      <3>1. j \in 1..(Len(r) - 1)
        BY <2>4, <1>4
      <3>2. j + d \in 1..Len(w) /\ r[j] = w[j + d] /\ i + d < j + d
        BY <3>1, <1>3, <1>8
      <3>3. QED
        BY <3>2, <2>2, <1>10, <1>11
    <2>5. QED
      BY <2>3, <2>4
  <1>13. RetainsRecent'
    <2> SUFFICES ASSUME NEW j \in Keys, stored'[j] # Nothing, clock < stored'[j].expires,
                        Cardinality(since'[j]) < MaxEntries
                 PROVE  j \in KeysOf(r)
      BY <1>1 DEF RetainsRecent
    <2>1. CASE j = k
      <3>1. Len(r) \in 1..Len(r) /\ r[Len(r)].key = k
        BY <1>0, <1>3, <1>4
      <3>2. QED
        BY <3>1, <2>1 DEF KeysOf
    <2>2. CASE j # k
      <3>1. stored'[j] = stored[j] /\ since'[j] = since[j] \cup {k}
        BY <2>2, <1>1 DEF CacheInv, TypeOK, Used
      <3>2. Cardinality(since[j]) < MaxEntries
        BY <3>1, <1>5, SinceGrows, CacheFacts
      <3>3. j \in KeysOf(w)
        BY <2>2, <3>1, <3>2, <1>2 DEF CacheInv, RetainsRecent
      <3>4. PICK i \in 1..Len(w) : w[i].key = j
        BY <3>3 DEF KeysOf
      <3>5. CASE i > d
        <4>1. i - d \in 1..(Len(r) - 1) /\ (i - d) + d = i
          BY <3>5, <1>2, <1>3, <1>4
        <4>2. r[i - d] = w[i] /\ i - d \in 1..Len(r)
          BY <4>1, <1>4, <1>8
        <4>3. QED
          BY <4>2, <3>4 DEF KeysOf
      <3>6. CASE ~ (i > d)
        <4>1. i = 1 /\ d = 1 /\ Len(r) = MaxEntries
          BY <3>6, <1>2, <1>3
        <4>2. KeysOf(r) \subseteq since'[j]
          <5> SUFFICES ASSUME NEW a \in 1..Len(r)
                       PROVE  r[a].key \in since'[j]
            BY DEF KeysOf
          <5>1. CASE a = Len(r)
            BY <5>1, <3>1, <1>0
          <5>2. CASE a # Len(r)
            <6>1. a \in 1..(Len(r) - 1)
              BY <5>2, <1>4
            <6>2. a + 1 \in 1..Len(w) /\ r[a] = w[a + 1] /\ 1 < a + 1 /\ 1 \in 1..Len(w)
              BY <6>1, <4>1, <1>2, <1>8
            <6>3. w[a + 1].key \in since[w[1].key]
              BY <6>2, <1>10
            <6>4. QED
              BY <6>2, <6>3, <3>1, <3>4, <4>1
          <5>3. QED
            BY <5>1, <5>2
        <4>3. IsFiniteSet(since'[j])
          BY <1>5, DecisionCacheAssumption, FS_Subset
        <4>4. Len(r) <= Cardinality(since'[j])
          BY <4>2, <4>3, <1>3, DistinctCount
        <4>5. Cardinality(since'[j]) \in Nat
          BY <4>3, FS_CardinalityType
        <4>6. QED
          BY <4>1, <4>4, <4>5, <1>4
      <3>7. QED
        BY <3>5, <3>6
    <2>3. QED
      BY <2>1, <2>2
  <1>14. QED
    BY <1>6, <1>7, <1>9, <1>12, <1>13 DEF CacheInv

(* Time only moves forward: what is live later was live before.            *)
LEMMA AdvanceKeeps ==
  ASSUME CacheInv, Advance
  PROVE  CacheInv'
  <1>1. PICK t \in Instants : t > clock /\ clock' = t
    BY DEF Advance
  <1>2. UNCHANGED <<entries, reply, stored, since>>
    BY DEF Advance
  <1>3. clock \in Int /\ clock' \in Int /\ clock < clock'
    BY <1>1, CacheFacts, DecisionCacheAssumption
  <1>4. TypeOK'
    BY <1>1, <1>2 DEF CacheInv, TypeOK
  <1>5. (Bounded /\ Coherent /\ OrderedByUse)'
    BY <1>2 DEF CacheInv, Bounded, Coherent, OrderedByUse
  <1>6. RetainsRecent'
    <2> SUFFICES ASSUME NEW k \in Keys, stored[k] # Nothing, clock' < stored[k].expires,
                        Cardinality(since[k]) < MaxEntries
                 PROVE  k \in KeysOf(entries)
      BY <1>2 DEF RetainsRecent
    <2>1. stored[k].expires \in Int
      BY DEF CacheInv, TypeOK
    <2>2. clock < stored[k].expires
      BY <1>3, <2>1
    <2>3. QED
      BY <2>2 DEF CacheInv, RetainsRecent
  <1>7. QED
    BY <1>4, <1>5, <1>6 DEF CacheInv

LEMMA NextKeeps == CacheInv /\ [Next]_vars => CacheInv'
  <1> SUFFICES ASSUME CacheInv, [Next]_vars PROVE CacheInv'
    OBVIOUS
  <1>1. ASSUME NEW k \in Keys, Get(k) PROVE CacheInv'
    BY <1>1, GetHit, GetMiss
  <1>2. ASSUME NEW k \in Keys, NEW v \in Values, Put(k, v) PROVE CacheInv'
    BY <1>2, PutKeeps
  <1>3. CASE Advance
    BY <1>3, AdvanceKeeps
  <1>4. CASE UNCHANGED vars
    BY <1>4 DEF vars, CacheInv, TypeOK, Bounded, Coherent, OrderedByUse, RetainsRecent
  <1>5. QED
    BY <1>1, <1>2, <1>3, <1>4 DEF Next

(* Every part of CacheInv holds in every reachable state of the cache, in  *)
(* particular types are respected and max_entries is never exceeded.       *)
THEOREM CacheInvariant == Spec => []CacheInv
  BY InitCache, NextKeeps, PTL DEF Spec

(* Type correctness of ClassificationCache (cache.py:9-33).                *)
THEOREM CacheTypeCorrect == Spec => []TypeOK
  <1>1. CacheInv => TypeOK
    BY DEF CacheInv
  <1>2. QED
    BY <1>1, CacheInvariant, PTL

(* A decision that has not expired survives fewer than max_entries uses of *)
(* other keys, for every interleaving of gets and puts (cache.py:26-33).   *)
THEOREM CacheRetainsRecent == Spec => []RetainsRecent
  <1>1. CacheInv => RetainsRecent
    BY DEF CacheInv
  <1>2. QED
    BY <1>1, CacheInvariant, PTL

-----------------------------------------------------------------------------
(* TtlStore and DecisionCache count with the same operator.                *)
LEMMA SameCardinality == \A S : Store!Cardinality(S) = Cardinality(S)
  BY DEF Store!Cardinality, Cardinality

(* A step of the OrderedDict is a step of the abstract store: the value a  *)
(* hit returns is the last one put, before it expired, and a miss of a     *)
(* live key has the excuse of capacity.                                    *)
LEMMA StepRefines == CacheInv /\ [Next]_vars => [Store!Next]_(Store!storeVars)
  <1> SUFFICES ASSUME CacheInv, [Next]_vars
               PROVE  [Store!Next]_(Store!storeVars)
    OBVIOUS
  <1>1. ASSUME NEW k \in Keys, Get(k), Hits(entries, k, clock)
        PROVE  Store!Answer(k)
    <2>1. k \in KeysOf(entries) /\ ~ (EntryOf(entries, k).expires <= clock)
      BY <1>1 DEF Hits, Expired
    <2>2. /\ EntryOf(entries, k) \in EntrySet(Keys, Values)
          /\ stored[k] = [value |-> EntryOf(entries, k).value,
                          expires |-> EntryOf(entries, k).expires]
          /\ stored[k] # Nothing
      BY <2>1, FoundEntry
    <2>3. /\ stored[k].value = EntryOf(entries, k).value
          /\ stored[k].expires = EntryOf(entries, k).expires
          /\ EntryOf(entries, k).expires \in Int
      BY <2>2 DEF EntrySet
    <2>4. Store!Live(k)
      BY <2>1, <2>2, <2>3, CacheFacts DEF Store!Live
    <2>5. QED
      BY <1>1, <2>3, <2>4 DEF Get, Store!Answer, Store!Used, Used
  <1>2. ASSUME NEW k \in Keys, Get(k), ~ Hits(entries, k, clock)
        PROVE  Store!Miss(k)
    <2>1. ASSUME Store!Live(k)
          PROVE  Cardinality(since[k]) >= MaxEntries
      <3>1. CASE k \in KeysOf(entries)
        <4>0. /\ EntryOf(entries, k) \in EntrySet(Keys, Values)
              /\ stored[k] = [value |-> EntryOf(entries, k).value,
                              expires |-> EntryOf(entries, k).expires]
          BY <3>1, FoundEntry
        <4>1. /\ EntryOf(entries, k) \in EntrySet(Keys, Values)
              /\ stored[k].expires = EntryOf(entries, k).expires
          BY <4>0
        <4>2. EntryOf(entries, k).expires <= clock /\ stored[k].expires \in Int
          BY <3>1, <4>1, <1>2 DEF Hits, Expired, EntrySet
        <4>3. QED
          BY <2>1, <4>1, <4>2, CacheFacts DEF Store!Live
      <3>2. CASE k \notin KeysOf(entries)
        <4>1. ~ (Cardinality(since[k]) < MaxEntries)
          BY <2>1, <3>2 DEF CacheInv, RetainsRecent, Store!Live
        <4>2. since[k] \in SUBSET Keys
          BY DEF CacheInv, TypeOK
        <4>3. Cardinality(since[k]) \in Nat
          BY <4>2, SinceGrows
        <4>4. QED
          BY <4>1, <4>3, CacheFacts
      <3>3. QED
        BY <3>1, <3>2
    <2>2. QED
      BY <1>2, <2>1, SameCardinality DEF Get, Store!Miss
  <1>3. ASSUME NEW k \in Keys, NEW v \in Values, Put(k, v)
        PROVE  Store!Put(k, v)
    BY <1>3 DEF Put, Store!Put, Store!Used, Used
  <1>4. ASSUME Advance
        PROVE  Store!Advance
    BY <1>4 DEF Advance, Store!Advance
  <1>5. CASE UNCHANGED vars
    BY <1>5 DEF vars, Store!storeVars
  <1>6. QED
    BY <1>1, <1>2, <1>3, <1>4, <1>5 DEF Next, Store!Next

(* ClassificationCache is a TTL store that forgets under capacity pressure *)
(* only: it never returns an overwritten or expired decision.              *)
THEOREM CacheImplementsStore == Spec => ImplementsStore
  <1>1. Init => Store!Init
    BY DEF Init, Store!Init
  <1>2. QED
    BY <1>1, CacheInvariant, StepRefines, PTL DEF Spec, Store!Spec, ImplementsStore

-----------------------------------------------------------------------------
(* The cache that several processes share *)

InUse(v) == \E i \in Instances : policy[i] = v

(* The entry of a key expires a lifetime after its decision was made, and  *)
(* the version that made it is in use, or was not given up before that.    *)
EntriesDated ==
  \A k \in SharedKeys : store[k] # NoEntry =>
    LET made == store[k].value
    IN  /\ made.at <= time
        /\ store[k].expires = made.at + Expiry
        /\ InUse(made.policy) \/ (retired[made.policy] # NoEntry
                                    /\ made.at <= retired[made.policy])

SharedInv == SharedTypeOK /\ EntriesDated

LEMMA ExpiryFacts ==
  /\ Expiry \in Nat \ {0}
  /\ Expiry <= IF TtlHalves < 2 THEN 2 ELSE TtlHalves
  BY SharedAssumption DEF Expiry

LEMMA KeyOfRequest ==
  ASSUME NEW r \in Requests
  PROVE  KeyOf[r] \in SharedKeys /\ InstanceOf[r] \in Instances
  BY SharedAssumption DEF SharedKeys

LEMMA InitShared == SharedInit => SharedInv
  <1> SUFFICES ASSUME SharedInit PROVE SharedInv
    OBVIOUS
  <1>1. SharedTypeOK
    BY SharedAssumption DEF SharedInit, SharedTypeOK
  <1>2. EntriesDated
    BY DEF SharedInit, EntriesDated
  <1>3. QED
    BY <1>1, <1>2 DEF SharedInv

(* A decision that is made is in force and of this moment, and so is the   *)
(* entry it leaves.                                                        *)
LEMMA StoredDated ==
  ASSUME SharedInv, NEW r \in Requests,
         store' = Stored(Made(r)), UNCHANGED <<time, policy, retired>>
  PROVE  /\ Made(r) \in Decisions
         /\ store' \in [SharedKeys -> Entries \cup {NoEntry}]
         /\ EntriesDated'
  <1> DEFINE key == KeyOf[r]
             new == [value |-> Made(r), expires |-> time + Expiry]
  <1>1. /\ key \in SharedKeys /\ InstanceOf[r] \in Instances
        /\ time \in HalfSeconds /\ time \in Nat /\ nextId \in Nat \ {0}
        /\ policy[InstanceOf[r]] \in Policies
        /\ store \in [SharedKeys -> Entries \cup {NoEntry}]
    BY KeyOfRequest, SharedAssumption DEF SharedInv, SharedTypeOK
  <1>2. /\ Made(r) \in Decisions
        /\ Made(r).key = key /\ Made(r).at = time /\ Made(r).policy = policy[InstanceOf[r]]
    BY <1>1 DEF Made, Decisions
  <1>3. new \in Entries /\ new.value = Made(r) /\ new.expires = time + Expiry
    BY <1>1, <1>2, ExpiryFacts DEF Entries
  <1> HIDE DEF new
  <1>4. store' = [store EXCEPT ![key] = new]
    BY <1>2 DEF Stored, new
  <1>5. store' \in [SharedKeys -> Entries \cup {NoEntry}]
    BY <1>1, <1>3, <1>4
  <1>6. ASSUME NEW k \in SharedKeys, store'[k] # NoEntry
        PROVE  LET made == store'[k].value
               IN  /\ made.at <= time
                   /\ store'[k].expires = made.at + Expiry
                   /\ InUse(made.policy) \/ (retired[made.policy] # NoEntry
                                               /\ made.at <= retired[made.policy])
    <2>1. CASE k = key
      <3>1. store'[k] = new
        BY <1>1, <1>4, <2>1
      <3>2. InUse(Made(r).policy)
        BY <1>1, <1>2 DEF InUse
      <3>3. QED
        BY <1>1, <1>2, <1>3, <3>1, <3>2
    <2>2. CASE k # key
      <3>1. store'[k] = store[k]
        BY <1>1, <1>4, <2>2
      <3>2. QED
        BY <1>6, <3>1 DEF SharedInv, EntriesDated
    <2>3. QED
      BY <2>1, <2>2
  <1>7. EntriesDated'
    BY <1>6 DEF EntriesDated, InUse
  <1>8. QED
    BY <1>2, <1>5, <1>7

LEMMA HandleKeeps ==
  ASSUME SharedInv, NEW r \in Requests, Handle(r)
  PROVE  SharedInv'
  <1>1. UNCHANGED <<time, store, policy, nextId, retired, restarts>>
    BY DEF Handle, Hit, Miss, GetFails
  <1>2. EntriesDated'
    BY <1>1 DEF SharedInv, EntriesDated, InUse
  <1>3. stage' \in [Requests -> {"idle", "working", "answered", "failed"}]
    BY DEF Handle, Hit, Miss, GetFails, Answers, Fails, SharedInv, SharedTypeOK
  <1>4. answer' \in [Requests -> Decisions \cup {NoEntry}]
    <2>1. CASE Hit(r)
      <3>1. store[KeyOf[r]].value \in Decisions
        BY <2>1, KeyOfRequest DEF Hit, Live, SharedInv, SharedTypeOK, Entries
      <3>2. QED
        BY <2>1, <3>1 DEF Hit, Answers, SharedInv, SharedTypeOK
    <2>2. CASE Miss(r) \/ GetFails(r)
      BY <2>2 DEF Miss, GetFails, Fails, SharedInv, SharedTypeOK
    <2>3. QED
      BY <2>1, <2>2 DEF Handle
  <1>5. QED
    BY <1>1, <1>2, <1>3, <1>4 DEF SharedInv, SharedTypeOK

LEMMA ResumeKeeps ==
  ASSUME SharedInv, NEW r \in Requests, Resume(r)
  PROVE  SharedInv'
  <1>1. UNCHANGED <<time, policy, retired, restarts>> /\ nextId' = nextId + 1
    BY DEF Resume, Puts, PutFails
  <1>2. store' = Stored(Made(r)) \/ store' = store
    BY DEF Resume, Puts, PutFails
  <1>3. EntriesDated' /\ store' \in [SharedKeys -> Entries \cup {NoEntry}]
    <2>1. CASE store' = Stored(Made(r))
      BY <1>1, <2>1, StoredDated
    <2>2. CASE store' = store
      BY <1>1, <2>2 DEF SharedInv, SharedTypeOK, EntriesDated, InUse
    <2>3. QED
      BY <1>2, <2>1, <2>2
  <1>4. stage' \in [Requests -> {"idle", "working", "answered", "failed"}]
    BY DEF Resume, Puts, PutFails, Answers, Fails, SharedInv, SharedTypeOK
  <1>5. answer' \in [Requests -> Decisions \cup {NoEntry}]
    <2>1. CASE Puts(r)
      <3>1. Made(r) \in Decisions
        BY <1>1, <2>1, StoredDated DEF Puts
      <3>2. QED
        BY <2>1, <3>1 DEF Puts, Answers, SharedInv, SharedTypeOK
    <2>2. CASE PutFails(r)
      BY <2>2 DEF PutFails, Fails, SharedInv, SharedTypeOK
    <2>3. QED
      BY <2>1, <2>2 DEF Resume
  <1>6. QED
    BY <1>1, <1>3, <1>4, <1>5 DEF SharedInv, SharedTypeOK

LEMMA ForgetKeeps ==
  ASSUME SharedInv, NEW k \in SharedKeys, Forget(k)
  PROVE  SharedInv'
  <1>1. /\ UNCHANGED <<time, policy, stage, answer, nextId, retired, restarts>>
        /\ store' = [store EXCEPT ![k] = NoEntry]
    BY DEF Forget
  <1>2. SharedTypeOK'
    BY <1>1 DEF SharedInv, SharedTypeOK
  <1>3. \A j \in SharedKeys : store'[j] # NoEntry => store'[j] = store[j]
    BY <1>1 DEF SharedInv, SharedTypeOK
  <1>4. EntriesDated'
    BY <1>1, <1>3 DEF SharedInv, EntriesDated, InUse
  <1>5. QED
    BY <1>2, <1>4 DEF SharedInv

LEMMA TimeKeeps ==
  ASSUME SharedInv, TimePasses
  PROVE  SharedInv'
  <1>1. /\ UNCHANGED <<store, policy, stage, answer, nextId, retired, restarts>>
        /\ time' \in HalfSeconds /\ time' > time
        /\ time \in Nat /\ time' \in Nat
    BY SharedAssumption DEF TimePasses, SharedInv, SharedTypeOK
  <1>2. SharedTypeOK'
    BY <1>1 DEF SharedInv, SharedTypeOK
  <1>3. ASSUME NEW k \in SharedKeys, store[k] # NoEntry
        PROVE  store[k].value.at <= time'
    <2>1. store[k].value.at \in Nat /\ store[k].value.at <= time
      BY <1>3, SharedAssumption DEF SharedInv, SharedTypeOK, EntriesDated, Entries, Decisions
    <2>2. QED
      BY <1>1, <2>1
  <1>4. EntriesDated'
    BY <1>1, <1>3 DEF SharedInv, EntriesDated, InUse
  <1>5. QED
    BY <1>2, <1>4 DEF SharedInv

(* An instance that restarts retires its version at this moment, which is  *)
(* not before any entry was made.                                          *)
LEMMA RestartKeeps ==
  ASSUME SharedInv, NEW i \in Instances, Restart(i)
  PROVE  SharedInv'
  <1> DEFINE u == policy[i]
  <1>1. /\ UNCHANGED <<time, store, answer, nextId>>
        /\ restarts < MaxRestarts /\ restarts' = restarts + 1
        /\ retired' = [retired EXCEPT ![u] = time]
        /\ stage' = [r \in Requests |->
                       IF InstanceOf[r] = i /\ stage[r] = "working" THEN "failed" ELSE stage[r]]
    BY DEF Restart
  <1>2. PICK w \in Policies : policy' = [policy EXCEPT ![i] = w]
    BY DEF Restart
  <1>3. u \in Policies /\ time \in HalfSeconds
    BY DEF SharedInv, SharedTypeOK
  <1>4. SharedTypeOK'
    <2>1. policy' \in [Instances -> Policies]
      BY <1>2 DEF SharedInv, SharedTypeOK
    <2>2. stage' \in [Requests -> {"idle", "working", "answered", "failed"}]
      BY <1>1 DEF SharedInv, SharedTypeOK
    <2>3. retired' \in [Policies -> HalfSeconds \cup {NoEntry}]
      BY <1>1, <1>3 DEF SharedInv, SharedTypeOK
    <2>4. restarts' \in 0..MaxRestarts
      BY <1>1, SharedAssumption DEF SharedInv, SharedTypeOK
    <2>5. QED
      BY <1>1, <2>1, <2>2, <2>3, <2>4 DEF SharedInv, SharedTypeOK
  <1>5. ASSUME NEW k \in SharedKeys, store[k] # NoEntry
        PROVE  LET made == store[k].value
               IN  \/ \E j \in Instances : policy'[j] = made.policy
                   \/ retired'[made.policy] # NoEntry /\ made.at <= retired'[made.policy]
    <2> DEFINE v == store[k].value.policy
               at == store[k].value.at
    <2>1. v \in Policies /\ at <= time
      BY <1>5 DEF SharedInv, SharedTypeOK, EntriesDated, Entries, Decisions
    <2>2. InUse(v) \/ (retired[v] # NoEntry /\ at <= retired[v])
      BY <1>5 DEF SharedInv, EntriesDated
    <2> HIDE DEF at, v
    <2>3. CASE v = u
      <3>1. retired'[v] = time /\ time # NoEntry
        BY <1>1, <1>3, <2>1, <2>3, SharedAssumption DEF SharedInv, SharedTypeOK
      <3>2. QED
        BY <2>1, <3>1 DEF at, v
    <2>4. CASE v # u
      <3>1. retired'[v] = retired[v]
        BY <1>1, <1>3, <2>1, <2>4 DEF SharedInv, SharedTypeOK
      <3>2. ASSUME NEW j \in Instances, policy[j] = v
            PROVE  policy'[j] = v
        BY <1>2, <2>4, <3>2 DEF SharedInv, SharedTypeOK
      <3>3. QED
        BY <2>2, <3>1, <3>2 DEF InUse, at, v
    <2>5. QED
      BY <2>3, <2>4
  <1>6. EntriesDated'
    BY <1>1, <1>5 DEF SharedInv, EntriesDated, InUse
  <1>7. QED
    BY <1>4, <1>6 DEF SharedInv

(* The invariant of the shared cache, however its processes restart, fail  *)
(* and put over each other (cache.py:41-68).                               *)
THEOREM SharedInvariant == SharedSpec => []SharedInv
  <1>1. SharedInv /\ [SharedNext]_sharedVars => SharedInv'
    <2> SUFFICES ASSUME SharedInv, [SharedNext]_sharedVars
                 PROVE  SharedInv'
      OBVIOUS
    <2>1. CASE UNCHANGED sharedVars
      BY <2>1 DEF sharedVars, SharedInv, SharedTypeOK, EntriesDated, InUse
    <2>2. CASE SharedNext
      BY <2>2, HandleKeeps, ResumeKeeps, ForgetKeeps, TimeKeeps, RestartKeeps DEF SharedNext
    <2>3. QED
      BY <2>1, <2>2
  <1>2. QED
    BY <1>1, InitShared, PTL DEF SharedSpec

(* What a step answers: a live entry, or what was made this moment.        *)
LEMMA WhatIsAnswered ==
  ASSUME SharedInv, SharedNext, NEW r \in Requests, Answered(r)
  PROVE  /\ answer'[r].at \in Nat /\ time \in Nat
         /\ time < answer'[r].at + Expiry
         /\ LET v == answer'[r].policy
            IN  \/ InUse(v)
                \/ retired[v] # NoEntry /\ retired[v] \in Nat /\ answer'[r].at <= retired[v]
  <1> DEFINE key == KeyOf[r]
  <1>0. time \in Nat /\ answer \in [Requests -> Decisions \cup {NoEntry}] /\ key \in SharedKeys
    BY KeyOfRequest, SharedAssumption DEF SharedInv, SharedTypeOK
  <1>1. Hit(r) \/ Puts(r)
    BY <1>0 DEF SharedNext, Handle, Resume, Hit, Miss, GetFails, Puts, PutFails, Forget, Restart,
                TimePasses, Answers, Fails, Answered
  <1>2. CASE Hit(r)
    <2>1. answer'[r] = store[key].value /\ store[key] # NoEntry /\ time < store[key].expires
      BY <1>0, <1>2 DEF Hit, Live, Answers
    <2> DEFINE made == store[key].value
    <2>2. made \in Decisions
      BY <1>0, <2>1 DEF SharedInv, SharedTypeOK, Entries
    <2>3. made.at \in Nat /\ made.policy \in Policies
      BY <2>2, SharedAssumption DEF Decisions
    <2>4. /\ store[key].expires = made.at + Expiry
          /\ InUse(made.policy) \/ (retired[made.policy] # NoEntry
                                      /\ made.at <= retired[made.policy])
      BY <1>0, <2>1 DEF SharedInv, EntriesDated
    <2>5. retired[made.policy] # NoEntry => retired[made.policy] \in Nat
      BY <2>3, SharedAssumption DEF SharedInv, SharedTypeOK
    <2> HIDE DEF made
    <2>6. QED
      BY <1>0, <2>1, <2>3, <2>4, <2>5 DEF made
  <1>3. CASE Puts(r)
    <2>1. answer'[r] = Made(r)
      BY <1>0, <1>3 DEF Puts, Answers
    <2>2. Made(r).at = time /\ Made(r).policy = policy[InstanceOf[r]]
      BY DEF Made
    <2>3. InUse(Made(r).policy)
      BY <2>2, KeyOfRequest DEF InUse
    <2>4. time < time + Expiry
      BY <1>0, ExpiryFacts
    <2>5. QED
      BY <1>0, <2>1, <2>2, <2>3, <2>4
  <1>4. QED
    BY <1>1, <1>2, <1>3

(* Nobody gets a decision older than the configured lifetime.              *)
THEOREM SharedFresh == SharedSpec => Fresh
  <1>1. SharedInv /\ [SharedNext]_sharedVars =>
          [\A r \in Requests :
             Answered(r) =>
               time - answer'[r].at < (IF TtlHalves < 2 THEN 2 ELSE TtlHalves)]_sharedVars
    <2> SUFFICES ASSUME SharedInv, SharedNext, NEW r \in Requests, Answered(r)
                 PROVE  time - answer'[r].at < (IF TtlHalves < 2 THEN 2 ELSE TtlHalves)
      OBVIOUS
    <2>1. /\ answer'[r].at \in Nat /\ time \in Nat
          /\ time < answer'[r].at + Expiry
      BY WhatIsAnswered
    <2>2. QED
      BY <2>1, ExpiryFacts, SharedAssumption
  <1>2. QED
    BY <1>1, SharedInvariant, PTL DEF SharedSpec, Fresh

(* A policy no instance runs is served for less than a lifetime more.      *)
THEOREM SharedOldPolicyDiesOut == SharedSpec => OldPolicyDiesOut
  <1> DEFINE Dies(r) ==
        LET v == answer'[r].policy IN
        \/ \E i \in Instances : policy[i] = v
        \/ retired[v] # NoEntry /\ time - retired[v] < Expiry
  <1>1. SharedInv /\ [SharedNext]_sharedVars =>
          [\A r \in Requests : Answered(r) => Dies(r)]_sharedVars
    <2> SUFFICES ASSUME SharedInv, SharedNext, NEW r \in Requests, Answered(r)
                 PROVE  Dies(r)
      OBVIOUS
    <2> DEFINE v == answer'[r].policy
    <2>1. /\ answer'[r].at \in Nat /\ time \in Nat
          /\ time < answer'[r].at + Expiry
          /\ InUse(v) \/ (retired[v] # NoEntry /\ retired[v] \in Nat
                            /\ answer'[r].at <= retired[v])
      BY WhatIsAnswered
    <2>2. (retired[v] \in Nat /\ answer'[r].at <= retired[v]) => time - retired[v] < Expiry
      <3> HIDE DEF v
      <3>1. QED
        BY <2>1, ExpiryFacts
    <2>3. QED
      BY <2>1, <2>2 DEF InUse
  <1>2. QED
    BY <1>1, SharedInvariant, PTL DEF SharedSpec, OldPolicyDiesOut
=============================================================================
