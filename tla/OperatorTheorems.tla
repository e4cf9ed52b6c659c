-------------------------- MODULE OperatorTheorems --------------------------
(***************************************************************************)
(* What the operators the machines are built from return and preserve.     *)
(*                                                                         *)
(* LruTtlCache: what the operations of the decision cache do to its        *)
(* sequence of entries, for every bound, time-to-live, key set and value   *)
(* set; the proofs about machines never look inside SubSeq again.          *)
(*                                                                         *)
(* FixedWindow: what one call does to the slot of its key.                 *)
(*                                                                         *)
(* Conversation: the cache key tells requests apart that the classifier    *)
(* tells apart, for every conversation whose window reaches the user's     *)
(* latest message, and not beyond.                                         *)
(*                                                                         *)
(* Classifier: classify() decides, for every policy that loads and every   *)
(* reading of a text, within the published schema.                         *)
(*                                                                         *)
(* Sums over finite sets, and what they say of the votes of SemanticVote.  *)
(* The figures of a report are sums as well (ModelPipelineProofs).         *)
(***************************************************************************)
EXTENDS LruTtlCache, FixedWindow, Conversation, SemanticVote,
        SequenceTheorems, FiniteSetTheorems, WellFoundedInduction, TLAPS

(* A key that is in the cache has a position, and the entry there is its. *)
LEMMA PositionOfPresent ==
  ASSUME NEW K, NEW V, NEW entries \in Seq(EntrySet(K, V)),
         NEW key \in KeysOf(entries)
  PROVE  /\ PositionOf(entries, key) \in 1..Len(entries)
         /\ entries[PositionOf(entries, key)].key = key
  BY DEF KeysOf, PositionOf

(* Deleting a key of the dict: every other entry stays, in its order.      *)
(* Position i of the result is position i of the cache before the deleted  *)
(* entry and position i + 1 after it.                                      *)
LEMMA WithoutPresent ==
  ASSUME NEW K, NEW V, NEW entries \in Seq(EntrySet(K, V)),
         NEW key \in KeysOf(entries)
  PROVE  /\ Without(entries, key) \in Seq(EntrySet(K, V))
         /\ Len(Without(entries, key)) = Len(entries) - 1
         /\ \A i \in 1..Len(Without(entries, key)) :
              Without(entries, key)[i] =
                IF i < PositionOf(entries, key) THEN entries[i] ELSE entries[i + 1]
  <1> DEFINE p == PositionOf(entries, key)
             E == EntrySet(K, V)
             left == SubSeq(entries, 1, p - 1)
             right == SubSeq(entries, p + 1, Len(entries))
  <1>1. p \in 1..Len(entries) /\ Len(entries) \in Nat
    BY PositionOfPresent, LenProperties
  <1>2. \A i \in 1..Len(entries) : entries[i] \in E
    BY ElementOfSeq
  <1>3. /\ left \in Seq(E)
        /\ Len(left) = p - 1
        /\ \A i \in 1..(p - 1) : left[i] = entries[i]
    <2>1. \A i \in 1..(p - 1) : entries[i] \in E
      BY <1>1, <1>2
    <2>2. 1 \in Int /\ p - 1 \in Int
      BY <1>1
    <2> HIDE DEF p, E
    <2>3. QED
      BY <1>1, <2>1, <2>2, SubSeqProperties
  <1>4. /\ right \in Seq(E)
        /\ Len(right) = Len(entries) - p
        /\ \A i \in 1..(Len(entries) - p) : right[i] = entries[p + i]
    <2>1. \A i \in (p + 1)..Len(entries) : entries[i] \in E
      BY <1>1, <1>2
    <2>2. p + 1 \in Int /\ Len(entries) \in Int
      BY <1>1
    <2> HIDE DEF p, E
    <2>3. QED
      BY <1>1, <2>1, <2>2, SubSeqProperties
  <1>5. /\ left \o right \in Seq(E)
        /\ Len(left \o right) = Len(left) + Len(right)
        /\ \A i \in 1..(Len(left) + Len(right)) : (left \o right)[i] =
             IF i <= Len(left) THEN left[i] ELSE right[i - Len(left)]
    <2> HIDE DEF left, right, E
    <2>1. QED
      BY <1>3, <1>4, ConcatProperties
  <1>6. Without(entries, key) = left \o right
    BY DEF Without
  <1> HIDE DEF left, right, p, E
  <1>7. Len(left \o right) = Len(entries) - 1
    BY <1>1, <1>3, <1>4, <1>5
  <1>8. ASSUME NEW i \in 1..(Len(entries) - 1)
        PROVE  (left \o right)[i] = IF i < p THEN entries[i] ELSE entries[i + 1]
    BY <1>1, <1>3, <1>4, <1>5
  <1>9. QED
    BY <1>5, <1>6, <1>7, <1>8 DEF p, E

(* Where the entry at position i of Without(entries, key) was before.      *)
Source(entries, key, i) ==
  IF key \in KeysOf(entries) /\ i >= PositionOf(entries, key) THEN i + 1 ELSE i

(* Deleting keeps the other keys and their order, whether or not the key   *)
(* was in the cache.                                                       *)
LEMMA WithoutFacts ==
  ASSUME NEW K, NEW V, NEW entries \in Seq(EntrySet(K, V)), Distinct(entries),
         NEW key
  PROVE  LET w == Without(entries, key)
         IN  /\ w \in Seq(EntrySet(K, V))
             /\ Len(w) \in Nat
             /\ Len(w) <= Len(entries)
             /\ KeysOf(w) = KeysOf(entries) \ {key}
             /\ Distinct(w)
             /\ \A i \in 1..Len(w) :
                  /\ Source(entries, key, i) \in 1..Len(entries)
                  /\ w[i] = entries[Source(entries, key, i)]
                  /\ w[i].key # key
             /\ \A i, j \in 1..Len(w) :
                  i < j => Source(entries, key, i) < Source(entries, key, j)
  <1> DEFINE w == Without(entries, key)
             E == EntrySet(K, V)
             p == PositionOf(entries, key)
             n == Len(entries)
  <1>n. n \in Nat
    BY LenProperties
  <1>1. CASE key \notin KeysOf(entries)
    <2>1. w = entries
      BY <1>1 DEF Without
    <2>2. \A i \in 1..n : Source(entries, key, i) = i
      BY <1>1 DEF Source
    <2>3. \A i \in 1..n : entries[i].key # key
      BY <1>1 DEF KeysOf
    <2>4. KeysOf(entries) = KeysOf(entries) \ {key}
      BY <1>1
    <2>5. QED
      BY <1>n, <2>1, <2>2, <2>3, <2>4
  <1>2. CASE key \in KeysOf(entries)
    <2>1. /\ w \in Seq(E)
          /\ Len(w) = n - 1
          /\ \A i \in 1..Len(w) : w[i] = IF i < p THEN entries[i] ELSE entries[i + 1]
      BY <1>2, WithoutPresent
    <2>2. p \in 1..n /\ entries[p].key = key
      BY <1>2, PositionOfPresent
    <2>3. \A i \in Int : Source(entries, key, i) = IF i >= p THEN i + 1 ELSE i
      BY <1>2 DEF Source
    <2> HIDE DEF w, p, n, E
    <2>4. \A i \in 1..n : i # p => entries[i].key # key
      BY <2>2 DEF Distinct, n
    <2>5. ASSUME NEW i \in 1..Len(w)
          PROVE  /\ Source(entries, key, i) \in 1..n
                 /\ Source(entries, key, i) # p
                 /\ w[i] = entries[Source(entries, key, i)]
                 /\ w[i].key # key
      <3> DEFINE q == Source(entries, key, i)
      <3>1. i \in 1..(n - 1)
        BY <1>n, <2>1
      <3>2. q = IF i >= p THEN i + 1 ELSE i
        BY <3>1, <2>3
      <3>3. w[i] = IF i < p THEN entries[i] ELSE entries[i + 1]
        BY <2>1
      <3> HIDE DEF q
      <3>4. q \in 1..n /\ q # p
        BY <1>n, <2>2, <3>1, <3>2
      <3>5. w[i] = entries[q]
        BY <1>n, <2>2, <3>1, <3>2, <3>3
      <3>6. QED
        BY <2>4, <3>4, <3>5 DEF q
    <2>6. \A i, j \in 1..Len(w) :
            i < j => Source(entries, key, i) < Source(entries, key, j)
      <3>1. TAKE i, j \in 1..Len(w)
      <3>2. HAVE i < j
      <3> DEFINE a == Source(entries, key, i)
                 b == Source(entries, key, j)
      <3>3. i \in Int /\ j \in Int
        BY <1>n, <2>1
      <3>4. a = IF i >= p THEN i + 1 ELSE i
        BY <2>3, <3>3
      <3>5. b = IF j >= p THEN j + 1 ELSE j
        BY <2>3, <3>3
      <3>6. p \in Int
        BY <1>n, <2>2
      <3> HIDE DEF a, b
      <3>7. a < b
        BY <3>2, <3>3, <3>4, <3>5, <3>6
      <3>8. QED
        BY <3>7 DEF a, b
    <2>7. Distinct(w)
      <3> SUFFICES ASSUME NEW i \in 1..Len(w), NEW j \in 1..Len(w), w[i].key = w[j].key
                   PROVE  i = j
        BY DEF Distinct
      <3>1. Source(entries, key, i) = Source(entries, key, j)
        BY <2>5 DEF Distinct, n
      <3>2. ~ (i < j) /\ ~ (j < i)
        BY <3>1, <2>5, <2>6, <1>n
      <3>3. QED
        BY <3>2, <1>n, <2>1
    <2>8. KeysOf(w) \subseteq KeysOf(entries) \ {key}
      BY <2>5 DEF KeysOf, n
    <2>9. KeysOf(entries) \ {key} \subseteq KeysOf(w)
      <3> SUFFICES ASSUME NEW a \in 1..n, entries[a].key # key
                   PROVE  \E i \in 1..Len(w) : w[i].key = entries[a].key
        BY DEF KeysOf, n
      <3>1. CASE a < p
        BY <3>1, <1>n, <2>1, <2>2
      <3>2. CASE a > p
        <4>1. a - 1 \in 1..Len(w) /\ w[a - 1] = entries[a]
          BY <3>2, <1>n, <2>1, <2>2
        <4>2. QED
          BY <4>1
      <3>3. QED
        BY <3>1, <3>2, <1>n, <2>2
    <2>10. QED
      BY <1>n, <2>1, <2>5, <2>6, <2>7, <2>8, <2>9 DEF w, n, E
  <1>3. QED
    BY <1>1, <1>2

(* Rewriting or refreshing an entry: the key ends up last, with the given  *)
(* entry, and the others keep their order.                                 *)
LEMMA MoveToEnd ==
  ASSUME NEW K, NEW V, NEW entries \in Seq(EntrySet(K, V)), Distinct(entries),
         NEW key, NEW e \in EntrySet(K, V), e.key = key
  PROVE  LET w == Without(entries, key)
             x == Append(w, e)
         IN  /\ x \in Seq(EntrySet(K, V))
             /\ Len(x) = Len(w) + 1
             /\ x[Len(x)] = e
             /\ \A i \in 1..Len(w) : x[i] = w[i]
             /\ Distinct(x)
  <1> DEFINE w == Without(entries, key)
             x == Append(w, e)
             E == EntrySet(K, V)
  <1>1. /\ w \in Seq(E)
        /\ Len(w) \in Nat
        /\ KeysOf(w) = KeysOf(entries) \ {key}
        /\ Distinct(w)
        /\ \A i \in 1..Len(w) : w[i].key # key
    BY WithoutFacts
  <1> HIDE DEF w, E
  <1>2. /\ x \in Seq(E)
        /\ Len(x) = Len(w) + 1
        /\ \A i \in 1..Len(w) : x[i] = w[i]
        /\ x[Len(w) + 1] = e
    <2>1. e \in E
      BY DEF E
    <2>2. QED
      BY <1>1, <2>1, AppendProperties
  <1> HIDE DEF x
  <1>3. Distinct(x)
    BY <1>1, <1>2 DEF Distinct
  <1>4. QED
    BY <1>1, <1>2, <1>3 DEF x, w, E

(* ... and no other key enters or leaves.                                  *)
LEMMA MoveToEndKeys ==
  ASSUME NEW K, NEW V, NEW entries \in Seq(EntrySet(K, V)), Distinct(entries),
         NEW key, NEW e \in EntrySet(K, V), e.key = key
  PROVE  KeysOf(Append(Without(entries, key), e)) = KeysOf(entries) \cup {key}
  <1> DEFINE w == Without(entries, key)
             x == Append(w, e)
  <1>1. /\ Len(w) \in Nat
        /\ KeysOf(w) = KeysOf(entries) \ {key}
    BY WithoutFacts
  <1>2. /\ Len(x) = Len(w) + 1
        /\ \A i \in 1..Len(w) : x[i] = w[i]
        /\ x[Len(w) + 1] = e
    BY MoveToEnd
  <1> HIDE DEF w, x
  <1>3. KeysOf(x) = KeysOf(w) \cup {key}
    <2>1. \A i \in 1..Len(x) : x[i] = IF i = Len(w) + 1 THEN e ELSE w[i]
      BY <1>1, <1>2
    <2>2. KeysOf(x) \subseteq KeysOf(w) \cup {key}
      <3> SUFFICES ASSUME NEW i \in 1..Len(x)
                   PROVE  x[i].key \in KeysOf(w) \cup {key}
        BY DEF KeysOf
      <3>1. i = Len(w) + 1 \/ i \in 1..Len(w)
        BY <1>1, <1>2
      <3>2. QED
        BY <3>1, <2>1 DEF KeysOf
    <2>3. KeysOf(w) \subseteq KeysOf(x)
      <3> SUFFICES ASSUME NEW i \in 1..Len(w)
                   PROVE  w[i].key \in KeysOf(x)
        BY DEF KeysOf
      <3>1. i \in 1..Len(x) /\ x[i] = w[i]
        BY <1>1, <1>2
      <3>2. QED
        BY <3>1 DEF KeysOf
    <2>4. key \in KeysOf(x)
      <3>1. Len(w) + 1 \in 1..Len(x)
        BY <1>1, <1>2
      <3>2. QED
        BY <3>1, <1>2 DEF KeysOf
    <2>5. QED
      BY <2>2, <2>3, <2>4
  <1>4. QED
    BY <1>1, <1>3 DEF w, x

(* Making room: at most MaxEntries entries are left, the ones used last.   *)
(* A cache that was one over its bound loses exactly its first entry.      *)
LEMMA NewestFacts ==
  ASSUME NEW K, NEW V, NEW x \in Seq(EntrySet(K, V)), Distinct(x),
         Len(x) <= MaxEntries + 1
  PROVE  LET r == Newest(x)
             d == Len(x) - Len(r)
         IN  /\ r \in Seq(EntrySet(K, V))
             /\ Len(r) \in Nat
             /\ Len(r) <= MaxEntries
             /\ d = IF Len(x) = MaxEntries + 1 THEN 1 ELSE 0
             /\ \A i \in 1..Len(r) : i + d \in 1..Len(x) /\ r[i] = x[i + d]
             /\ Distinct(r)
             /\ KeysOf(r) \subseteq KeysOf(x)
  <1> DEFINE r == Newest(x)
             E == EntrySet(K, V)
             n == Len(x)
  <1>1. MaxEntries \in Nat /\ MaxEntries > 0
    BY CacheAssumption
  <1>2. n \in Nat /\ \A i \in 1..n : x[i] \in E
    BY LenProperties, ElementOfSeq
  <1>3. CASE n = MaxEntries + 1
    <2>1. r = SubSeq(x, 2, n)
      BY <1>1, <1>2, <1>3 DEF Newest
    <2>2. /\ r \in Seq(E)
          /\ Len(r) = MaxEntries
          /\ \A i \in 1..MaxEntries : r[i] = x[i + 1]
      <3>1. \A i \in 2..n : x[i] \in E
        BY <1>2
      <3>2. 2 \in Int /\ n \in Int
        BY <1>2
      <3> HIDE DEF r, E, n
      <3>3. /\ SubSeq(x, 2, n) \in Seq(E)
            /\ Len(SubSeq(x, 2, n)) = IF 2 <= n THEN n - 2 + 1 ELSE 0
            /\ \A i \in 1..(n - 2 + 1) : SubSeq(x, 2, n)[i] = x[2 + i - 1]
        BY <3>1, <3>2, SubSeqProperties
      <3>4. QED
        BY <2>1, <3>3, <1>1, <1>3
    <2> HIDE DEF r
    <2>3. \A i \in 1..Len(r) : i + 1 \in 1..n /\ r[i] = x[i + 1]
      BY <1>1, <1>2, <1>3, <2>2
    <2>4. Distinct(r)
      <3> SUFFICES ASSUME NEW i \in 1..Len(r), NEW j \in 1..Len(r), r[i].key = r[j].key
                   PROVE  i = j
        BY DEF Distinct
      <3>1. i + 1 = j + 1
        BY <2>3 DEF Distinct
      <3>2. QED
        BY <3>1, <1>1, <2>2
    <2>5. KeysOf(r) \subseteq KeysOf(x)
      BY <2>3 DEF KeysOf
    <2>6. QED
      BY <1>1, <1>2, <1>3, <2>2, <2>3, <2>4, <2>5 DEF r
  <1>4. CASE n # MaxEntries + 1
    <2>1. r = x
      BY <1>1, <1>2, <1>4 DEF Newest
    <2>2. QED
      BY <1>1, <1>2, <1>4, <2>1
  <1>5. QED
    BY <1>3, <1>4

(* A successful get changes the order of the entries and nothing else: the *)
(* entry that was read is last, every entry is as it was.                  *)
LEMMA AfterHit ==
  ASSUME NEW K, NEW V, NEW entries \in Seq(EntrySet(K, V)), Distinct(entries),
         NEW now \in Int, NEW key, Hits(entries, key, now)
  PROVE  LET w == Without(entries, key)
             r == AfterGet(entries, key, now)
         IN  /\ r \in Seq(EntrySet(K, V))
             /\ Len(r) = Len(w) + 1
             /\ Len(r) = Len(entries)
             /\ r[Len(r)] = EntryOf(entries, key)
             /\ EntryOf(entries, key).key = key
             /\ \A i \in 1..Len(w) : r[i] = w[i]
             /\ KeysOf(r) = KeysOf(entries)
             /\ Distinct(r)
  <1> DEFINE e == EntryOf(entries, key)
  <1>1. key \in KeysOf(entries)
    BY DEF Hits
  <1>2. e \in EntrySet(K, V) /\ e.key = key
    BY <1>1, PositionOfPresent, ElementOfSeq DEF EntryOf
  <1>3. AfterGet(entries, key, now) = Append(Without(entries, key), e)
    BY DEF AfterGet
  <1>4. Len(Without(entries, key)) = Len(entries) - 1 /\ Len(entries) \in Nat
    BY <1>1, WithoutPresent, LenProperties
  <1> HIDE DEF e
  <1> DEFINE x == Append(Without(entries, key), e)
  <1>5. /\ x \in Seq(EntrySet(K, V))
        /\ Len(x) = Len(Without(entries, key)) + 1
        /\ x[Len(x)] = e
        /\ \A i \in 1..Len(Without(entries, key)) : x[i] = Without(entries, key)[i]
    BY <1>2, MoveToEnd
  <1>6. Distinct(x)
    BY <1>2, MoveToEnd
  <1>7. KeysOf(x) = KeysOf(entries) \cup {key}
    BY <1>2, MoveToEndKeys
  <1>8. AfterGet(entries, key, now) = x
    BY <1>3
  <1> HIDE DEF x
  <1>9. KeysOf(x) = KeysOf(entries)
    BY <1>1, <1>7
  <1>10. QED
    BY <1>2, <1>4, <1>5, <1>6, <1>8, <1>9 DEF e

(* A put leaves the new entry last and the other keys in their order.  It  *)
(* drops another key only from a full cache, and then only the one at the  *)
(* front.                                                                  *)
LEMMA AfterPutFacts ==
  ASSUME NEW K, NEW V, NEW entries \in Seq(EntrySet(K, V)), Distinct(entries),
         Len(entries) <= MaxEntries,
         NEW key \in K, NEW value \in V, NEW now \in Int
  PROVE  LET w == Without(entries, key)
             r == AfterPut(entries, key, value, now)
             d == Len(w) + 1 - Len(r)
         IN  /\ r \in Seq(EntrySet(K, V))
             /\ Len(r) \in 1..MaxEntries
             /\ Distinct(r)
             /\ r[Len(r)] = [key |-> key, expires |-> now + TtlSeconds, value |-> value]
             /\ d \in {0, 1}
             /\ d = 1 => Len(r) = MaxEntries
             /\ \A i \in 1..(Len(r) - 1) : i + d \in 1..Len(w) /\ r[i] = w[i + d]
             /\ KeysOf(r) \subseteq KeysOf(entries) \cup {key}
  <1> DEFINE e == [key |-> key, expires |-> now + TtlSeconds, value |-> value]
             w == Without(entries, key)
             x == Append(w, e)
             r == AfterPut(entries, key, value, now)
             d == Len(w) + 1 - Len(r)
             E == EntrySet(K, V)
  <1>1. e \in E /\ e.key = key
    BY CacheAssumption DEF EntrySet
  <1>2. MaxEntries \in Nat /\ MaxEntries > 0
    BY CacheAssumption
  <1>3. r = Newest(x)
    BY DEF AfterPut
  <1>4. Len(w) \in Nat /\ Len(w) <= Len(entries) /\ Len(entries) \in Nat
    BY WithoutFacts, LenProperties
  <1> HIDE DEF e
  <1>5. /\ x \in Seq(E)
        /\ Len(x) = Len(w) + 1
        /\ x[Len(x)] = e
        /\ \A i \in 1..Len(w) : x[i] = w[i]
    BY <1>1, MoveToEnd
  <1>5a. Distinct(x)
    BY <1>1, MoveToEnd
  <1>5b. KeysOf(x) = KeysOf(entries) \cup {key}
    BY <1>1, MoveToEndKeys
  <1> HIDE DEF w, x
  <1>6. Len(x) <= MaxEntries + 1
    BY <1>2, <1>4, <1>5
  <1>7. /\ r \in Seq(E)
        /\ Len(r) \in Nat
        /\ Len(r) <= MaxEntries
        /\ d = IF Len(x) = MaxEntries + 1 THEN 1 ELSE 0
        /\ \A i \in 1..Len(r) : i + d \in 1..Len(x) /\ r[i] = x[i + d]
        /\ Distinct(r)
        /\ KeysOf(r) \subseteq KeysOf(x)
    BY <1>3, <1>5, <1>5a, <1>6, NewestFacts
  <1> HIDE DEF r, E
  <1>8. d \in {0, 1} /\ (d = 1 => Len(r) = MaxEntries) /\ Len(r) \in 1..MaxEntries
    BY <1>2, <1>4, <1>5, <1>7
  <1>9. r[Len(r)] = e
    <2>1. Len(r) + d = Len(x) /\ Len(r) \in 1..Len(r)
      BY <1>4, <1>5, <1>7, <1>8
    <2>2. QED
      BY <2>1, <1>5, <1>7
  <1>10. ASSUME NEW i \in 1..(Len(r) - 1)
         PROVE  i + d \in 1..Len(w) /\ r[i] = w[i + d]
    <2>1. i \in 1..Len(r) /\ i + d \in 1..Len(w)
      BY <1>4, <1>5, <1>7, <1>8
    <2>2. QED
      BY <2>1, <1>5, <1>7
  <1>11. KeysOf(r) \subseteq KeysOf(entries) \cup {key}
    BY <1>5b, <1>7
  <1>12. QED
    BY <1>7, <1>8, <1>9, <1>10, <1>11 DEF e, E, w, r

(* A cache with one entry per key has no more entries than there are keys. *)
LEMMA DistinctCount ==
  ASSUME NEW K, NEW V, NEW entries \in Seq(EntrySet(K, V)), Distinct(entries),
         NEW S, IsFiniteSet(S), KeysOf(entries) \subseteq S
  PROVE  Len(entries) <= Cardinality(S)
  <1> DEFINE I == 1..Len(entries)
             f == [i \in I |-> entries[i].key]
  <1>1. Len(entries) \in Nat
    BY LenProperties
  <1>2. f \in [I -> S]
    BY DEF KeysOf
  <1>3. \A a, b \in I : f[a] = f[b] => a = b
    BY DEF Distinct
  <1>4. f \in Injection(I, S)
    BY <1>2, <1>3 DEF Injection, IsInjective
  <1>5. Cardinality(I) <= Cardinality(S)
    BY <1>4, FS_Injection
  <1>6. Cardinality(I) = Len(entries)
    <2>1. \A n \in Nat : Cardinality(1..n) = n
      <3> SUFFICES ASSUME NEW n \in Nat PROVE Cardinality(1..n) = n
        OBVIOUS
      <3>1. Cardinality(1..n) = IF 1 > n THEN 0 ELSE n - 1 + 1
        BY FS_Interval
      <3>2. QED
        BY <3>1
    <2>2. QED
      BY <1>1, <2>1
  <1>7. QED
    BY <1>5, <1>6

-----------------------------------------------------------------------------
(* The window of an instant: time never goes back to an earlier one, and   *)
(* two windows apart is at least sixty seconds apart.                      *)
LEMMA WindowFacts ==
  ASSUME NEW s \in Nat, NEW t \in Nat
  PROVE  /\ WindowAt(s) \in Nat
         /\ s <= t => WindowAt(s) <= WindowAt(t)
         /\ WindowAt(s) + 2 <= WindowAt(t) => t - s >= 60
  BY DEF WindowAt

(* One more call counted in a slot. *)
LEMMA CountedFacts ==
  ASSUME NEW slot \in Slots \cup {NoSlot}, NEW now \in Nat
  PROVE  /\ Counted(slot, now) \in Slots
         /\ Counted(slot, now) # NoSlot
         /\ Counted(slot, now).start = WindowAt(now)
         /\ Counted(slot, now).count =
              IF slot # NoSlot /\ slot.start = WindowAt(now) THEN slot.count + 1 ELSE 1
  <1>1. WindowAt(now) \in Nat
    BY WindowFacts
  <1>2. CASE slot # NoSlot /\ slot.start = WindowAt(now)
    <2>1. slot \in [start : Nat, count : Nat]
      BY <1>2 DEF Slots
    <2>2. Counted(slot, now) = [slot EXCEPT !.count = slot.count + 1]
      BY <1>2 DEF Counted
    <2>3. QED
      BY <1>2, <2>1, <2>2, FixedWindowAssumption DEF Slots
  <1>3. CASE ~ (slot # NoSlot /\ slot.start = WindowAt(now))
    <2>1. Counted(slot, now) = [start |-> WindowAt(now), count |-> 1]
      BY <1>3 DEF Counted
    <2>2. QED
      BY <1>1, <1>3, <2>1, FixedWindowAssumption DEF Slots
  <1>4. QED
    BY <1>2, <1>3

-----------------------------------------------------------------------------
(* A non-empty set of positions has a last one. *)
LEMMA LastPosition ==
  ASSUME NEW n \in Nat, NEW S \in SUBSET (1..n), S # {}
  PROVE  /\ Max(S) \in S
         /\ \A i \in S : i <= Max(S)
  <1> DEFINE T == {n - i : i \in S}
             R == OpToRel(<, Nat)
  <1>0. \A i \in S : i \in Int /\ i <= n /\ n - i \in Nat
    OBVIOUS
  <1>1. T \subseteq Nat /\ T # {}
    BY <1>0
  <1>2. IsWellFoundedOn(R, Nat)
    BY NatLessThanWellFounded
  <1> HIDE DEF R
  <1>3. PICK x \in T : \A y \in T : ~ (<<y, x>> \in R)
    <2> HIDE DEF T
    <2>1. QED
      BY <1>1, <1>2, WFMin
  <1>4. \A y \in T : ~ (y < x)
    BY <1>1, <1>3 DEF R, OpToRel
  <1>5. PICK m \in S : x = n - m
    OBVIOUS
  <1>6. ASSUME NEW i \in S
        PROVE  m >= i
    <2>1. ~ (n - i < n - m)
      BY <1>4, <1>5
    <2>2. i \in Int /\ m \in Int
      BY <1>0
    <2>3. QED
      BY <2>1, <2>2
  <1>7. Max(S) \in S /\ \A i \in S : Max(S) >= i
    BY <1>5, <1>6 DEF Max
  <1>8. QED
    BY <1>7

(* Conversations that agree on roles and texts turn by turn have the same  *)
(* latest user text.                                                       *)
LEMMA SameTurnsSameText ==
  ASSUME NEW s \in Seq(Message), NEW t \in Seq(Message),
         Len(s) = Len(t),
         \A i \in 1..Len(s) : Turn(s[i]) = Turn(t[i])
  PROVE  /\ FromUser(s) = FromUser(t)
         /\ LatestUserText(s) = LatestUserText(t)
  <1>1. Len(s) \in Nat
    BY LenProperties
  <1>2. \A i \in 1..Len(s) :
          s[i].role = t[i].role /\ Normal[s[i].content] = Normal[t[i].content]
    BY DEF Turn
  <1>3. FromUser(s) = FromUser(t)
    BY <1>2 DEF FromUser
  <1>4. CASE FromUser(s) = {}
    BY <1>3, <1>4 DEF LatestUserText
  <1>5. CASE FromUser(s) # {}
    <2>1. Max(FromUser(s)) \in FromUser(s)
      BY <1>1, <1>5, LastPosition DEF FromUser
    <2>2. Max(FromUser(s)) \in 1..Len(s)
      BY <2>1 DEF FromUser
    <2>3. QED
      BY <1>2, <1>3, <1>5, <2>2 DEF LatestUserText
  <1>6. QED
    BY <1>3, <1>4, <1>5

(* The recent turns are the last ones, each at a fixed distance.           *)
LEMMA RecentFacts ==
  ASSUME NEW s \in Seq(Message)
  PROVE  LET d == Len(s) - Len(Recent(s))
         IN  /\ Recent(s) \in Seq(Message)
             /\ Len(Recent(s)) = IF Len(s) <= MaxTurns THEN Len(s) ELSE MaxTurns
             /\ d \in Nat
             /\ \A i \in 1..Len(Recent(s)) : i + d \in 1..Len(s) /\ Recent(s)[i] = s[i + d]
  <1>1. Len(s) \in Nat /\ MaxTurns \in Nat /\ MaxTurns >= 1
    BY LenProperties, ConversationAssumption
  <1>2. CASE Len(s) <= MaxTurns
    BY <1>1, <1>2 DEF Recent
  <1>3. CASE Len(s) > MaxTurns
    <2> DEFINE m == Len(s) - MaxTurns + 1
               n == Len(s)
               r == SubSeq(s, m, n)
    <2>1. Recent(s) = r
      BY <1>1, <1>3 DEF Recent
    <2>2. \A i \in m..n : s[i] \in Message
      BY <1>1, <1>3, ElementOfSeq
    <2>3. m \in Int /\ n \in Int
      BY <1>1
    <2>4. /\ r \in Seq(Message)
          /\ Len(r) = IF m <= n THEN n - m + 1 ELSE 0
          /\ \A i \in 1..(n - m + 1) : r[i] = s[m + i - 1]
      <3> HIDE DEF m, n
      <3>1. QED
        BY <2>2, <2>3, SubSeqProperties
    <2>5. Len(r) = MaxTurns /\ n - m + 1 = MaxTurns
      BY <1>1, <1>3, <2>4
    <2> HIDE DEF r
    <2>6. \A i \in 1..MaxTurns : r[i] = s[i + (Len(s) - MaxTurns)]
      BY <1>1, <1>3, <2>4, <2>5
    <2>7. QED
      BY <1>1, <1>3, <2>1, <2>4, <2>5, <2>6
  <1>4. QED
    BY <1>1, <1>2, <1>3

(* A message of the user among the recent turns decides the latest text.   *)
LEMMA RecentDecides ==
  ASSUME NEW s \in Seq(Message), FromUser(Recent(s)) # {}
  PROVE  LatestUserText(s) = LatestUserText(Recent(s))
  <1> DEFINE r == Recent(s)
             d == Len(s) - Len(Recent(s))
             a == Max(FromUser(r))
             b == Max(FromUser(s))
  <1>1. Len(s) \in Nat /\ Len(r) \in Nat
    BY RecentFacts, LenProperties
  <1>2. /\ d \in Nat
        /\ \A i \in 1..Len(r) : i + d \in 1..Len(s) /\ r[i] = s[i + d]
    BY RecentFacts
  <1>3. a \in FromUser(r) /\ \A i \in FromUser(r) : i <= a
    BY <1>1, LastPosition DEF FromUser
  <1>4. a + d \in FromUser(s)
    BY <1>2, <1>3 DEF FromUser
  <1>5. b \in FromUser(s) /\ \A i \in FromUser(s) : i <= b
    BY <1>1, <1>4, LastPosition DEF FromUser
  <1>6. b >= a + d
    BY <1>4, <1>5
  <1>7. a \in 1..Len(r) /\ b \in 1..Len(s) /\ s[b].role = "user"
    BY <1>3, <1>5 DEF FromUser
  <1> HIDE DEF a, b
  <1>8. b - d \in 1..Len(r)
    BY <1>1, <1>2, <1>6, <1>7
  <1>9. r[b - d] = s[b]
    BY <1>1, <1>2, <1>7, <1>8
  <1>10. b - d \in FromUser(r)
    BY <1>7, <1>8, <1>9 DEF FromUser
  <1>11. b = a + d
    <2>1. b - d <= a
      BY <1>10, <1>3
    <2>2. a \in Int /\ b \in Int
      BY <1>7
    <2> HIDE DEF d
    <2>3. QED
      BY <2>1, <2>2, <1>2, <1>6
  <1>12. r[a] = s[b]
    BY <1>2, <1>7, <1>11
  <1>13. QED
    BY <1>4, <1>12 DEF LatestUserText, a, b

LEMMA RangeEmpty ==
  ASSUME NEW s \in Seq(Names)
  PROVE  s = <<>> <=> Range(s) = {}
  <1>1. DOMAIN s = 1..Len(s) /\ Len(s) \in Nat
    BY LenProperties
  <1>2. ASSUME s # <<>>
        PROVE  Range(s) # {}
    <2>1. 1 \in DOMAIN s
      BY <1>1, <1>2, EmptySeq
    <2>2. QED
      BY <2>1 DEF Range
  <1>3. ASSUME s = <<>>
        PROVE  Range(s) = {}
    BY <1>1, <1>3, EmptySeq DEF Range
  <1>4. QED
    BY <1>2, <1>3

(* Two requests filed under the same key are the same to the classifier,   *)
(* provided the window of one of them covers the user's latest message:    *)
(* the part of "covering every input that affects the decision"            *)
(* (utils.py:31) that the code delivers.                                   *)
THEOREM KeyCoversInput ==
  ASSUME NEW p, IsPayload(p), NEW q, IsPayload(q),
         CacheKey(p) = CacheKey(q), WindowCovers(p.messages)
  PROVE  ClassifierInput(p) = ClassifierInput(q)
  <1> DEFINE s == p.messages
             t == q.messages
  <1>1. s \in Seq(Message) /\ t \in Seq(Message)
    BY DEF IsPayload
  <1>2. /\ [i \in 1..Len(Recent(s)) |-> Turn(Recent(s)[i])]
             = [i \in 1..Len(Recent(t)) |-> Turn(Recent(t)[i])]
        /\ HasToolHistory(s) = HasToolHistory(t)
        /\ Range(p.tools) = Range(q.tools)
        /\ Range(p.flags) = Range(q.flags)
    BY DEF CacheKey
  <1> HIDE DEF s, t
  <1>3. /\ Recent(s) \in Seq(Message) /\ Recent(t) \in Seq(Message)
        /\ Len(Recent(s)) \in Nat /\ Len(Recent(t)) \in Nat
    BY <1>1, RecentFacts, LenProperties
  <1>4. /\ Len(Recent(s)) = Len(Recent(t))
        /\ \A i \in 1..Len(Recent(s)) : Turn(Recent(s)[i]) = Turn(Recent(t)[i])
    <2>1. 1..Len(Recent(s)) = 1..Len(Recent(t))
      BY <1>2
    <2>2. Len(Recent(s)) = Len(Recent(t))
      BY <1>3, <2>1
    <2>3. QED
      BY <1>2, <2>2
  <1>5. /\ FromUser(Recent(s)) = FromUser(Recent(t))
        /\ LatestUserText(Recent(s)) = LatestUserText(Recent(t))
    BY <1>3, <1>4, SameTurnsSameText
  <1>6. LatestUserText(s) = LatestUserText(t)
    <2>1. CASE FromUser(Recent(s)) # {}
      BY <1>1, <1>5, <2>1, RecentDecides
    <2>2. CASE Len(s) < MaxTurns
      <3>1. Len(s) \in Nat /\ Len(t) \in Nat /\ MaxTurns \in Nat
        BY <1>1, LenProperties, ConversationAssumption
      <3>2. Len(s) <= MaxTurns /\ Len(t) <= MaxTurns
        BY <1>1, <1>4, <2>2, <3>1, RecentFacts
      <3>3. Recent(s) = s /\ Recent(t) = t
        BY <3>2 DEF Recent
      <3>4. QED
        BY <1>5, <3>3
    <2>3. QED
      BY <2>1, <2>2 DEF WindowCovers, s
  <1>7. (p.tools = <<>>) <=> (q.tools = <<>>)
    BY <1>2, RangeEmpty DEF IsPayload
  <1>8. QED
    BY <1>2, <1>6, <1>7 DEF ClassifierInput, s, t

-----------------------------------------------------------------------------
(* A non-empty set of positions has a first one. *)
LEMMA FirstPosition ==
  ASSUME NEW S \in SUBSET Nat, S # {}
  PROVE  Min(S) \in S /\ \A i \in S : Min(S) <= i
  <1> DEFINE R == OpToRel(<, Nat)
  <1>1. IsWellFoundedOn(R, Nat)
    BY NatLessThanWellFounded
  <1> HIDE DEF R
  <1>2. PICK x \in S : \A y \in S : ~ (<<y, x>> \in R)
    BY <1>1, WFMin
  <1>3. \A y \in S : ~ (y < x)
    BY <1>2 DEF R, OpToRel
  <1>4. \A y \in S : x <= y
    <2>1. TAKE y \in S
    <2>2. x \in Nat /\ y \in Nat /\ ~ (y < x)
      BY <1>3
    <2>3. QED
      BY <2>2
  <1>5. QED
    BY <1>4 DEF Min

(* The rules always find a task of the schema. *)
LEMMA RuleTaskType ==
  ASSUME NEW policy \in Policy, NEW r \in Reading
  PROVE  RuleTask(policy, r) \in TaskTypes
  <1> DEFINE hits == CategoryHits(policy, r)
  <1>1. policy.order \in Seq(Orderable)
    BY DEF Policy
  <1>2. hits \in SUBSET Nat /\ hits \subseteq 1..Len(policy.order)
    <2>1. Len(policy.order) \in Nat
      BY <1>1
    <2>2. QED
      BY <2>1 DEF CategoryHits
  <1>3. hits # {} => policy.order[Min(hits)] \in Orderable
    <2>1. HAVE hits # {}
    <2>2. Min(hits) \in hits
      BY <1>2, <2>1, FirstPosition
    <2>3. Min(hits) \in 1..Len(policy.order)
      BY <1>2, <2>2
    <2>4. QED
      BY <1>1, <2>3
  <1>4. QED
    BY <1>3 DEF RuleTask, TaskTypes, Mixable, Fallback

(* So do the layers. *)
LEMMA TaskType ==
  ASSUME NEW policy \in Policy, NEW r \in Reading
  PROVE  Task(policy, r) \in TaskTypes
  <1>1. RuleTask(policy, r) \in TaskTypes
    BY RuleTaskType
  <1>2. r.verdict.task \in TaskTypes \cup {None} /\ r.predicted.label \in TaskTypes \cup {"other"}
    BY DEF Reading, Verdict, Prediction
  <1>3. QED
    BY <1>1, <1>2 DEF Task, UsesVote, UsesModel, HasOpinion

(* Whatever base, scale and caps a policy sets, the confidence of every    *)
(* kind of decision stays between 0 and 1.                                 *)
LEMMA ConfidenceType ==
  ASSUME NEW policy \in Policy, NEW r \in Reading
  PROVE  Confidence(policy, r) \in Percent
  <1> DEFINE product == policy.semanticScale * r.verdict.share
             sum == policy.semanticBase + (product + 50) \div 100
  <1>1. /\ policy.ruleMatch \in 0..100 /\ policy.greeting \in 0..100
        /\ policy.fallback \in 0..100 /\ policy.mixedCap \in 0..100
        /\ policy.semanticBase \in 0..100 /\ policy.semanticScale \in 0..100
        /\ r.verdict.share \in 0..100 /\ r.predicted.probability \in 0..100
    BY DEF Policy, Percent, Reading, Verdict, Prediction
  <1>2. product \in Nat
    <2>1. \A a, b \in Nat : a * b \in Nat
      OBVIOUS
    <2>2. policy.semanticScale \in Nat /\ r.verdict.share \in Nat
      BY <1>1
    <2>3. QED
      BY <2>1, <2>2
  <1> HIDE DEF product
  <1>3. sum \in Nat
    BY <1>1, <1>2
  <1> HIDE DEF sum
  <1>4. Capped(100, sum) \in 0..100
    BY <1>3 DEF Capped
  <1>5. \A x \in 0..100 : Capped(policy.mixedCap, x) \in 0..100
    BY <1>1 DEF Capped
  <1>6. CASE UsesVote(policy, r)
    BY <1>4, <1>6 DEF Confidence, Percent, sum, product
  <1>7. CASE ~ UsesVote(policy, r)
    <2> DEFINE own == IF UsesModel(policy, r) THEN r.predicted.probability
                      ELSE IF Greets(policy, r) THEN policy.greeting
                      ELSE IF Task(policy, r) \in Fallback THEN policy.fallback
                      ELSE policy.ruleMatch
    <2>1. own \in 0..100
      BY <1>1
    <2>2. Confidence(policy, r) = IF Mixed(policy, r) THEN Capped(policy.mixedCap, own) ELSE own
      BY <1>7 DEF Confidence
    <2> HIDE DEF own
    <2>3. QED
      BY <1>5, <2>1, <2>2 DEF Percent
  <1>8. QED
    BY <1>6, <1>7

(* Every decision fits the schema. *)
LEMMA DecideType ==
  ASSUME NEW policy \in Policy, NEW r \in Reading, NEW hasTools \in BOOLEAN,
         NEW flagged \in BOOLEAN
  PROVE  Decide(policy, r, hasTools, flagged) \in Decision
  <1>1. Insufficient \in Decision /\ Escalated \in Decision
    BY DEF Insufficient, Escalated, Decision, Percent
  <1>2. Routed(policy, r, hasTools) \in Decision
    <2>1. Task(policy, r) \in TaskTypes \cup {"unknown"}
      BY TaskType
    <2>2. Confidence(policy, r) \in Percent
      BY ConfidenceType
    <2>3. Tier(Task(policy, r), NeedsTools(policy, r), Complex(policy, r))
            \in {"economy", "standard", "capable", "reasoning", "human_or_policy_review", "unknown"}
      BY DEF Tier
    <2>4. QED
      BY <2>1, <2>2, <2>3 DEF Routed, Decision
  <1>3. QED
    BY <1>1, <1>2 DEF Decide

-----------------------------------------------------------------------------
(* Sums over finite sets: SumFunctionOnSet is a recursion that takes the   *)
(* elements in an order of CHOOSE's.  What it recurses by exists, every    *)
(* order gives the same, and so a sum can be reckoned with.  Induction is  *)
(* over the set of the arguments for which the fact holds: that there is   *)
(* a least one outside is WFMin, which needs no predicate.                 *)

(* Induction over numbers, for a set in the place of a predicate.          *)
LEMMA NumberInduction ==
  ASSUME NEW T, 0 \in T, \A n \in Nat : n \in T => n + 1 \in T
  PROVE  Nat \subseteq T
  <1> DEFINE Missing == Nat \ T
             R == OpToRel(<, Nat)
  <1> SUFFICES ASSUME Missing # {} PROVE FALSE
    OBVIOUS
  <1>1. IsWellFoundedOn(R, Nat)
    BY NatLessThanWellFounded
  <1>2. PICK m \in Missing : \A n \in Missing : <<n, m>> \notin R
    BY <1>1, WFMin
  <1>3. m # 0 /\ m - 1 \in Nat /\ m - 1 < m
    OBVIOUS
  <1>4. m - 1 \in T
    BY <1>2, <1>3 DEF OpToRel
  <1>5. (m - 1) + 1 \in T
    BY <1>3, <1>4
  <1>6. QED
    BY <1>5

(* Induction over the subsets of a finite set.                             *)
LEMMA SubsetInduction ==
  ASSUME NEW U, IsFiniteSet(U), NEW T, {} \in T,
         \A s \in SUBSET U : \A x \in U \ s : s \in T => s \cup {x} \in T
  PROVE  SUBSET U \subseteq T
  <1> DEFINE Sized == {n \in Nat : \A s \in SUBSET U : Cardinality(s) = n => s \in T}
  <1>0. \A s \in SUBSET U : IsFiniteSet(s) /\ Cardinality(s) \in Nat
    BY FS_Subset, FS_CardinalityType
  <1>1. 0 \in Sized
    BY <1>0, FS_EmptySet
  <1>2. ASSUME NEW n \in Nat, n \in Sized
        PROVE  n + 1 \in Sized
    <2> SUFFICES ASSUME NEW s \in SUBSET U, Cardinality(s) = n + 1
                 PROVE  s \in T
      OBVIOUS
    <2>1. s # {}
      BY FS_EmptySet
    <2>2. PICK x \in s : TRUE
      BY <2>1
    <2>3. Cardinality(s \ {x}) = n
      <3>1. IsFiniteSet(s)
        BY <1>0
      <3>2. Cardinality(s \ {x}) = Cardinality(s) - 1
        BY <2>2, <3>1, FS_RemoveElement
      <3>3. QED
        BY <3>2
    <2>4. s \ {x} \in T
      BY <1>2, <2>3
    <2>5. (s \ {x}) \cup {x} \in T
      BY <2>2, <2>4
    <2>6. (s \ {x}) \cup {x} = s
      BY <2>2
    <2>7. QED
      BY <2>5, <2>6
  <1> HIDE DEF Sized
  <1>3. Nat \subseteq Sized
    BY <1>1, <1>2, NumberInduction
  <1>4. QED
    BY <1>0, <1>3 DEF Sized

Pick(s) == CHOOSE x \in s : TRUE
Adds(f, s, g) == IF s = {} THEN 0 ELSE f[Pick(s)] + g[s \ {Pick(s)}]
Sums(f, U) == CHOOSE g : g = [s \in SUBSET U |-> Adds(f, s, g)]

LEMMA SumIsSums ==
  ASSUME NEW f, NEW U
  PROVE  SumFunctionOnSet(f, U) = Sums(f, U)[U]
  BY DEF SumFunctionOnSet, FoldFunctionOnSet, MapThenFoldSet, Sums, Adds, Pick

LEMMA PickFacts ==
  ASSUME NEW s, s # {}, IsFiniteSet(s)
  PROVE  /\ Pick(s) \in s
         /\ Cardinality(s) \in Nat \ {0}
         /\ Cardinality(s \ {Pick(s)}) = Cardinality(s) - 1
  <1>1. Pick(s) \in s
    BY DEF Pick
  <1>2. QED
    BY <1>1, FS_RemoveElement, FS_CardinalityType, FS_EmptySet

(* The recursion of a sum has a solution. *)
LEMMA SumsExist ==
  ASSUME NEW f, NEW U, IsFiniteSet(U)
  PROVE  \A s \in SUBSET U : Sums(f, U)[s] = Adds(f, s, Sums(f, U))
  <1> DEFINE Good == {n \in Nat :
                        \E g : /\ DOMAIN g = SUBSET U
                              /\ \A s \in SUBSET U : Cardinality(s) <= n => g[s] = Adds(f, s, g)}
  <1>0. \A s \in SUBSET U : IsFiniteSet(s) /\ Cardinality(s) \in Nat
    BY FS_Subset, FS_CardinalityType
  <1>1. 0 \in Good
    <2> DEFINE g == [s \in SUBSET U |-> 0]
    <2>1. \A s \in SUBSET U : Cardinality(s) <= 0 => s = {}
      BY <1>0, FS_EmptySet
    <2>2. \A s \in SUBSET U : Cardinality(s) <= 0 => g[s] = Adds(f, s, g)
      BY <2>1 DEF Adds
    <2>3. DOMAIN g = SUBSET U
      OBVIOUS
    <2> HIDE DEF g
    <2>4. QED
      BY <2>2, <2>3
  <1>2. ASSUME NEW n \in Nat, n \in Good
        PROVE  n + 1 \in Good
    <2>1. PICK g : /\ DOMAIN g = SUBSET U
                   /\ \A s \in SUBSET U : Cardinality(s) <= n => g[s] = Adds(f, s, g)
      BY <1>2
    <2> DEFINE h == [s \in SUBSET U |-> IF Cardinality(s) <= n THEN g[s] ELSE Adds(f, s, g)]
    <2>2. ASSUME NEW s \in SUBSET U, Cardinality(s) <= n + 1
          PROVE  h[s] = Adds(f, s, h)
      <3>1. h[s] = Adds(f, s, g)
        BY <2>1
      <3>2. CASE s = {}
        BY <3>1, <3>2 DEF Adds
      <3>3. CASE s # {}
        <4>1. /\ Pick(s) \in s /\ Cardinality(s) \in Nat
              /\ Cardinality(s \ {Pick(s)}) = Cardinality(s) - 1
          BY <1>0, <3>3, PickFacts
        <4>2. s \ {Pick(s)} \in SUBSET U /\ Cardinality(s \ {Pick(s)}) <= n
          BY <2>2, <4>1
        <4>3. h[s \ {Pick(s)}] = g[s \ {Pick(s)}]
          BY <4>2
        <4> HIDE DEF h
        <4>4. QED
          BY <3>1, <4>3 DEF Adds
      <3>4. QED
        BY <3>2, <3>3
    <2>3. DOMAIN h = SUBSET U
      OBVIOUS
    <2> HIDE DEF h
    <2>4. QED
      BY <2>2, <2>3
  <1> HIDE DEF Good
  <1>3. Nat \subseteq Good
    BY <1>1, <1>2, NumberInduction
  <1>4. Cardinality(U) \in Good /\ \A s \in SUBSET U : Cardinality(s) <= Cardinality(U)
    BY <1>0, <1>3, FS_Subset, FS_CardinalityType
  <1>5. PICK g : DOMAIN g = SUBSET U /\ \A s \in SUBSET U : g[s] = Adds(f, s, g)
    BY <1>4 DEF Good
  <1> DEFINE h == [s \in SUBSET U |-> g[s]]
  <1>6. \A s \in SUBSET U : Adds(f, s, g) = Adds(f, s, h)
    <2> SUFFICES ASSUME NEW s \in SUBSET U, s # {}
                 PROVE  g[s \ {Pick(s)}] = h[s \ {Pick(s)}]
      BY DEF Adds
    <2>1. QED
      OBVIOUS
  <1>7. h = [s \in SUBSET U |-> Adds(f, s, h)]
    BY <1>5, <1>6
  <1>8. \E k : k = [s \in SUBSET U |-> Adds(f, s, k)]
    <2> HIDE DEF h
    <2>1. QED
      BY <1>7
  <1>9. Sums(f, U) = [s \in SUBSET U |-> Adds(f, s, Sums(f, U))]
    BY <1>8 DEF Sums
  <1>10. QED
    BY <1>9

(* ... and it does not matter which element is taken first.                *)
LEMMA SumsTake ==
  ASSUME NEW f, NEW U, IsFiniteSet(U), \A i \in U : f[i] \in Int
  PROVE  \A s \in SUBSET U :
           /\ Sums(f, U)[s] \in Int
           /\ \A x \in s : Sums(f, U)[s] = f[x] + Sums(f, U)[s \ {x}]
  <1> DEFINE h == Sums(f, U)
             Taken(s) == h[s] \in Int /\ \A x \in s : h[s] = f[x] + h[s \ {x}]
             Good == {n \in Nat : \A s \in SUBSET U : Cardinality(s) <= n => Taken(s)}
  <1>0. \A s \in SUBSET U : IsFiniteSet(s) /\ Cardinality(s) \in Nat
    BY FS_Subset, FS_CardinalityType
  <1>1. \A s \in SUBSET U : h[s] = IF s = {} THEN 0 ELSE f[Pick(s)] + h[s \ {Pick(s)}]
    BY SumsExist DEF Adds
  <1> HIDE DEF h
  <1>a. Taken({})
    BY <1>1
  <1>2. 0 \in Good
    <2>1. \A s \in SUBSET U : Cardinality(s) <= 0 => s = {}
      BY <1>0, FS_EmptySet
    <2>2. QED
      BY <1>a, <2>1
  <1>3. ASSUME NEW n \in Nat, n \in Good
        PROVE  n + 1 \in Good
    <2> SUFFICES ASSUME NEW s \in SUBSET U, Cardinality(s) <= n + 1, s # {}
                 PROVE  Taken(s)
      <3> HIDE DEF Taken
      <3>1. QED
        BY <1>a
    <2> DEFINE c == Pick(s)
    <2>1. /\ c \in s /\ Cardinality(s) \in Nat
          /\ Cardinality(s \ {c}) = Cardinality(s) - 1
      BY <1>0, PickFacts
    <2> HIDE DEF c
    <2>2. h[s] = f[c] + h[s \ {c}]
      BY <1>1 DEF c
    <2>3. \A t \in SUBSET U : Cardinality(t) <= n => Taken(t)
      BY <1>3
    <2>4. s \ {c} \in SUBSET U /\ Cardinality(s \ {c}) <= n
      BY <2>1
    <2>5. Taken(s \ {c})
      BY <2>3, <2>4
    <2>6. h[s] \in Int
      BY <2>1, <2>2, <2>5
    <2>7. ASSUME NEW x \in s, x # c
          PROVE  h[s] = f[x] + h[s \ {x}]
      <3>1. h[s \ {c}] = f[x] + h[(s \ {c}) \ {x}]
        BY <2>5, <2>7
      <3>2. IsFiniteSet(s)
        BY <1>0
      <3>3. Cardinality(s \ {x}) = Cardinality(s) - 1
        BY <3>2, FS_RemoveElement
      <3>4. s \ {x} \in SUBSET U /\ Cardinality(s \ {x}) <= n
        BY <2>1, <3>3
      <3>5. Taken(s \ {x})
        BY <2>3, <3>4
      <3>6. h[s \ {x}] = f[c] + h[(s \ {x}) \ {c}]
        BY <2>1, <2>7, <3>5
      <3>7. (s \ {x}) \ {c} = (s \ {c}) \ {x}
        OBVIOUS
      <3>8. (s \ {c}) \ {x} \in SUBSET U /\ Cardinality((s \ {c}) \ {x}) <= n
        <4>1. IsFiniteSet(s \ {c}) /\ x \in s \ {c}
          BY <1>0, <2>4, <2>7
        <4>2. Cardinality((s \ {c}) \ {x}) = Cardinality(s \ {c}) - 1
          BY <4>1, FS_RemoveElement
        <4>3. Cardinality(s \ {c}) \in Nat
          BY <1>0, <2>4
        <4>4. QED
          BY <2>4, <4>2, <4>3
      <3>9. h[(s \ {c}) \ {x}] \in Int
        BY <2>3, <3>8
      <3>10. f[x] \in Int /\ f[c] \in Int
        BY <2>1
      <3>11. h[(s \ {x}) \ {c}] = h[(s \ {c}) \ {x}]
        BY <3>7, Zenon
      <3> DEFINE rest == h[(s \ {c}) \ {x}]
      <3>12. /\ h[s] = f[c] + h[s \ {c}]
             /\ h[s \ {c}] = f[x] + rest
             /\ h[s \ {x}] = f[c] + rest
             /\ rest \in Int
        BY <2>2, <3>1, <3>6, <3>9, <3>11, Zenon
      <3> HIDE DEF rest
      <3>13. QED
        BY <3>10, <3>12
    <2>8. QED
      BY <2>2, <2>6, <2>7
  <1> HIDE DEF Good
  <1>4. Nat \subseteq Good
    BY <1>2, <1>3, NumberInduction
  <1>5. ASSUME NEW s \in SUBSET U
        PROVE  Taken(s)
    <2> DEFINE n == Cardinality(s)
    <2>1. n \in Nat /\ n <= n
      BY <1>0
    <2>2. n \in Good
      BY <1>4, <2>1
    <2> HIDE DEF Taken
    <2>3. QED
      BY <2>1, <2>2 DEF Good
  <1>6. QED
    BY <1>5 DEF h

(* The sum over a set is the same in the recursion of a larger one. *)
LEMMA SumsWithin ==
  ASSUME NEW f, NEW U, IsFiniteSet(U), \A i \in U : f[i] \in Int, NEW V \in SUBSET U
  PROVE  Sums(f, U)[V] = SumFunctionOnSet(f, V)
  <1> DEFINE Same == {s \in SUBSET V : Sums(f, U)[s] = Sums(f, V)[s]}
  <1>0. IsFiniteSet(V)
    BY FS_Subset
  <1>1. {} \in Same
    <2>1. Sums(f, U)[{}] = 0 /\ Sums(f, V)[{}] = 0
      BY <1>0, SumsExist DEF Adds
    <2>2. QED
      BY <2>1
  <1>2. ASSUME NEW s \in SUBSET V, NEW x \in V \ s, s \in Same
        PROVE  s \cup {x} \in Same
    <2>1. s \cup {x} \in SUBSET V /\ (s \cup {x}) \ {x} = s
      OBVIOUS
    <2>2. Sums(f, V)[s \cup {x}] = f[x] + Sums(f, V)[(s \cup {x}) \ {x}]
      BY <1>0, <2>1, SumsTake
    <2>3. Sums(f, U)[s \cup {x}] = f[x] + Sums(f, U)[(s \cup {x}) \ {x}]
      BY <2>1, SumsTake
    <2>4. QED
      BY <1>2, <2>1, <2>2, <2>3
  <1> HIDE DEF Same
  <1>3. SUBSET V \subseteq Same
    BY <1>0, <1>1, <1>2, SubsetInduction
  <1>4. QED
    BY <1>3, SumIsSums DEF Same

(* What the proofs cite about sums. *)
LEMMA SumOfNone ==
  ASSUME NEW f
  PROVE  SumFunctionOnSet(f, {}) = 0
  <1>1. IsFiniteSet({}) /\ {} \in SUBSET {}
    BY FS_EmptySet
  <1>2. Sums(f, {})[{}] = 0
    BY <1>1, SumsExist DEF Adds
  <1>3. QED
    BY <1>2, SumIsSums

LEMMA SumTake ==
  ASSUME NEW f, NEW S, IsFiniteSet(S), \A i \in S : f[i] \in Int
  PROVE  /\ SumFunctionOnSet(f, S) \in Int
         /\ \A x \in S : SumFunctionOnSet(f, S) = f[x] + SumFunctionOnSet(f, S \ {x})
  <1>0. \A s \in SUBSET S :
           /\ Sums(f, S)[s] \in Int
           /\ \A x \in s : Sums(f, S)[s] = f[x] + Sums(f, S)[s \ {x}]
    BY SumsTake
  <1>1. Sums(f, S)[S] \in Int /\ \A x \in S : Sums(f, S)[S] = f[x] + Sums(f, S)[S \ {x}]
    BY <1>0
  <1>2. \A x \in S : Sums(f, S)[S \ {x}] = SumFunctionOnSet(f, S \ {x})
    BY SumsWithin
  <1>3. QED
    BY <1>1, <1>2, SumIsSums

LEMMA SumAdd ==
  ASSUME NEW f, NEW S, IsFiniteSet(S), \A i \in S : f[i] \in Int,
         NEW x, x \notin S, f[x] \in Int
  PROVE  SumFunctionOnSet(f, S \cup {x}) = SumFunctionOnSet(f, S) + f[x]
  <1>1. IsFiniteSet(S \cup {x}) /\ (S \cup {x}) \ {x} = S
    BY FS_AddElement
  <1>2. SumFunctionOnSet(f, S \cup {x}) = f[x] + SumFunctionOnSet(f, (S \cup {x}) \ {x})
    BY <1>1, SumTake
  <1>3. SumFunctionOnSet(f, S) \in Int
    BY SumTake
  <1>4. SumFunctionOnSet(f, (S \cup {x}) \ {x}) = SumFunctionOnSet(f, S)
    BY <1>1, Zenon
  <1>5. QED
    BY <1>2, <1>3, <1>4

(* Sums of functions one of which is nowhere greater.                      *)
LEMMA SumMonotone ==
  ASSUME NEW f, NEW g, NEW S, IsFiniteSet(S),
         \A i \in S : f[i] \in Int /\ g[i] \in Int /\ f[i] <= g[i]
  PROVE  SumFunctionOnSet(f, S) <= SumFunctionOnSet(g, S)
  <1> DEFINE Good == {s \in SUBSET S : SumFunctionOnSet(f, s) <= SumFunctionOnSet(g, s)}
  <1>1. {} \in Good
    BY SumOfNone
  <1>2. ASSUME NEW s \in SUBSET S, NEW x \in S \ s, s \in Good
        PROVE  s \cup {x} \in Good
    <2>1. IsFiniteSet(s)
      BY FS_Subset
    <2>2. /\ SumFunctionOnSet(f, s) \in Int /\ SumFunctionOnSet(g, s) \in Int
          /\ SumFunctionOnSet(f, s \cup {x}) = SumFunctionOnSet(f, s) + f[x]
          /\ SumFunctionOnSet(g, s \cup {x}) = SumFunctionOnSet(g, s) + g[x]
      BY <2>1, SumTake, SumAdd
    <2>3. QED
      BY <1>2, <2>2
  <1> HIDE DEF Good
  <1>3. SUBSET S \subseteq Good
    BY <1>1, <1>2, SubsetInduction
  <1>4. QED
    BY <1>3 DEF Good

LEMMA SumAgree ==
  ASSUME NEW f, NEW g, NEW S, IsFiniteSet(S), \A i \in S : f[i] \in Int /\ f[i] = g[i]
  PROVE  SumFunctionOnSet(f, S) = SumFunctionOnSet(g, S)
  <1>1. SumFunctionOnSet(f, S) <= SumFunctionOnSet(g, S)
        /\ SumFunctionOnSet(g, S) <= SumFunctionOnSet(f, S)
    BY SumMonotone
  <1>2. SumFunctionOnSet(f, S) \in Int /\ SumFunctionOnSet(g, S) \in Int
    BY SumTake
  <1>3. QED
    BY <1>1, <1>2

(* Sums of natural numbers grow with their set. *)
LEMMA SumGrows ==
  ASSUME NEW f, NEW S, IsFiniteSet(S), \A i \in S : f[i] \in Nat, NEW R \in SUBSET S
  PROVE  /\ SumFunctionOnSet(f, R) \in Nat
         /\ SumFunctionOnSet(f, S) \in Nat
         /\ SumFunctionOnSet(f, R) <= SumFunctionOnSet(f, S)
  <1> DEFINE Good == {s \in SUBSET S :
                        /\ SumFunctionOnSet(f, s) \in Nat
                        /\ SumFunctionOnSet(f, s \cap R) \in Nat
                        /\ SumFunctionOnSet(f, s \cap R) <= SumFunctionOnSet(f, s)}
  <1>1. {} \in Good
    BY SumOfNone
  <1>2. ASSUME NEW s \in SUBSET S, NEW x \in S \ s, s \in Good
        PROVE  s \cup {x} \in Good
    <2>1. IsFiniteSet(s) /\ IsFiniteSet(s \cap R)
      BY FS_Subset
    <2>2. SumFunctionOnSet(f, s \cup {x}) = SumFunctionOnSet(f, s) + f[x]
      BY <2>1, SumAdd
    <2>3. CASE x \in R
      <3>1. (s \cup {x}) \cap R = (s \cap R) \cup {x} /\ x \notin s \cap R
        BY <2>3
      <3> DEFINE r == s \cap R
      <3>2. IsFiniteSet(r) /\ (\A i \in r : f[i] \in Int) /\ x \notin r /\ f[x] \in Int
        BY <2>1, <3>1
      <3>3. SumFunctionOnSet(f, r \cup {x}) = SumFunctionOnSet(f, r) + f[x]
        <4> HIDE DEF r
        <4>1. QED
          BY <3>2, SumAdd
      <3>4. SumFunctionOnSet(f, (s \cup {x}) \cap R) = SumFunctionOnSet(f, r) + f[x]
        BY <3>1, <3>3, Zenon
      <3>5. QED
        BY <1>2, <2>2, <3>4
    <2>4. CASE x \notin R
      <3>1. (s \cup {x}) \cap R = s \cap R
        BY <2>4
      <3>2. SumFunctionOnSet(f, (s \cup {x}) \cap R) = SumFunctionOnSet(f, s \cap R)
        BY <3>1, Zenon
      <3>3. QED
        BY <1>2, <2>2, <3>2
    <2>5. QED
      BY <2>3, <2>4
  <1> HIDE DEF Good
  <1>3. SUBSET S \subseteq Good
    BY <1>1, <1>2, SubsetInduction
  <1>4. S \cap R = R
    OBVIOUS
  <1>5. QED
    BY <1>3, <1>4 DEF Good

(* The sum over two sets without a common element.                         *)
LEMMA SumUnion ==
  ASSUME NEW f, NEW S, IsFiniteSet(S), \A i \in S : f[i] \in Int, NEW A \in SUBSET S
  PROVE  \A B \in SUBSET S : A \cap B = {} =>
           SumFunctionOnSet(f, A \cup B) = SumFunctionOnSet(f, A) + SumFunctionOnSet(f, B)
  <1> DEFINE Good == {s \in SUBSET S : A \cap s = {} =>
                        SumFunctionOnSet(f, A \cup s) =
                          SumFunctionOnSet(f, A) + SumFunctionOnSet(f, s)}
  <1>0. SumFunctionOnSet(f, A) \in Int
    BY FS_Subset, SumTake
  <1>1. {} \in Good
    <2>1. A \cup {} = A
      OBVIOUS
    <2>2. SumFunctionOnSet(f, A \cup {}) = SumFunctionOnSet(f, A)
      BY <2>1, Zenon
    <2>3. QED
      BY <1>0, <2>2, SumOfNone
  <1>2. ASSUME NEW s \in SUBSET S, NEW x \in S \ s, s \in Good
        PROVE  s \cup {x} \in Good
    <2> SUFFICES ASSUME A \cap (s \cup {x}) = {}
                 PROVE  SumFunctionOnSet(f, A \cup (s \cup {x})) =
                          SumFunctionOnSet(f, A) + SumFunctionOnSet(f, s \cup {x})
      OBVIOUS
    <2> DEFINE r == A \cup s
    <2>1. IsFiniteSet(s) /\ IsFiniteSet(r) /\ x \notin s /\ x \notin r /\ f[x] \in Int
      <3>1. r \in SUBSET S /\ s \in SUBSET S /\ x \notin s /\ x \notin r /\ x \in S
        OBVIOUS
      <3> HIDE DEF r
      <3>2. QED
        BY <3>1, FS_Subset
    <2>2. (\A i \in r : f[i] \in Int) /\ (\A i \in s : f[i] \in Int)
      OBVIOUS
    <2>3. SumFunctionOnSet(f, s \cup {x}) = SumFunctionOnSet(f, s) + f[x]
      BY <2>1, <2>2, SumAdd
    <2>4. SumFunctionOnSet(f, r \cup {x}) = SumFunctionOnSet(f, r) + f[x]
      <3> HIDE DEF r
      <3>1. QED
        BY <2>1, <2>2, SumAdd
    <2>5. r \cup {x} = A \cup (s \cup {x})
      OBVIOUS
    <2>6. SumFunctionOnSet(f, A \cup (s \cup {x})) = SumFunctionOnSet(f, r) + f[x]
      BY <2>4, <2>5, Zenon
    <2>7. SumFunctionOnSet(f, s) \in Int
      BY <2>1, <2>2, SumTake
    <2>8. SumFunctionOnSet(f, r) = SumFunctionOnSet(f, A) + SumFunctionOnSet(f, s)
      BY <1>2
    <2> HIDE DEF r
    <2>9. QED
      BY <1>0, <2>1, <2>3, <2>6, <2>7, <2>8
  <1> HIDE DEF Good
  <1>3. SUBSET S \subseteq Good
    BY <1>1, <1>2, SubsetInduction
  <1>4. QED
    BY <1>3 DEF Good

(* One of the values changes.                                             *)
LEMMA SumChange ==
  ASSUME NEW f, NEW g, NEW S, IsFiniteSet(S), NEW x \in S,
         \A i \in S : f[i] \in Int /\ g[i] \in Int,
         \A i \in S \ {x} : f[i] = g[i]
  PROVE  SumFunctionOnSet(g, S) = SumFunctionOnSet(f, S) - f[x] + g[x]
  <1> DEFINE R == S \ {x}
  <1>1. IsFiniteSet(R)
    BY FS_Subset
  <1>2. /\ SumFunctionOnSet(f, S) = f[x] + SumFunctionOnSet(f, R)
        /\ SumFunctionOnSet(g, S) = g[x] + SumFunctionOnSet(g, R)
    BY SumTake
  <1>3. \A i \in R : f[i] \in Int /\ f[i] = g[i]
    OBVIOUS
  <1> HIDE DEF R
  <1>4. SumFunctionOnSet(f, R) = SumFunctionOnSet(g, R)
    BY <1>1, <1>3, SumAgree
  <1>5. SumFunctionOnSet(f, R) \in Int
    BY <1>1, <1>3, SumTake
  <1>6. QED
    BY <1>2, <1>4, <1>5

(* The sum of the sums of the parts.                                       *)
LEMMA SumByParts ==
  ASSUME NEW f, NEW S, IsFiniteSet(S), \A i \in S : f[i] \in Int,
         NEW g, NEW C, IsFiniteSet(C), \A i \in S : g[i] \in C,
         NEW h, \A c \in C : h[c] = SumFunctionOnSet(f, {i \in S : g[i] = c})
  PROVE  SumFunctionOnSet(h, C) = SumFunctionOnSet(f, S)
  <1> DEFINE in(T) == {i \in S : g[i] \in T}
             of(c) == {i \in S : g[i] = c}
             Good == {T \in SUBSET C : SumFunctionOnSet(h, T) = SumFunctionOnSet(f, in(T))}
  <1>0. \A c \in C : h[c] = SumFunctionOnSet(f, of(c)) /\ h[c] \in Int
    <2>1. ASSUME NEW c \in C
          PROVE  SumFunctionOnSet(f, of(c)) \in Int
      <3>1. IsFiniteSet(of(c)) /\ \A i \in of(c) : f[i] \in Int
        BY FS_Subset
      <3> HIDE DEF of
      <3>2. QED
        BY <3>1, SumTake
    <2>2. QED
      BY <2>1
  <1>1. {} \in Good
    <2>1. in({}) = {}
      OBVIOUS
    <2>2. SumFunctionOnSet(f, in({})) = SumFunctionOnSet(f, {})
      BY <2>1, Zenon
    <2>3. QED
      BY <2>2, SumOfNone
  <1>2. ASSUME NEW T \in SUBSET C, NEW x \in C \ T, T \in Good
        PROVE  T \cup {x} \in Good
    <2> DEFINE a == in(T)
               b == of(x)
    <2>1. IsFiniteSet(T) /\ \A c \in T : h[c] \in Int
      BY <1>0, FS_Subset
    <2>2. SumFunctionOnSet(h, T \cup {x}) = SumFunctionOnSet(h, T) + h[x]
      BY <1>0, <2>1, SumAdd
    <2>3. in(T \cup {x}) = a \cup b
      OBVIOUS
    <2>4. a \in SUBSET S /\ b \in SUBSET S /\ a \cap b = {}
      OBVIOUS
    <2>5. SumFunctionOnSet(f, in(T \cup {x})) = SumFunctionOnSet(f, a \cup b)
      BY <2>3, Zenon
    <2>6. SumFunctionOnSet(h, T) = SumFunctionOnSet(f, a)
      BY <1>2
    <2>7. h[x] = SumFunctionOnSet(f, b)
      BY <1>0
    <2> HIDE DEF a, b
    <2>8. SumFunctionOnSet(f, a \cup b) = SumFunctionOnSet(f, a) + SumFunctionOnSet(f, b)
      BY <2>4, SumUnion
    <2>9. QED
      BY <2>2, <2>5, <2>6, <2>7, <2>8
  <1> HIDE DEF Good
  <1>3. SUBSET C \subseteq Good
    BY <1>1, <1>2, SubsetInduction
  <1>4. SumFunctionOnSet(h, C) = SumFunctionOnSet(f, in(C))
    BY <1>3 DEF Good
  <1>5. in(C) = S
    OBVIOUS
  <1>6. SumFunctionOnSet(f, in(C)) = SumFunctionOnSet(f, S)
    BY <1>5, Zenon
  <1>7. QED
    BY <1>4, <1>6

-----------------------------------------------------------------------------
(* The votes of the semantic layer *)

(* A poll under an accepted bank and accepted settings.                    *)
IsPoll(p) ==
  /\ DOMAIN p = {"labels", "similarities", "k", "riskShare", "minSimilarity"}
  /\ p.labels \in Seq([prefixed : BOOLEAN, name : STRING])
  /\ \A i \in 1..Len(p.labels) : Known(p.labels[i]) /\ p.similarities[i] \in Int
  /\ p.k \in Int
  /\ p.riskShare \in Percent
  /\ p.minSimilarity \in Percent

LEMMA PollNumbers ==
  ASSUME NEW p, IsPoll(p)
  PROVE  p.riskShare \in Nat
  <1>1. \A x \in Percent : x \in Nat
    BY DEF Percent
  <1>2. QED
    BY <1>1 DEF IsPoll

LEMMA NearestFacts ==
  ASSUME NEW p, IsPoll(p)
  PROVE  /\ IsFiniteSet(Nearest(p)) /\ Nearest(p) \subseteq 1..Len(p.labels)
         /\ Nearest(p) \subseteq Nat
         /\ \A i \in Nearest(p) : p.similarities[i] \in Nat /\ p.similarities[i] >= p.minSimilarity
         /\ RiskVotes(p) \subseteq Nearest(p) /\ TaskVotes(p) \subseteq Nearest(p)
         /\ \A i \in RiskVotes(p) : p.labels[i].name \in RiskCategories
         /\ \A i \in TaskVotes(p) :
              p.labels[i] = [prefixed |-> FALSE, name |-> p.labels[i].name]
                /\ p.labels[i].name \in TaskTypes
  <1>1. Len(p.labels) \in Nat
    BY LenProperties DEF IsPoll
  <1>2. Nearest(p) \subseteq 1..Len(p.labels) /\ IsFiniteSet(1..Len(p.labels))
    BY <1>1, FS_Interval DEF Nearest
  <1>3. IsFiniteSet(Nearest(p)) /\ Nearest(p) \subseteq Nat
    BY <1>1, <1>2, FS_Subset
  <1>4. \A i \in Nearest(p) : p.similarities[i] \in Nat /\ p.similarities[i] >= p.minSimilarity
    <2> TAKE i \in Nearest(p)
    <2>1. p.similarities[i] \in Int /\ p.minSimilarity \in Percent
      BY <1>2 DEF IsPoll
    <2>2. p.similarities[i] >= p.minSimilarity
      BY DEF Nearest
    <2>3. QED
      BY <2>1, <2>2 DEF Percent
  <1>5. RiskVotes(p) \subseteq Nearest(p) /\ TaskVotes(p) \subseteq Nearest(p)
    BY DEF RiskVotes, TaskVotes
  <1>6. \A i \in 1..Len(p.labels) : Known(p.labels[i]) /\ p.labels[i] \in [prefixed : BOOLEAN, name : STRING]
    BY ElementOfSeq DEF IsPoll
  <1>7. ASSUME NEW i \in RiskVotes(p)
        PROVE  p.labels[i].name \in RiskCategories
    <2>1. IsRisk(p.labels[i]) /\ Known(p.labels[i])
      BY <1>2, <1>5, <1>6 DEF RiskVotes
    <2>2. QED
      BY <2>1 DEF IsRisk, IsTask, Known
  <1>8. ASSUME NEW i \in TaskVotes(p)
        PROVE  p.labels[i] = [prefixed |-> FALSE, name |-> p.labels[i].name]
                 /\ p.labels[i].name \in TaskTypes
    <2>1. IsTask(p.labels[i]) /\ p.labels[i] \in [prefixed : BOOLEAN, name : STRING]
      BY <1>2, <1>5, <1>6 DEF TaskVotes
    <2>2. QED
      BY <2>1 DEF IsTask
  <1>9. QED
    BY <1>2, <1>3, <1>4, <1>5, <1>7, <1>8

(* Weights are natural, grow with the set, and add up.                     *)
LEMMA WeightFacts ==
  ASSUME NEW p, IsPoll(p), NEW S \in SUBSET Nearest(p)
  PROVE  /\ Weight(p, S) \in Nat
         /\ \A R \in SUBSET S : Weight(p, R) \in Nat /\ Weight(p, R) <= Weight(p, S)
         /\ \A i \in S : p.similarities[i] <= Weight(p, S)
         /\ \A A, B \in SUBSET S :
              A \cap B = {} => Weight(p, A \cup B) = Weight(p, A) + Weight(p, B)
         /\ Weight(p, {}) = 0
  <1> DEFINE f == p.similarities
  <1>1. IsFiniteSet(S) /\ \A i \in S : f[i] \in Nat /\ f[i] \in Int
    BY NearestFacts, FS_Subset
  <1>2. \A R \in SUBSET S : Weight(p, R) \in Nat /\ Weight(p, S) \in Nat /\ Weight(p, R) <= Weight(p, S)
    BY <1>1, SumGrows DEF Weight
  <1>3. ASSUME NEW i \in S
        PROVE  f[i] <= Weight(p, S)
    <2>1. Weight(p, S) = f[i] + Weight(p, S \ {i})
      BY <1>1, SumTake DEF Weight
    <2>2. Weight(p, S \ {i}) \in Nat
      BY <1>2
    <2>3. QED
      BY <1>1, <2>1, <2>2
  <1>4. ASSUME NEW A \in SUBSET S, NEW B \in SUBSET S, A \cap B = {}
        PROVE  Weight(p, A \cup B) = Weight(p, A) + Weight(p, B)
    BY <1>1, <1>4, SumUnion DEF Weight
  <1>5. Weight(p, {}) = 0
    BY SumOfNone DEF Weight
  <1>6. QED
    BY <1>2, <1>3, <1>4, <1>5

(* The set of exemplars with the label of a vote.                          *)
LEMMA WithFacts ==
  ASSUME NEW p, NEW label
  PROVE  With(p, label) \in SUBSET Nearest(p)
  BY DEF With

(* The heaviest label is that of a vote, and no other vote's is heavier.   *)
LEMMA HeaviestFacts ==
  ASSUME NEW p, IsPoll(p), NEW votes \in SUBSET Nearest(p), votes # {}
  PROVE  \E i \in votes :
           /\ Heaviest(p, votes) = p.labels[i]
           /\ \A j \in votes : Weight(p, With(p, p.labels[j])) <= Weight(p, With(p, p.labels[i]))
  <1> DEFINE W(i) == Weight(p, With(p, p.labels[i]))
             all == Weight(p, Nearest(p))
             Gaps == {all - W(i) : i \in votes}
  <1>1. votes \subseteq Nat
    BY NearestFacts
  <1>2. all \in Nat /\ \A i \in votes : W(i) \in Nat /\ W(i) <= all
    BY WeightFacts, WithFacts
  <1> HIDE DEF all, W
  <1>3. Gaps \in SUBSET Nat /\ Gaps # {}
    BY <1>2
  <1>4. Min(Gaps) \in Gaps /\ \A g \in Gaps : Min(Gaps) <= g
    BY <1>3, FirstPosition
  <1>5. PICK h \in votes : Min(Gaps) = all - W(h)
    BY <1>4
  <1>6. \A j \in votes : W(j) <= W(h)
    <2> TAKE j \in votes
    <2>1. all - W(h) <= all - W(j)
      BY <1>4, <1>5
    <2>2. QED
      BY <1>2, <2>1
  <1> DEFINE Same == {j \in votes : p.labels[j] = p.labels[h]}
  <1>7. Min(Same) \in Same /\ \A j \in Same : Min(Same) <= j
    <2>1. Same \in SUBSET Nat /\ Same # {}
      BY <1>1
    <2> HIDE DEF Same
    <2>2. QED
      BY <2>1, FirstPosition
  <1> DEFINE Front == {i \in votes : /\ \A j \in votes : p.labels[j] = p.labels[i] => i <= j
                                     /\ \A j \in votes : W(j) <= W(i)}
  <1>8. Min(Same) \in Front
    <2>1. Min(Same) \in votes /\ p.labels[Min(Same)] = p.labels[h]
      BY <1>7
    <2>2. W(Min(Same)) = W(h)
      BY <2>1 DEF W
    <2>3. \A j \in votes : p.labels[j] = p.labels[Min(Same)] => Min(Same) <= j
      BY <1>7, <2>1
    <2>4. QED
      BY <1>6, <2>1, <2>2, <2>3
  <1>9. Min(Front) \in Front
    <2>1. Front \in SUBSET Nat /\ Front # {}
      BY <1>1, <1>8
    <2> HIDE DEF Front
    <2>2. QED
      BY <2>1, FirstPosition
  <1>10. Heaviest(p, votes) = p.labels[Min(Front)]
    BY DEF Heaviest, W
  <1>11. Min(Front) \in votes /\ \A j \in votes : W(j) <= W(Min(Front))
    BY <1>9
  <1> HIDE DEF Front
  <1>12. QED
    BY <1>10, <1>11 DEF W

(* What a call of assess that does not raise returns is a verdict.         *)
LEMMA AssessedType ==
  ASSUME NEW p, IsPoll(p), ~ Raises(p)
  PROVE  Assessed(p) \in Verdict
  <1> DEFINE v == Assessed(p)
             total == Weight(p, TaskVotes(p))
  <1>1. CASE Nearest(p) = {}
    BY <1>1 DEF Assessed, NoVerdict, Verdict, Percent
  <1>2. CASE Nearest(p) # {}
    <2>1. ASSUME Flagged(p)
          PROVE  Heaviest(p, RiskVotes(p)).name \in RiskCategories
      <3>1. RiskVotes(p) # {}
        BY <1>2, <2>1 DEF Raises
      <3>2. QED
        BY <3>1, HeaviestFacts, NearestFacts
    <2>2. ASSUME TaskVotes(p) # {}
          PROVE  Heaviest(p, TaskVotes(p)).name \in TaskTypes /\ TaskShare(p) \in Percent
      <3>1. PICK i \in TaskVotes(p) : Heaviest(p, TaskVotes(p)) = p.labels[i]
        BY <2>2, HeaviestFacts, NearestFacts
      <3> DEFINE part == Weight(p, With(p, p.labels[i]))
      <3>2. With(p, p.labels[i]) \subseteq TaskVotes(p)
        BY <3>1 DEF With, TaskVotes
      <3>3. total \in Nat /\ part \in Nat /\ part <= total
        BY <3>2, WeightFacts, NearestFacts
      <3>4. total # 0
        BY <1>2, <2>2 DEF Raises
      <3>5. TaskShare(p) = (100 * part) \div total
        BY <3>1 DEF TaskShare
      <3> HIDE DEF part, total
      <3>6. (100 * part) \div total \in 0..100
        BY <3>3, <3>4
      <3>7. p.labels[i].name \in TaskTypes
        BY NearestFacts
      <3>8. QED
        BY <3>1, <3>5, <3>6, <3>7 DEF Percent
    <2>3. v = [risk  |-> IF Flagged(p) THEN Heaviest(p, RiskVotes(p)).name ELSE None,
               task  |-> IF TaskVotes(p) = {} THEN None ELSE Heaviest(p, TaskVotes(p)).name,
               share |-> IF TaskVotes(p) = {} THEN 0 ELSE TaskShare(p)]
      BY <1>2 DEF Assessed
    <2>4. 0 \in Percent
      BY DEF Percent
    <2>5. QED
      BY <2>1, <2>2, <2>3, <2>4 DEF Verdict
  <1>3. QED
    BY <1>1, <1>2

(* assess raises only under a share or a threshold of zero.                *)
LEMMA RaisesOnlyAtZero ==
  ASSUME NEW p, IsPoll(p), Raises(p)
  PROVE  p.riskShare = 0 \/ p.minSimilarity = 0
  <1> SUFFICES ASSUME p.riskShare # 0, p.minSimilarity # 0
               PROVE  FALSE
    OBVIOUS
  <1>1. p.riskShare \in 1..100 /\ p.minSimilarity \in 1..100
    BY DEF IsPoll, Percent
  <1>2. ASSUME NEW S \in SUBSET Nearest(p), S # {}
        PROVE  Weight(p, S) \in Nat /\ Weight(p, S) > 0
    <2>1. PICK i \in S : TRUE
      BY <1>2
    <2>2. p.similarities[i] \in Nat /\ p.similarities[i] >= p.minSimilarity
      BY NearestFacts
    <2>3. p.similarities[i] <= Weight(p, S) /\ Weight(p, S) \in Nat
      BY WeightFacts
    <2>4. QED
      BY <1>1, <2>2, <2>3
  <1>3. Nearest(p) # {} /\ Weight(p, Nearest(p)) \in Nat /\ Weight(p, Nearest(p)) > 0
    BY <1>2 DEF Raises
  <1>4. CASE Flagged(p) /\ RiskVotes(p) = {}
    <2>1. Weight(p, RiskVotes(p)) = 0
      BY <1>4, WeightFacts
    <2>2. 100 * 0 >= p.riskShare * Weight(p, Nearest(p))
      BY <1>4, <2>1 DEF Flagged
    <2>3. QED
      BY <1>1, <1>3, <2>2
  <1>5. CASE TaskVotes(p) # {} /\ Weight(p, TaskVotes(p)) = 0
    BY <1>2, <1>5, NearestFacts
  <1>6. QED
    BY <1>3, <1>4, <1>5 DEF Raises

(* More exemplars of risk, no less caution: for every bank and setting.    *)
THEOREM PollMoreRiskNeverLess ==
  ASSUME NEW p, IsPoll(p)
  PROVE  MoreRiskNeverLess(p)
  <1> SUFFICES ASSUME Flagged(p), NEW i \in 1..Len(p.labels), NEW category \in RiskCategories
               PROVE  Flagged([p EXCEPT !.labels = [p.labels EXCEPT ![i] = RiskLabel(category)]])
    BY DEF MoreRiskNeverLess
  <1> DEFINE labels == [p.labels EXCEPT ![i] = RiskLabel(category)]
             q == [p EXCEPT !.labels = labels]
  <1>1. /\ q.labels = labels /\ q.similarities = p.similarities /\ q.k = p.k
        /\ q.riskShare = p.riskShare /\ q.minSimilarity = p.minSimilarity
    BY DEF IsPoll
  <1>2. /\ Len(labels) = Len(p.labels)
        /\ labels[i] = RiskLabel(category)
        /\ \A j \in 1..Len(p.labels) : j # i => labels[j] = p.labels[j]
    BY DEF IsPoll
  <1> HIDE DEF labels, q
  <1>3. Nearest(q) = Nearest(p)
    BY <1>1, <1>2 DEF Nearest
  <1>4. RiskVotes(p) \subseteq RiskVotes(q) /\ RiskVotes(q) \subseteq Nearest(p)
    <2>1. IsRisk(RiskLabel(category))
      BY DEF IsRisk, RiskLabel
    <2>2. Nearest(p) \subseteq 1..Len(p.labels)
      BY NearestFacts
    <2>3. QED
      BY <1>1, <1>2, <1>3, <2>1, <2>2 DEF RiskVotes
  <1>5. \A S : Weight(q, S) = Weight(p, S)
    BY <1>1 DEF Weight
  <1>6. /\ Weight(p, RiskVotes(p)) \in Nat /\ Weight(p, RiskVotes(q)) \in Nat
        /\ Weight(p, RiskVotes(p)) <= Weight(p, RiskVotes(q))
        /\ Weight(p, Nearest(p)) \in Nat
    BY <1>4, WeightFacts
  <1>7. p.riskShare \in Nat
    BY PollNumbers
  <1>8. 100 * Weight(p, RiskVotes(p)) >= p.riskShare * Weight(p, Nearest(p))
    BY DEF Flagged
  <1> DEFINE bound == p.riskShare * Weight(p, Nearest(p))
  <1>9. bound \in Nat
    BY <1>6, <1>7
  <1> HIDE DEF bound
  <1>10. 100 * Weight(p, RiskVotes(q)) >= bound
    BY <1>6, <1>8, <1>9 DEF bound
  <1>11. Flagged(q)
    BY <1>1, <1>3, <1>5, <1>10 DEF Flagged, bound
  <1>12. QED
    BY <1>11 DEF q, labels

(* The names the task votes are cast for, and the votes for some of them.  *)
TaskNames(p) == {p.labels[i].name : i \in TaskVotes(p)}
VotesFor(p, names) == {i \in TaskVotes(p) : p.labels[i].name \in names}

NoneHeavier(p, w) == \A i \in TaskVotes(p) : Weight(p, With(p, p.labels[i])) <= w

(* If no label weighs more than w, some labels weigh no more than each w.  *)
LEMMA VotesShared ==
  ASSUME NEW p, IsPoll(p), NEW w \in Nat, NoneHeavier(p, w)
  PROVE  /\ IsFiniteSet(TaskNames(p)) /\ Cardinality(TaskNames(p)) \in Nat
         /\ Weight(p, TaskVotes(p)) <= Cardinality(TaskNames(p)) * w
  <1> DEFINE Good == {s \in SUBSET TaskNames(p) : Weight(p, VotesFor(p, s)) <= Cardinality(s) * w}
  <1>0. TaskVotes(p) \subseteq Nearest(p) /\ IsFiniteSet(TaskVotes(p))
    BY NearestFacts, FS_Subset
  <1>1. IsFiniteSet(TaskNames(p))
    <2> DEFINE f == [i \in TaskVotes(p) |-> p.labels[i].name]
    <2>1. f \in Surjection(TaskVotes(p), TaskNames(p))
      BY DEF Surjection, TaskNames
    <2>2. QED
      BY <1>0, <2>1, FS_Surjection
  <1>2. {} \in Good
    <2>1. VotesFor(p, {}) = {} /\ Cardinality({}) = 0
      BY FS_EmptySet DEF VotesFor
    <2>2. Weight(p, {}) = 0
      BY WeightFacts
    <2>3. Weight(p, VotesFor(p, {})) = 0
      BY <2>1, <2>2
    <2>4. QED
      BY <2>1, <2>3
  <1>3. ASSUME NEW s \in SUBSET TaskNames(p), NEW x \in TaskNames(p) \ s, s \in Good
        PROVE  s \cup {x} \in Good
    <2> DEFINE A == VotesFor(p, s)
               B == VotesFor(p, {x})
    <2>1. IsFiniteSet(s) /\ Cardinality(s) \in Nat
      BY <1>1, FS_Subset, FS_CardinalityType
    <2>2. Cardinality(s \cup {x}) = Cardinality(s) + 1
      BY <2>1, FS_AddElement
    <2>3. VotesFor(p, s \cup {x}) = A \cup B
      BY DEF VotesFor
    <2>4. A \in SUBSET Nearest(p) /\ B \in SUBSET Nearest(p) /\ A \cap B = {}
      BY <1>0 DEF VotesFor
    <2>5. Weight(p, B) <= w
      <3>1. PICK j \in TaskVotes(p) : x = p.labels[j].name
        BY DEF TaskNames
      <3>2. \A i \in TaskVotes(p) :
              p.labels[i] = [prefixed |-> FALSE, name |-> p.labels[i].name]
        BY NearestFacts
      <3>3. B \subseteq With(p, p.labels[j])
        <4> SUFFICES ASSUME NEW i \in B
                     PROVE  i \in Nearest(p) /\ p.labels[i] = p.labels[j]
          BY DEF With
        <4>1. i \in TaskVotes(p) /\ p.labels[i].name = x
          BY DEF VotesFor
        <4>2. QED
          BY <1>0, <3>1, <3>2, <4>1
      <3>4. With(p, p.labels[j]) \in SUBSET Nearest(p)
        BY WithFacts
      <3>5. /\ Weight(p, B) \in Nat /\ Weight(p, With(p, p.labels[j])) \in Nat
            /\ Weight(p, B) <= Weight(p, With(p, p.labels[j]))
        BY <3>3, <3>4, WeightFacts
      <3>6. Weight(p, With(p, p.labels[j])) <= w
        BY <3>1 DEF NoneHeavier
      <3>7. QED
        BY <3>5, <3>6
    <2>6. Weight(p, A \cup B) = Weight(p, A) + Weight(p, B)
      <3>1. \A C, D \in SUBSET Nearest(p) :
              C \cap D = {} => Weight(p, C \cup D) = Weight(p, C) + Weight(p, D)
        BY WeightFacts
      <3> HIDE DEF A, B
      <3>2. QED
        BY <2>4, <3>1
    <2>7. Weight(p, A) \in Nat /\ Weight(p, B) \in Nat
      <3> HIDE DEF A, B
      <3>1. QED
        BY <2>4, WeightFacts
    <2>8. Weight(p, A) <= Cardinality(s) * w
      BY <1>3
    <2> HIDE DEF A, B
    <2>9. Weight(p, A) + Weight(p, B) <= (Cardinality(s) + 1) * w
      BY <2>1, <2>5, <2>7, <2>8
    <2>10. Weight(p, VotesFor(p, s \cup {x})) <= Cardinality(s \cup {x}) * w
      <3>1. Weight(p, VotesFor(p, s \cup {x})) = Weight(p, A) + Weight(p, B)
        BY <2>3, <2>6, Zenon
      <3>2. QED
        BY <2>2, <2>9, <3>1
    <2>11. QED
      BY <2>10
  <1> DEFINE U == TaskNames(p)
  <1>4. \A s \in SUBSET U : \A x \in U \ s : s \in Good => s \cup {x} \in Good
    BY <1>3
  <1> HIDE DEF Good
  <1>5. IsFiniteSet(U)
    BY <1>1
  <1> HIDE DEF U
  <1>6. SUBSET U \subseteq Good
    BY <1>2, <1>4, <1>5, SubsetInduction
  <1>7. VotesFor(p, TaskNames(p)) = TaskVotes(p)
    BY DEF VotesFor, TaskNames
  <1>8. Weight(p, VotesFor(p, TaskNames(p))) <= Cardinality(TaskNames(p)) * w
    BY <1>6 DEF Good, U
  <1>9. QED
    BY <1>1, <1>7, <1>8, FS_CardinalityType

(* The arithmetic of a share: of n parts none of which exceeds w the whole *)
(* is at most n times w.                                                   *)
LEMMA ShareOfLargest ==
  ASSUME NEW w \in Nat, NEW total \in Nat, NEW n \in Nat, w <= total, total # 0, total <= n * w
  PROVE  LET share == (100 * w) \div total IN share \in Nat /\ share * n + n > 100
  <1> DEFINE share == (100 * w) \div total
  <1>1. share \in Nat /\ 100 * w < total * (share + 1)
    BY Z3
  <1> HIDE DEF share
  <1>2. share + 1 \in Nat /\ w > 0
    BY <1>1
  <1>3. total * (share + 1) <= (n * w) * (share + 1)
    BY <1>2
  <1>4. (n * w) * (share + 1) = w * (n * (share + 1))
    BY <1>2
  <1>5. n * (share + 1) \in Nat
    BY <1>2
  <1> DEFINE m == n * (share + 1)
  <1> HIDE DEF m
  <1>6. w * 100 < w * m
    BY <1>1, <1>2, <1>3, <1>4, <1>5 DEF m
  <1>7. m > 100
    BY <1>2, <1>5, <1>6 DEF m
  <1>8. m = share * n + n
    BY <1>1 DEF m
  <1>9. QED
    BY <1>1, <1>7, <1>8 DEF share

(* The winner of the task vote has the share no other could exceed.        *)
THEOREM PollTaskVoteIgnoresRisk ==
  ASSUME NEW p, IsPoll(p), ~ Raises(p)
  PROVE  TaskVoteIgnoresRisk(p)
  <1> DEFINE votes == TaskVotes(p)
             n == Cardinality(TaskNames(p))
             total == Weight(p, votes)
  <1> SUFFICES ASSUME Assessed(p).task # None
               PROVE  /\ Assessed(p).task \in TaskNames(p)
                      /\ Assessed(p).share * n + n > 100
                      /\ n = 1 => Assessed(p).share = 100
    BY DEF TaskVoteIgnoresRisk, TaskNames
  <1>1. Nearest(p) # {} /\ votes # {}
    BY DEF Assessed, NoVerdict
  <1>2. Assessed(p).task = Heaviest(p, votes).name /\ Assessed(p).share = TaskShare(p)
    BY <1>1 DEF Assessed
  <1>3. PICK i \in votes :
          /\ Heaviest(p, votes) = p.labels[i]
          /\ \A j \in votes : Weight(p, With(p, p.labels[j])) <= Weight(p, With(p, p.labels[i]))
    BY <1>1, HeaviestFacts, NearestFacts
  <1> DEFINE w == Weight(p, With(p, p.labels[i]))
  <1>4. With(p, p.labels[i]) \subseteq votes
    BY <1>3 DEF With, TaskVotes
  <1>5. total \in Nat /\ w \in Nat /\ w <= total
    BY <1>4, WeightFacts, NearestFacts
  <1>6. total # 0
    BY <1>1 DEF Raises
  <1>7. n \in Nat /\ total <= n * w
    BY <1>3, <1>5, VotesShared DEF NoneHeavier
  <1>8. TaskShare(p) = (100 * w) \div total
    BY <1>3 DEF TaskShare
  <1>9. Assessed(p).task \in TaskNames(p)
    BY <1>2, <1>3 DEF TaskNames
  <1>10. TaskShare(p) * n + n > 100
    <2> HIDE DEF n, total, w
    <2>1. QED
      BY <1>5, <1>6, <1>7, <1>8, ShareOfLargest
  <1>11. ASSUME n = 1
         PROVE  TaskShare(p) = 100
    <2>1. total = w
      BY <1>5, <1>7, <1>11
    <2> HIDE DEF total, w, n
    <2>2. QED
      BY <1>5, <1>6, <1>8, <2>1
  <1>12. QED
    BY <1>2, <1>9, <1>10, <1>11
=============================================================================
