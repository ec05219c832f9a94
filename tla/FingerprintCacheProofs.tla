----------------------- MODULE FingerprintCacheProofs -----------------------
(***************************************************************************)
(* The fingerprint cache is the set of the Capacity fingerprints seen      *)
(* last, for every capacity and every history of fingerprints.             *)
(***************************************************************************)
EXTENDS MCFingerprintCache, SequenceLemmas

-----------------------------------------------------------------------------
(***************************************************************************)
(* Last occurrences.                                                       *)
(***************************************************************************)
LastAt(h, f, i) == i \in DOMAIN h /\ h[i] = f /\ \A j \in DOMAIN h : j > i => h[j] # f

LEMMA LastSeenIs ==
    ASSUME NEW S, NEW h \in Seq(S), NEW f, NEW i, LastAt(h, f, i)
    PROVE  LastSeen(h, f) = i
<1>1. DOMAIN h = 1..Len(h) /\ Len(h) \in Nat
  BY LenProperties
<1>2. ASSUME NEW j \in DOMAIN h, h[j] = f /\ \A k \in DOMAIN h : k > j => h[k] # f
      PROVE  j = i
  <2>1. ~ (j > i) /\ ~ (i > j)
    BY <1>2 DEF LastAt
  <2> QED
    BY <1>1, <2>1 DEF LastAt
<1>3. i \in DOMAIN h /\ h[i] = f /\ \A k \in DOMAIN h : k > i => h[k] # f
  BY DEF LastAt
<1> QED
  BY <1>2, <1>3 DEF LastSeen

\* A history in which everything that occurs has a last occurrence.
Ordered(h) == \A f \in Range(h) : LastAt(h, f, LastSeen(h, f))

LEMMA LastSeenInAppend ==
    ASSUME NEW S, NEW h \in Seq(S), NEW e \in S, Ordered(h)
    PROVE  /\ Ordered(Append(h, e))
           /\ LastSeen(Append(h, e), e) = Len(h) + 1
           /\ \A f \in Range(h) : f # e => LastSeen(Append(h, e), f) = LastSeen(h, f)
           /\ \A f \in Range(h) : LastSeen(h, f) \in 1..Len(h)
<1> DEFINE t == Append(h, e)
           n == Len(h) + 1
<1>1. /\ t \in Seq(S) /\ Len(h) \in Nat /\ DOMAIN h = 1..Len(h) /\ DOMAIN t = 1..n
      /\ t[n] = e /\ \A i \in DOMAIN h : t[i] = h[i]
  BY AppendProperties, LenProperties
<1>2. Range(t) = Range(h) \cup {e}
  BY RangeOfAppend
<1> HIDE DEF t
<1>3. LastAt(t, e, n)
  BY <1>1 DEF LastAt
<1>4. LastSeen(t, e) = n
  BY <1>1, <1>3, LastSeenIs
<1>5. ASSUME NEW f \in Range(h), f # e
      PROVE  LastAt(t, f, LastSeen(h, f)) /\ LastSeen(t, f) = LastSeen(h, f)
  <2>1. LastAt(h, f, LastSeen(h, f))
    BY DEF Ordered
  <2>2. LastAt(t, f, LastSeen(h, f))
    BY <1>1, <1>5, <2>1 DEF LastAt
  <2> QED
    BY <1>1, <2>2, LastSeenIs
<1>6. Ordered(t)
  BY <1>2, <1>3, <1>4, <1>5 DEF Ordered
<1>7. \A f \in Range(h) : LastSeen(h, f) \in 1..Len(h)
  BY <1>1 DEF Ordered, LastAt
<1> QED
  BY <1>4, <1>5, <1>6, <1>7 DEF t

\* What occurs after the last f is what was seen after it.
LEMMA SeenAfterIs ==
    ASSUME NEW S, NEW h \in Seq(S), Ordered(h), NEW f \in Range(h)
    PROVE  SeenAfter(h, f) = {g \in Range(h) : LastSeen(h, g) > LastSeen(h, f)}
<1> DEFINE k == LastSeen(h, f)
<1>1. DOMAIN h = 1..Len(h) /\ Len(h) \in Nat /\ k \in DOMAIN h
  BY LenProperties DEF Ordered, LastAt
<1>2. ASSUME NEW i \in DOMAIN h, i > k
      PROVE  h[i] \in Range(h) /\ LastSeen(h, h[i]) > k
  <2>1. h[i] \in Range(h)
    BY DEF Range
  <2>2. LastAt(h, h[i], LastSeen(h, h[i]))
    BY <2>1 DEF Ordered
  <2>3. ~ (i > LastSeen(h, h[i])) /\ LastSeen(h, h[i]) \in DOMAIN h
    BY <2>2 DEF LastAt
  <2> QED
    BY <1>1, <1>2, <2>1, <2>3
<1>3. ASSUME NEW g \in Range(h), LastSeen(h, g) > k
      PROVE  \E i \in DOMAIN h : i > k /\ h[i] = g
  BY <1>3 DEF Ordered, LastAt
<1> HIDE DEF k
<1>4. \A g : g \in {h[j] : j \in {i \in DOMAIN h : i > k}}
             <=> g \in {x \in Range(h) : LastSeen(h, x) > k}
  BY <1>2, <1>3
<1> QED
  BY <1>4 DEF SeenAfter, k

-----------------------------------------------------------------------------
(***************************************************************************)
(* What the operations of the list do to it.                               *)
(***************************************************************************)
InFront(order, f, new) ==
    /\ Range(new) = Range(order) \cup {f}
    /\ IsInjective(new)
    /\ \A x, y : Precedes(new, x, y) => y # f /\ (x = f \/ Precedes(order, x, y))

\* A list of the elements of another, by their positions in it.
LEMMA MovedInFront ==
    ASSUME NEW S, NEW order \in Seq(S), IsInjective(order), NEW f \in Range(order)
    PROVE  LET new == MoveToFront(order, f)
           IN  new \in Seq(S) /\ Len(new) = Len(order) /\ InFront(order, f, new)
<1> DEFINE k == CHOOSE i \in DOMAIN order : order[i] = f
           from == [i \in DOMAIN order |-> IF i = 1 THEN k ELSE IF i <= k THEN i - 1 ELSE i]
           new == MoveToFront(order, f)
<1>1. /\ DOMAIN order = 1..Len(order) /\ Len(order) \in Nat
      /\ \A i \in DOMAIN order : order[i] \in S
  BY LenProperties, ElementOfSeq
<1>2. k \in DOMAIN order /\ order[k] = f
  BY DEF Range
<1>3. new = [i \in DOMAIN order |-> IF i = 1 THEN f
                                    ELSE IF i <= k THEN order[i - 1] ELSE order[i]]
  BY DEF MoveToFront
<1> HIDE DEF k, new
<1>4. /\ \A i \in DOMAIN order : from[i] \in DOMAIN order
      /\ \A i, j \in DOMAIN order : from[i] = from[j] => i = j
      /\ \A i \in DOMAIN order : i # 1 => from[i] # k
      /\ \A i, j \in DOMAIN order : i # 1 /\ i < j => from[i] < from[j]
      /\ from[1] = k
  BY <1>1, <1>2
<1>5. \A i \in DOMAIN order : new[i] = order[from[i]]
  BY <1>1, <1>2, <1>3
<1>6. \A i \in DOMAIN order : \E j \in DOMAIN order : from[j] = i
  <2> TAKE i \in DOMAIN order
  <2>1. CASE i = k
    BY <1>1, <1>2, <2>1
  <2>2. CASE i < k
    <3>1. i + 1 \in DOMAIN order /\ from[i + 1] = i
      BY <1>1, <1>2, <2>2
    <3> QED
      BY <3>1
  <2>3. CASE i > k
    BY <1>1, <1>2, <2>3
  <2> QED
    BY <1>1, <1>2, <2>1, <2>2, <2>3
<1>7. /\ DOMAIN new = DOMAIN order /\ new \in [1..Len(order) -> S]
  BY <1>1, <1>3, <1>4, <1>5
<1>8. new \in Seq(S) /\ Len(new) = Len(order)
  BY <1>1, <1>7
<1> HIDE DEF from
<1>9. Range(new) = Range(order)
  <2>0. \A i \in DOMAIN order : order[i] \in Range(order)
    BY DEF Range
  <2>1. \A i \in DOMAIN order : new[i] \in Range(order)
    BY <1>4, <1>5, <2>0
  <2>2. \A i \in DOMAIN order : \E j \in DOMAIN order : new[j] = order[i]
    BY <1>5, <1>6
  <2> QED
    BY <1>7, <2>1, <2>2 DEF Range
<1>10. IsInjective(new)
  <2> SUFFICES ASSUME NEW i \in DOMAIN order, NEW j \in DOMAIN order, new[i] = new[j]
               PROVE  i = j
    BY <1>7 DEF IsInjective
  <2>1. from[i] = from[j]
    BY <1>4, <1>5 DEF IsInjective
  <2> QED
    BY <1>4, <2>1
<1>11. ASSUME NEW x, NEW y, Precedes(new, x, y)
       PROVE  y # f /\ (x = f \/ Precedes(order, x, y))
  <2>1. PICK i \in DOMAIN order, j \in DOMAIN order : i < j /\ new[i] = x /\ new[j] = y
    BY <1>7, <1>11 DEF Precedes
  <2>2. x = order[from[i]] /\ y = order[from[j]] /\ from[i] \in DOMAIN order
        /\ from[j] \in DOMAIN order /\ j # 1
    BY <1>1, <1>4, <1>5, <2>1
  <2>3. y # f
    BY <1>2, <1>4, <2>2 DEF IsInjective
  <2>4. i = 1 => x = f
    BY <1>2, <1>4, <2>2
  <2>5. i # 1 => Precedes(order, x, y)
    BY <1>4, <2>1, <2>2 DEF Precedes
  <2> QED
    BY <2>3, <2>4, <2>5
<1> QED
  BY <1>8, <1>9, <1>10, <1>11 DEF InFront, new

LEMMA PushedInFront ==
    ASSUME NEW S, NEW order \in Seq(S), IsInjective(order), NEW f \in S, f \notin Range(order)
    PROVE  LET new == << f >> \o order
           IN  new \in Seq(S) /\ Len(new) = Len(order) + 1 /\ InFront(order, f, new)
<1> DEFINE first == << f >>
           new == first \o order
<1>1. first \in Seq(S) /\ Len(first) = 1 /\ first[1] = f
  OBVIOUS
<1>2. Range(first) = {f} /\ IsInjective(first)
  BY DEF Range, IsInjective
<1> HIDE DEF first
<1>3. /\ new \in Seq(S) /\ Len(new) = Len(order) + 1
      /\ \A i \in 1..Len(order) + 1 : new[i] = IF i = 1 THEN f ELSE order[i - 1]
      /\ Len(order) \in Nat /\ DOMAIN order = 1..Len(order) /\ DOMAIN new = 1..Len(order) + 1
  BY <1>1, ConcatProperties, LenProperties
<1>4. Range(new) = Range(order) \cup {f}
  BY <1>1, <1>2, RangeConcatenation
<1>5. IsInjective(new)
  BY <1>1, <1>2, InjectiveConcat
<1> HIDE DEF new
<1>6. ASSUME NEW x, NEW y, Precedes(new, x, y)
      PROVE  y # f /\ (x = f \/ Precedes(order, x, y))
  <2>1. PICK i \in DOMAIN new, j \in DOMAIN new : i < j /\ new[i] = x /\ new[j] = y
    BY <1>6 DEF Precedes
  <2>2. j - 1 \in DOMAIN order /\ y = order[j - 1]
    BY <1>3, <2>1
  <2>3. i # 1 => i - 1 \in DOMAIN order /\ x = order[i - 1] /\ i - 1 < j - 1
    BY <1>3, <2>1
  <2>4. i = 1 => x = f
    BY <1>3, <2>1
  <2> QED
    BY <2>2, <2>3, <2>4 DEF Precedes, Range
<1> QED
  BY <1>3, <1>4, <1>5, <1>6 DEF InFront, new, first

\* The oldest goes; it came after all that stay.
LEMMA OldestRemoved ==
    ASSUME NEW S, NEW order \in Seq(S), order # << >>, IsInjective(order)
    PROVE  LET last == order[Len(order)]
               rest == SubSeq(order, 1, Len(order) - 1)
           IN  /\ rest \in Seq(S) /\ Len(rest) = Len(order) - 1
               /\ last \in Range(order) /\ Range(rest) = Range(order) \ {last}
               /\ IsInjective(rest)
               /\ \A x, y : Precedes(rest, x, y) => Precedes(order, x, y)
               /\ \A x \in Range(rest) : Precedes(order, x, last)
<1> DEFINE n == Len(order)
           rest == SubSeq(order, 1, n - 1)
<1>1. n \in Nat /\ n >= 1 /\ DOMAIN order = 1..n
  BY LenProperties, EmptySeq
<1>2. \A i \in 1..(n - 1) : order[i] \in S
  BY <1>1, ElementOfSeq
<1>3. /\ rest \in Seq(S) /\ Len(rest) = n - 1 /\ DOMAIN rest = 1..(n - 1)
      /\ \A i \in 1..(n - 1) : rest[i] = order[i]
  BY <1>1, <1>2, SubSeqProperties, LenProperties
<1> HIDE DEF rest
<1>4. order[n] \in Range(order)
  BY <1>1 DEF Range
<1>5. Range(rest) = Range(order) \ {order[n]}
  <2>1. \A i \in 1..(n - 1) : order[i] # order[n] /\ i \in DOMAIN order
    BY <1>1 DEF IsInjective
  <2>2. \A i \in DOMAIN order : i \in 1..(n - 1) \/ order[i] = order[n]
    BY <1>1
  <2> QED
    BY <1>3, <2>1, <2>2 DEF Range
<1>6. IsInjective(rest)
  BY <1>1, <1>3 DEF IsInjective
<1>7. \A x, y : Precedes(rest, x, y) => Precedes(order, x, y)
  <2>1. \A i \in DOMAIN rest : i \in DOMAIN order /\ rest[i] = order[i]
    BY <1>1, <1>3
  <2> QED
    BY <2>1 DEF Precedes
<1>8. \A x \in Range(rest) : Precedes(order, x, order[n])
  <2>1. \A i \in DOMAIN rest : i \in DOMAIN order /\ n \in DOMAIN order /\ i < n
                                /\ rest[i] = order[i]
    BY <1>1, <1>3
  <2> QED
    BY <2>1 DEF Precedes, Range
<1> QED
  BY <1>3, <1>4, <1>5, <1>6, <1>7, <1>8 DEF rest

-----------------------------------------------------------------------------
(***************************************************************************)
(* The list holds what was seen last, latest first: this is the invariant  *)
(* that makes IsLRU inductive.  IsLRU alone does not say that a list that  *)
(* is not full has forgotten nothing.                                      *)
(***************************************************************************)
Latest(order, h) ==
    /\ Range(order) \subseteq Range(h)
    /\ \A f, g : Precedes(order, f, g) => LastSeen(h, f) > LastSeen(h, g)
    /\ \A f \in Range(order), g \in Range(h) \ Range(order) : LastSeen(h, f) > LastSeen(h, g)

CacheInv ==
    /\ cache \in [items : SUBSET Fingerprints, order : Seq(Fingerprints)]
    /\ history \in Seq(Fingerprints) /\ Ordered(history)
    /\ cache.items = Range(cache.order)
    /\ IsInjective(cache.order)
    /\ Len(cache.order) <= Capacity
    /\ Latest(cache.order, history)
    /\ Len(cache.order) < Capacity => Range(history) \subseteq Range(cache.order)

\* A list with the latest fingerprint in front is latest with it.
LEMMA LatestInFront ==
    ASSUME NEW S, NEW order \in Seq(S), NEW h \in Seq(S), NEW f \in S, NEW new \in Seq(S),
           Ordered(h), IsInjective(order), Latest(order, h), InFront(order, f, new)
    PROVE  Latest(new, Append(h, f))
<1> DEFINE t == Append(h, f)
<1>1. /\ LastSeen(t, f) = Len(h) + 1 /\ Len(h) \in Nat
      /\ \A g \in Range(h) : g # f => LastSeen(t, g) = LastSeen(h, g)
      /\ \A g \in Range(h) : LastSeen(h, g) \in 1..Len(h)
  BY LastSeenInAppend, LenProperties
<1>2. Range(t) = Range(h) \cup {f}
  BY RangeOfAppend
<1> HIDE DEF t
<1>3. Range(new) = Range(order) \cup {f}
  BY DEF InFront
<1>4. ASSUME NEW x, NEW y, Precedes(new, x, y)
      PROVE  LastSeen(t, x) > LastSeen(t, y)
  <2>1. y # f /\ y \in Range(new) /\ (x = f \/ Precedes(order, x, y))
    BY <1>4, PrecedesIsOrder DEF InFront
  <2>2. y \in Range(h)
    BY <1>3, <2>1 DEF Latest
  <2>3. LastSeen(t, y) \in 1..Len(h) /\ LastSeen(t, y) = LastSeen(h, y)
    BY <1>1, <2>1, <2>2
  <2>4. CASE x = f
    BY <1>1, <2>3, <2>4
  <2>5. CASE x # f
    <3>1. Precedes(order, x, y) /\ x \in Range(h)
      BY <2>1, <2>5, PrecedesIsOrder DEF Latest
    <3> QED
      BY <1>1, <2>3, <2>5, <3>1 DEF Latest
  <2> QED
    BY <2>4, <2>5
<1>5. ASSUME NEW x \in Range(new), NEW y \in Range(t) \ Range(new)
      PROVE  LastSeen(t, x) > LastSeen(t, y)
  <2>1. y # f /\ y \in Range(h) \ Range(order)
    BY <1>2, <1>3
  <2>2. LastSeen(t, y) \in 1..Len(h) /\ LastSeen(t, y) = LastSeen(h, y)
    BY <1>1, <2>1
  <2>3. CASE x = f
    BY <1>1, <2>2, <2>3
  <2>4. CASE x # f
    <3>1. x \in Range(order) /\ x \in Range(h)
      BY <1>3, <2>4 DEF Latest
    <3> QED
      BY <1>1, <2>1, <2>2, <2>4, <3>1 DEF Latest
  <2> QED
    BY <2>3, <2>4
<1>6. Range(new) \subseteq Range(t)
  BY <1>2, <1>3 DEF Latest
<1> QED
  BY <1>4, <1>5, <1>6 DEF Latest, t

\* ... and is so still without its oldest.
LEMMA LatestWithoutOldest ==
    ASSUME NEW S, NEW order \in Seq(S), NEW h, order # << >>, IsInjective(order),
           Latest(order, h)
    PROVE  Latest(SubSeq(order, 1, Len(order) - 1), h)
<1> DEFINE rest == SubSeq(order, 1, Len(order) - 1)
           last == order[Len(order)]
<1>1. /\ last \in Range(order) /\ Range(rest) = Range(order) \ {last}
      /\ \A x, y : Precedes(rest, x, y) => Precedes(order, x, y)
      /\ \A x \in Range(rest) : Precedes(order, x, last)
  BY OldestRemoved
<1> HIDE DEF rest, last
<1> QED
  BY <1>1 DEF Latest, rest

LEMMA CacheInvariant == Spec => []CacheInv
<1>1. Init => CacheInv
  <2> SUFFICES ASSUME Init PROVE CacheInv
    OBVIOUS
  <2>1. cache = [items |-> {}, order |-> << >>] /\ history = << >>
    BY DEF Init, NewFingerprintCache
  <2>2. /\ Range(<< >>) = {} /\ IsInjective(<< >>) /\ Len(<< >>) = 0
        /\ << >> \in Seq(Fingerprints)
        /\ \A x, y : ~ Precedes(<< >>, x, y)
    BY RangeOfEmpty, EmptySeq DEF IsInjective, Precedes
  <2> QED
    BY <2>1, <2>2, CapacityAssumption DEF CacheInv, Ordered, Latest
<1>2. CacheInv /\ [Next]_vars => CacheInv'
  <2>1. ASSUME CacheInv, UNCHANGED vars
        PROVE  CacheInv'
    BY <2>1 DEF CacheInv, vars
  <2>2. ASSUME CacheInv, NEW f \in Fingerprints, AddFingerprint(f)
        PROVE  CacheInv'
    <3> DEFINE order == cache.order
    <3>1. /\ order \in Seq(Fingerprints) /\ history \in Seq(Fingerprints) /\ Ordered(history)
          /\ cache = [items |-> Range(order), order |-> order] /\ IsInjective(order)
          /\ Len(order) \in Nat /\ Len(order) <= Capacity /\ Latest(order, history)
          /\ Len(order) < Capacity => Range(history) \subseteq Range(order)
          /\ Range(order) \subseteq Fingerprints
      BY <2>2, LenProperties, RangeOfSeq DEF CacheInv
    <3>2. cache' = Add(cache, f, Capacity) /\ history' = Append(history, f)
      BY <2>2 DEF AddFingerprint
    <3>3. /\ history' \in Seq(Fingerprints) /\ Ordered(history')
          /\ Range(history') = Range(history) \cup {f}
      BY <3>1, <3>2, AppendProperties, LastSeenInAppend, RangeOfAppend
    <3> HIDE DEF order
    <3>4. CASE f \in Range(order)
      <4> DEFINE new == MoveToFront(order, f)
      <4>1. new \in Seq(Fingerprints) /\ Len(new) = Len(order) /\ InFront(order, f, new)
        BY <3>1, <3>4, MovedInFront
      <4>2. cache' = [items |-> Range(order), order |-> new]
        BY <3>1, <3>2, <3>4 DEF Add, IsNew, Refresh
      <4> HIDE DEF new
      <4>3. Latest(new, history')
        BY <3>1, <3>2, <4>1, LatestInFront
      <4>4. Range(new) = Range(order) /\ IsInjective(new)
        BY <3>4, <4>1 DEF InFront
      <4> QED
        BY <3>1, <3>3, <3>4, <4>1, <4>2, <4>3, <4>4 DEF CacheInv
    <3>5. CASE f \notin Range(order)
      <4> DEFINE new == << f >> \o order
      <4>1. new \in Seq(Fingerprints) /\ Len(new) = Len(order) + 1 /\ InFront(order, f, new)
        BY <3>1, <3>5, PushedInFront
      <4>2. Push(cache, f) = [items |-> Range(order) \cup {f}, order |-> new]
        BY <3>1 DEF Push
      <4>3. cache' = Evict(Push(cache, f), Capacity)
        BY <3>1, <3>2, <3>5 DEF Add, IsNew
      <4> HIDE DEF new
      <4>4. Range(new) = Range(order) \cup {f} /\ IsInjective(new) /\ Latest(new, history')
        BY <3>1, <3>2, <4>1, LatestInFront DEF InFront
      <4>5. CASE Len(new) > Capacity
        <5> DEFINE rest == SubSeq(new, 1, Len(new) - 1)
                   last == new[Len(new)]
        <5>1. cache' = [items |-> (Range(order) \cup {f}) \ {last}, order |-> rest]
          BY <4>2, <4>3, <4>5 DEF Evict, RemoveOldest
        <5>2. new # << >>
          BY <3>1, <4>1, EmptySeq
        <5>3. /\ rest \in Seq(Fingerprints) /\ Len(rest) = Len(new) - 1
              /\ Range(rest) = Range(new) \ {last} /\ IsInjective(rest)
          BY <4>1, <4>4, <5>2, OldestRemoved
        <5>4. Latest(rest, history')
          BY <4>1, <4>4, <5>2, LatestWithoutOldest
        <5>5. Len(rest) = Capacity
          BY <3>1, <4>1, <4>5, <5>3, CapacityAssumption
        <5> HIDE DEF rest, last
        <5> QED
          BY <3>1, <3>3, <4>4, <5>1, <5>3, <5>4, <5>5, CapacityAssumption DEF CacheInv
      <4>6. CASE ~ (Len(new) > Capacity)
        <5>1. cache' = [items |-> Range(new), order |-> new]
          BY <4>2, <4>3, <4>4, <4>6 DEF Evict
        <5>2. Range(history') \subseteq Range(new)
          BY <3>1, <3>3, <4>1, <4>4, <4>6, CapacityAssumption
        <5>3. Len(new) <= Capacity
          BY <3>1, <4>1, <4>6, CapacityAssumption
        <5> QED
          BY <3>1, <3>3, <4>1, <4>4, <5>1, <5>2, <5>3 DEF CacheInv
      <4> QED
        BY <4>5, <4>6
    <3> QED
      BY <3>4, <3>5
  <2> QED
    BY <2>1, <2>2 DEF Next
<1> QED
  BY <1>1, <1>2, PTL DEF Spec

-----------------------------------------------------------------------------
\* The map and the list never disagree, and neither outgrows the capacity, for every
\* capacity and every history (add, ingester.go:231-245).
THEOREM MapAndListAgree == Spec => []MapMatchesList
<1>1. CacheInv => MapMatchesList
  <2> SUFFICES ASSUME CacheInv PROVE MapMatchesList
    OBVIOUS
  <2>1. cache.order \in Seq(Fingerprints) /\ cache.items = Range(cache.order)
    BY DEF CacheInv
  <2>2. Cardinality(Range(cache.order)) = Len(cache.order)
    BY <2>1, CardinalityOfRange DEF CacheInv
  <2>3. Range(cache.order) = {cache.order[i] : i \in DOMAIN cache.order}
    BY DEF Range
  <2> QED
    BY <2>1, <2>2, <2>3 DEF CacheInv, MapMatchesList
<1> QED
  BY <1>1, CacheInvariant, PTL

\* Fewer than Capacity fingerprints were seen after one that is cached; and all that are
\* cached, as many as Capacity, after one that is not.
LEMMA CachedIsRecent == CacheInv => cache.items = MostRecent(history)
<1> SUFFICES ASSUME CacheInv PROVE cache.items = MostRecent(history)
  OBVIOUS
<1> DEFINE order == cache.order
<1>1. /\ order \in Seq(Fingerprints) /\ history \in Seq(Fingerprints) /\ Ordered(history)
      /\ cache.items = Range(order) /\ IsInjective(order) /\ Latest(order, history)
      /\ Len(order) \in Nat /\ Len(order) <= Capacity
      /\ Len(order) < Capacity => Range(history) \subseteq Range(order)
      /\ Range(history) \subseteq Fingerprints
  BY LenProperties, RangeOfSeq DEF CacheInv
<1> HIDE DEF order
<1>2. /\ IsFiniteSet(Range(order)) /\ Cardinality(Range(order)) = Len(order)
      /\ IsFiniteSet(Range(history))
  BY <1>1, CardinalityOfRange
<1>3. \A f : (\E i \in DOMAIN history : history[i] = f) <=> f \in Range(history)
  BY DEF Range
<1>4. ASSUME NEW f \in Range(history)
      PROVE  /\ SeenAfter(history, f)
                   = {g \in Range(history) : LastSeen(history, g) > LastSeen(history, f)}
             /\ IsFiniteSet(SeenAfter(history, f))
             /\ Cardinality(SeenAfter(history, f)) \in Nat
             /\ LastSeen(history, f) \in Nat
  <2>1. SeenAfter(history, f)
            = {g \in Range(history) : LastSeen(history, g) > LastSeen(history, f)}
    BY <1>1, SeenAfterIs
  <2>2. SeenAfter(history, f) \in SUBSET Range(history)
    BY <2>1
  <2>3. LastSeen(history, f) \in 1..Len(history)
    BY <1>1, LenProperties DEF Ordered, LastAt
  <2> QED
    BY <1>2, <2>1, <2>2, <2>3, FS_Subset, FS_CardinalityType
<1>5. ASSUME NEW f \in Range(order)
      PROVE  f \in MostRecent(history)
  <2>1. f \in Range(history)
    BY <1>1 DEF Latest
  <2>2. SeenAfter(history, f) \subseteq Range(order) \ {f}
    <3> SUFFICES ASSUME NEW g \in Range(history),
                        LastSeen(history, g) > LastSeen(history, f)
                 PROVE  g \in Range(order) \ {f}
      BY <1>4, <2>1
    <3>1. LastSeen(history, g) \in Nat /\ LastSeen(history, f) \in Nat
      BY <1>4, <2>1
    <3> QED
      BY <1>1, <3>1 DEF Latest
  <2>3. Cardinality(Range(order) \ {f}) = Len(order) - 1 /\ IsFiniteSet(Range(order) \ {f})
    BY <1>2, FS_RemoveElement
  <2>4. Cardinality(SeenAfter(history, f)) <= Len(order) - 1
    BY <2>2, <2>3, FS_Subset
  <2>5. Cardinality(SeenAfter(history, f)) < Capacity
    BY <1>1, <1>4, <2>1, <2>4, CapacityAssumption
  <2> QED
    BY <1>1, <1>3, <2>1, <2>5 DEF MostRecent
<1>6. ASSUME NEW f \in Range(history), f \notin Range(order)
      PROVE  f \notin MostRecent(history)
  <2>1. Range(order) \subseteq SeenAfter(history, f)
    BY <1>1, <1>4, <1>6 DEF Latest
  <2>2. Len(order) = Capacity
    BY <1>1, <1>6, CapacityAssumption
  <2>3. Capacity <= Cardinality(SeenAfter(history, f))
    BY <1>2, <1>4, <2>1, <2>2, FS_Subset
  <2>4. ~ (Cardinality(SeenAfter(history, f)) < Capacity)
    BY <1>4, <2>3, CapacityAssumption
  <2> QED
    BY <2>4 DEF MostRecent
<1>7. \A f \in MostRecent(history) : f \in Range(history)
  BY <1>3 DEF MostRecent
<1> QED
  BY <1>1, <1>5, <1>6, <1>7

\* The cache is the set of the Capacity fingerprints seen last, latest first
\* (add's MoveToFront and Back, ingester.go:232-243).
THEOREM CacheIsLRU == Spec => []IsLRU
<1>1. CacheInv => IsLRU
  <2> SUFFICES ASSUME CacheInv PROVE IsLRU
    OBVIOUS
  <2>1. ASSUME NEW i \in DOMAIN cache.order, NEW j \in DOMAIN cache.order, i < j
        PROVE  LastSeen(history, cache.order[i]) > LastSeen(history, cache.order[j])
    <3>1. Precedes(cache.order, cache.order[i], cache.order[j])
      BY <2>1 DEF Precedes
    <3> QED
      BY <3>1 DEF CacheInv, Latest
  <2> QED
    BY <2>1, CachedIsRecent DEF IsLRU
<1> QED
  BY <1>1, CacheInvariant, PTL

-----------------------------------------------------------------------------
\* What comes later leaves the prefixes of a sequence alone.
LEMMA PrefixOfAppend ==
    ASSUME NEW S, NEW s \in Seq(S), NEW e \in S, NEW k \in 0..Len(s)
    PROVE  /\ SubSeq(Append(s, e), 1, k) = SubSeq(s, 1, k)
           /\ SubSeq(s, 1, Len(s)) = s
<1> DEFINE t == Append(s, e)
<1>1. /\ t \in Seq(S) /\ Len(t) = Len(s) + 1 /\ Len(s) \in Nat
      /\ \A i \in 1..Len(s) : t[i] = s[i] /\ s[i] \in S
  BY AppendProperties, LenProperties, ElementOfSeq
<1> HIDE DEF t
<1>2. \A u \in Seq(S), n \in 0..Len(s) : (\A i \in 1..n : u[i] = s[i]) =>
          /\ SubSeq(u, 1, n) \in Seq(S) /\ Len(SubSeq(u, 1, n)) = n
          /\ \A i \in 1..n : SubSeq(u, 1, n)[i] = s[i]
  <2> SUFFICES ASSUME NEW u \in Seq(S), NEW n \in 0..Len(s), \A i \in 1..n : u[i] = s[i]
               PROVE  /\ SubSeq(u, 1, n) \in Seq(S) /\ Len(SubSeq(u, 1, n)) = n
                      /\ \A i \in 1..n : SubSeq(u, 1, n)[i] = s[i]
    OBVIOUS
  <2>1. \A i \in 1..n : u[i] \in S
    BY <1>1
  <2>2. n \in Int /\ 1 <= n + 1
    BY <1>1
  <2> QED
    BY <1>1, <2>1, <2>2, SubSeqProperties
<1>3. /\ SubSeq(t, 1, k) \in Seq(S) /\ Len(SubSeq(t, 1, k)) = k
      /\ \A i \in 1..k : SubSeq(t, 1, k)[i] = s[i]
  BY <1>1, <1>2
<1>4. /\ SubSeq(s, 1, k) \in Seq(S) /\ Len(SubSeq(s, 1, k)) = k
      /\ \A i \in 1..k : SubSeq(s, 1, k)[i] = s[i]
  BY <1>1, <1>2
<1>5. /\ SubSeq(s, 1, Len(s)) \in Seq(S) /\ Len(SubSeq(s, 1, Len(s))) = Len(s)
      /\ \A i \in 1..Len(s) : SubSeq(s, 1, Len(s))[i] = s[i]
  BY <1>1, <1>2
<1>6. SubSeq(t, 1, k) = SubSeq(s, 1, k)
  BY <1>3, <1>4, SeqEqual
<1>7. SubSeq(s, 1, Len(s)) = s
  BY <1>5, SeqEqual
<1> QED
  BY <1>6, <1>7 DEF t

\* The reports are as many as the fingerprints, and right.
ReportInv ==
    /\ reportedNew \in Seq(BOOLEAN)
    /\ Len(reportedNew) = Len(history)
    /\ NewIffNotRecent

\* A metadata row is suppressed exactly for a series among the Capacity seen last: the
\* cache's answer depends on nothing but what it was given (ingester.go:170-175).
THEOREM AnswersAreRight == Spec => []NewIffNotRecent
<1>1. Init => ReportInv
  <2> SUFFICES ASSUME Init PROVE ReportInv
    OBVIOUS
  <2>1. history = << >> /\ reportedNew = << >>
    BY DEF Init
  <2> QED
    BY <2>1, EmptySeq DEF ReportInv, NewIffNotRecent
<1>2. CacheInv /\ ReportInv /\ [Next]_vars => ReportInv'
  <2>1. ASSUME ReportInv, UNCHANGED vars
        PROVE  ReportInv'
    BY <2>1 DEF ReportInv, NewIffNotRecent, vars
  <2>2. ASSUME CacheInv, ReportInv, NEW f \in Fingerprints, AddFingerprint(f)
        PROVE  ReportInv'
    <3> DEFINE answer == IsNew(cache, f)
               n == Len(history) + 1
    <3>1. history' = Append(history, f) /\ reportedNew' = Append(reportedNew, answer)
      BY <2>2 DEF AddFingerprint
    <3>2. /\ history \in Seq(Fingerprints) /\ reportedNew \in Seq(BOOLEAN)
          /\ Len(reportedNew) = Len(history) /\ Len(history) \in Nat
      BY <2>2, LenProperties DEF CacheInv, ReportInv
    <3>3. answer \in BOOLEAN /\ (answer <=> f \notin MostRecent(history))
      BY <2>2, CachedIsRecent DEF IsNew
    <3> HIDE DEF answer
    <3>4. /\ reportedNew' \in Seq(BOOLEAN) /\ Len(reportedNew') = n
          /\ reportedNew'[n] = answer
          /\ \A i \in 1..Len(history) : reportedNew'[i] = reportedNew[i]
      BY <3>1, <3>2, <3>3, AppendProperties
    <3>5. /\ Len(history') = n /\ DOMAIN history' = 1..n /\ history'[n] = f
          /\ \A i \in 1..Len(history) : history'[i] = history[i]
          /\ DOMAIN history = 1..Len(history)
      BY <3>1, <3>2, AppendProperties, LenProperties
    <3>6. \A k \in 0..Len(history) : SubSeq(history', 1, k) = SubSeq(history, 1, k)
      BY <3>1, <3>2, PrefixOfAppend
    <3>7. SubSeq(history, 1, Len(history)) = history
      BY <3>2, PrefixOfAppend
    <3>8. ASSUME NEW i \in DOMAIN history'
          PROVE  reportedNew'[i] <=> history'[i] \notin MostRecent(SubSeq(history', 1, i - 1))
      <4>1. CASE i = n
        <5>1. i - 1 = Len(history) /\ Len(history) \in 0..Len(history)
          BY <3>2, <4>1
        <5>2. SubSeq(history', 1, i - 1) = history
          BY <3>6, <3>7, <5>1
        <5>3. reportedNew'[i] = answer /\ history'[i] = f
          BY <3>4, <3>5, <4>1
        <5> QED
          BY <3>3, <5>2, <5>3, Zenon
      <4>2. CASE i # n
        <5>1. i \in 1..Len(history) /\ i - 1 \in 0..Len(history) /\ i \in DOMAIN history
          BY <3>2, <3>5, <4>2
        <5>2. /\ SubSeq(history', 1, i - 1) = SubSeq(history, 1, i - 1)
              /\ reportedNew'[i] = reportedNew[i] /\ history'[i] = history[i]
          BY <3>4, <3>5, <3>6, <5>1, Zenon
        <5>3. reportedNew[i] <=> history[i] \notin MostRecent(SubSeq(history, 1, i - 1))
          BY <2>2, <5>1, Zenon DEF ReportInv, NewIffNotRecent
        <5> QED
          BY <5>2, <5>3, Zenon
      <4> QED
        BY <4>1, <4>2
    <3>9. NewIffNotRecent'
      BY <3>8, Zenon DEF NewIffNotRecent
    <3> QED
      BY <3>4, <3>5, <3>9 DEF ReportInv
  <2> QED
    BY <2>1, <2>2 DEF Next
<1>3. ReportInv => NewIffNotRecent
  BY DEF ReportInv
<1> QED
  BY <1>1, <1>2, <1>3, CacheInvariant, PTL DEF Spec
=============================================================================
