----------------------- MODULE MetricsMapperProofs -----------------------
(***************************************************************************)
(* Theorems about MetricsMapper: a fingerprint is the identity of a series, *)
(* for all series and all orders in which maps are ranged over, and what   *)
(* MapMetrics returns, for every set of well-formed requests.              *)
(*                                                                         *)
(* Most of it is an induction, over the bytes of a string, the keys of a   *)
(* map, the digits of a number or the rows of a request.  It goes by the   *)
(* least number that fails (SequenceLemmas), and through FlattenSeq by its *)
(* partial results.                                                        *)
(***************************************************************************)
EXTENDS MetricsMapper, SequenceLemmas

-----------------------------------------------------------------------------
(***************************************************************************)
(* Encodings: what the digest can be told apart by.                        *)
(***************************************************************************)
\* Strings form a monoid.
LEMMA BytesConcat ==
    /\ << >> \in Bytes
    /\ \A a, b \in Bytes : a \o b \in Bytes
    /\ \A a, b, c \in Bytes : (a \o b) \o c = a \o (b \o c)
    /\ \A a \in Bytes : a \o << >> = a /\ << >> \o a = a
<1>1. \A a, b, c \in Seq(Nat) : (a \o b) \o c = a \o (b \o c)
  BY ConcatAssociative
<1>2. \A a, b \in Seq(Nat) : a \o b \in Seq(Nat)
  BY ConcatProperties
<1>3. \A a \in Seq(Nat) : a \o << >> = a /\ << >> \o a = a
  BY ConcatEmptySeq
<1> QED
  BY <1>1, <1>2, <1>3 DEF Bytes

(***************************************************************************)
(* p encodes a as q encodes b: when two streams that begin with p and with *)
(* q are equal, so are the values, and what follows them.                  *)
(***************************************************************************)
Encode(p, q, a, b) == \A u, v \in Bytes : p \o u = q \o v => a = b /\ u = v

\* Encodings can be put one behind the other: the first tells where the second begins.
LEMMA EncodeConcat ==
    ASSUME NEW p \in Bytes, NEW q \in Bytes, NEW x \in Bytes, NEW y \in Bytes,
           NEW a, NEW b, NEW c, NEW d,
           Encode(p, q, a, b), Encode(x, y, c, d)
    PROVE  Encode(p \o x, q \o y, << a, c >>, << b, d >>)
<1> SUFFICES ASSUME NEW u \in Bytes, NEW v \in Bytes, (p \o x) \o u = (q \o y) \o v
             PROVE  << a, c >> = << b, d >> /\ u = v
  BY DEF Encode
<1>1. (p \o x) \o u = p \o (x \o u) /\ (q \o y) \o v = q \o (y \o v)
  BY BytesConcat, Zenon
<1>2. x \o u \in Bytes /\ y \o v \in Bytes
  BY BytesConcat
<1>3. a = b /\ x \o u = y \o v
  BY <1>1, <1>2 DEF Encode
<1>4. c = d /\ u = v
  BY <1>3 DEF Encode
<1> QED
  BY <1>3, <1>4

\* A number is one item of the stream (hashUint32).
LEMMA EncodeNumber ==
    ASSUME NEW a \in Nat, NEW b \in Nat
    PROVE  << a >> \in Bytes /\ Encode(<< a >>, << b >>, a, b)
<1>1. << a >> \in Bytes /\ << b >> \in Bytes
  BY DEF Bytes
<1>2. ASSUME NEW u \in Bytes, NEW v \in Bytes, << a >> \o u = << b >> \o v
      PROVE  a = b /\ u = v
  <2>1. (<< a >> \o u)[1] = a /\ (<< b >> \o v)[1] = b
    <3>1. Len(<< a >>) = 1 /\ Len(<< b >>) = 1 /\ Len(u) \in Nat /\ Len(v) \in Nat
      BY LenProperties DEF Bytes
    <3>2. (<< a >> \o u)[1] = << a >>[1] /\ (<< b >> \o v)[1] = << b >>[1]
      BY <1>1, <3>1, ConcatProperties DEF Bytes
    <3> QED
      BY <3>2
  <2>2. a = b
    BY <1>2, <2>1
  <2>3. << a >> \o u = << a >> \o v
    BY <1>2, <2>2
  <2> QED
    BY <1>1, <2>2, <2>3, ConcatSimplifications DEF Bytes
<1> QED
  BY <1>1, <1>2 DEF Encode

\* hashString: the length in front tells where the string ends.
LEMMA EncodeString ==
    ASSUME NEW s \in Bytes, NEW t \in Bytes
    PROVE  hashString(s) \in Bytes /\ Encode(hashString(s), hashString(t), s, t)
<1>1. Len(s) \in Nat /\ Len(t) \in Nat /\ DOMAIN s = 1..Len(s) /\ DOMAIN t = 1..Len(t)
  BY LenProperties DEF Bytes
<1>2. /\ << Len(s) >> \in Bytes /\ << Len(t) >> \in Bytes
      /\ Encode(<< Len(s) >>, << Len(t) >>, Len(s), Len(t))
  BY <1>1, EncodeNumber
<1>3. hashString(s) \in Bytes
  BY <1>2, BytesConcat DEF hashString
<1>4. ASSUME NEW u \in Bytes, NEW v \in Bytes, hashString(s) \o u = hashString(t) \o v
      PROVE  s = t /\ u = v
  <2>1. /\ hashString(s) \o u = << Len(s) >> \o (s \o u)
        /\ hashString(t) \o v = << Len(t) >> \o (t \o v)
    BY <1>2, BytesConcat, Zenon DEF hashString
  <2>2. s \o u \in Bytes /\ t \o v \in Bytes
    BY BytesConcat
  <2>3. Len(s) = Len(t) /\ s \o u = t \o v
    BY <1>2, <1>4, <2>1, <2>2 DEF Encode
  <2>4. \A i \in 1..Len(s) : s[i] = t[i]
    <3> TAKE i \in 1..Len(s)
    <3>1. (s \o u)[i] = s[i] /\ (t \o v)[i] = t[i]
      BY <1>1, <2>3 DEF Bytes
    <3> QED
      BY <2>3, <3>1
  <2>5. s = t
    BY <2>3, <2>4, SeqEqual DEF Bytes
  <2> QED
    BY <2>3, <2>5, ConcatSimplifications DEF Bytes
<1> QED
  BY <1>3, <1>4 DEF Encode

\* Equally many encodings, one after the other.
LEMMA EncodeSequence ==
    ASSUME NEW s \in Seq(Bytes), NEW t \in Seq(Bytes), NEW a, NEW b, Len(s) = Len(t),
           a = [i \in 1..Len(s) |-> a[i]], b = [i \in 1..Len(s) |-> b[i]],
           \A i \in 1..Len(s) : Encode(s[i], t[i], a[i], b[i])
    PROVE  Encode(FlattenSeq(s), FlattenSeq(t), a, b)
<1> DEFINE n == Len(s)
<1>1. n \in Nat /\ \A i \in 1..n : s[i] \in Bytes /\ t[i] \in Bytes
  BY LenProperties, ElementOfSeq
<1>2. PICK F \in [0..n -> Bytes] : IsFlattening(F, s, n) /\ FlattenSeq(s) = F[n]
  BY FlatteningExists DEF Bytes
<1>3. PICK G \in [0..n -> Bytes] : IsFlattening(G, t, n) /\ FlattenSeq(t) = G[n]
  BY FlatteningExists DEF Bytes
<1> DEFINE Tells(i) == \A u, v \in Bytes : F[i] \o u = G[i] \o v =>
                          u = v /\ \A j \in 1..i : a[j] = b[j]
           P == {i \in Nat : i <= n => Tells(i)}
<1> HIDE DEF n, Tells
<1>4. 0 \in P
  <2>1. F[0] = << >> /\ G[0] = << >>
    BY <1>2, <1>3 DEF IsFlattening
  <2>2. Tells(0)
    BY <2>1, BytesConcat DEF Tells
  <2> QED
    BY <2>2
<1>5. ASSUME NEW i \in Nat, i \in P PROVE i + 1 \in P
  <2> SUFFICES ASSUME i + 1 <= n PROVE Tells(i + 1)
    OBVIOUS
  <2>1. Tells(i) /\ i \in 0..n /\ i + 1 \in 1..n
    BY <1>1, <1>5
  <2>2. F[i + 1] = F[i] \o s[i + 1] /\ G[i + 1] = G[i] \o t[i + 1]
    <3>1. (i + 1) - 1 = i
      OBVIOUS
    <3> QED
      BY <1>2, <1>3, <2>1, <3>1 DEF IsFlattening
  <2>3. F[i] \in Bytes /\ G[i] \in Bytes /\ s[i + 1] \in Bytes /\ t[i + 1] \in Bytes
    BY <1>1, <2>1
  <2>4. ASSUME NEW u \in Bytes, NEW v \in Bytes, F[i + 1] \o u = G[i + 1] \o v
        PROVE  u = v /\ \A j \in 1..(i + 1) : a[j] = b[j]
    <3>1. /\ F[i + 1] \o u = F[i] \o (s[i + 1] \o u)
          /\ G[i + 1] \o v = G[i] \o (t[i + 1] \o v)
      <4>1. (F[i] \o s[i + 1]) \o u = F[i] \o (s[i + 1] \o u)
        BY <2>3, BytesConcat, Zenon
      <4>2. (G[i] \o t[i + 1]) \o v = G[i] \o (t[i + 1] \o v)
        BY <2>3, BytesConcat, Zenon
      <4> QED
        BY <2>2, <4>1, <4>2, Zenon
    <3>2. s[i + 1] \o u \in Bytes /\ t[i + 1] \o v \in Bytes
      BY <2>3, BytesConcat
    <3>3. s[i + 1] \o u = t[i + 1] \o v /\ \A j \in 1..i : a[j] = b[j]
      BY <2>1, <2>4, <3>1, <3>2, Zenon DEF Tells
    <3>4. Encode(s[i + 1], t[i + 1], a[i + 1], b[i + 1])
      BY <2>1 DEF n
    <3>5. a[i + 1] = b[i + 1] /\ u = v
      BY <3>3, <3>4, Zenon DEF Encode
    <3>6. \A j \in 1..(i + 1) : j \in 1..i \/ j = i + 1
      OBVIOUS
    <3> QED
      BY <3>3, <3>5, <3>6, Zenon
  <2> QED
    BY <2>4 DEF Tells
<1>6. P = Nat
  <2> HIDE DEF P
  <2>1. P \in SUBSET Nat
    BY DEF P
  <2> QED
    BY <1>4, <1>5, <2>1, Induction
<1>7. Tells(n)
  BY <1>1, <1>6
<1>8. (\A j \in 1..n : a[j] = b[j]) => a = b
  BY DEF n
<1> QED
  BY <1>2, <1>3, <1>7, <1>8, Zenon DEF Tells, Encode

-----------------------------------------------------------------------------
(***************************************************************************)
(* sort.Strings: a total order, and the keys in that order.                *)
(***************************************************************************)
\* Two different keys are ordered one way or the other (sort.Strings).
LEMMA BeforeIsTotal ==
    ASSUME NEW s \in Bytes, NEW t \in Bytes
    PROVE  ~ Before(s, s) /\ (s # t => Before(s, t) \/ Before(t, s))
<1>1. Len(s) \in Nat /\ Len(t) \in Nat /\ (\A i \in 1..Len(s) : s[i] \in Nat)
      /\ (\A i \in 1..Len(t) : t[i] \in Nat)
  BY LenProperties, ElementOfSeq DEF Bytes
<1>2. ~ Before(s, s)
  BY <1>1 DEF Before
<1>3. ASSUME s # t PROVE Before(s, t) \/ Before(t, s)
  <2> DEFINE D == {i \in Nat : 1 <= i /\ (i > Len(s) \/ i > Len(t) \/ s[i] # t[i])}
  <2>1. Len(s) + 1 \in D
    BY <1>1
  <2>2. PICK x \in D : \A y \in D : x <= y
    BY <2>1, SmallestExists
  <2>3. x \in Nat /\ 1 <= x /\ (x > Len(s) \/ x > Len(t) \/ s[x] # t[x])
    OBVIOUS
  <2>4. ASSUME NEW j \in 1..(x - 1) PROVE j <= Len(s) /\ j <= Len(t) /\ s[j] = t[j]
    <3>1. j \in Nat /\ 1 <= j /\ ~ (x <= j)
      BY <2>3
    <3>2. j \notin D
      BY <2>2, <3>1
    <3> QED
      BY <1>1, <3>1, <3>2
  <2>5. x - 1 <= Len(s) /\ x - 1 <= Len(t)
    <3>1. CASE x = 1
      BY <1>1, <3>1
    <3>2. CASE x # 1
      <4>1. x - 1 \in 1..(x - 1)
        BY <2>3, <3>2
      <4> QED
        BY <2>4, <4>1
    <3> QED
      BY <3>1, <3>2
  <2> HIDE DEF D
  <2>6. CASE x > Len(s) /\ x > Len(t)
    <3>1. Len(s) = x - 1 /\ Len(t) = x - 1
      BY <1>1, <2>3, <2>5, <2>6
    <3>2. \A i \in 1..Len(s) : s[i] = t[i]
      BY <2>4, <3>1
    <3> QED
      BY <1>3, <3>1, <3>2, SeqEqual DEF Bytes
  <2>7. CASE x > Len(s) /\ ~ (x > Len(t))
    <3>1. x \in 1..Len(t) /\ x <= Len(s) + 1 /\ ~ (x <= Len(s))
      BY <1>1, <2>3, <2>5, <2>7
    <3> QED
      BY <2>4, <3>1 DEF Before
  <2>8. CASE ~ (x > Len(s)) /\ x > Len(t)
    <3>1. x \in 1..Len(s) /\ x <= Len(t) + 1 /\ ~ (x <= Len(t))
      BY <1>1, <2>3, <2>5, <2>8
    <3>2. \A j \in 1..(x - 1) : t[j] = s[j]
      BY <2>4
    <3> QED
      BY <3>1, <3>2 DEF Before
  <2>9. CASE ~ (x > Len(s)) /\ ~ (x > Len(t))
    <3>1. /\ x \in 1..Len(s) /\ x \in 1..Len(t) /\ x <= Len(s) + 1 /\ x <= Len(t) + 1
          /\ s[x] # t[x]
      BY <1>1, <2>3, <2>9
    <3>2. s[x] < t[x] \/ t[x] < s[x]
      BY <1>1, <3>1
    <3>3. \A j \in 1..(x - 1) : s[j] = t[j] /\ t[j] = s[j]
      BY <2>4
    <3> QED
      BY <3>1, <3>2, <3>3 DEF Before
  <2> QED
    BY <2>6, <2>7, <2>8, <2>9
<1> QED
  BY <1>2, <1>3

\* The order of the keys is transitive.
LEMMA BeforeIsTransitive ==
    ASSUME NEW s \in Bytes, NEW t \in Bytes, NEW r \in Bytes, Before(s, t), Before(t, r)
    PROVE  Before(s, r)
<1>1. Len(s) \in Nat /\ Len(t) \in Nat /\ Len(r) \in Nat
  BY LenProperties DEF Bytes
<1>2. /\ \A i \in 1..Len(s) : s[i] \in Nat
      /\ \A i \in 1..Len(t) : t[i] \in Nat
      /\ \A i \in 1..Len(r) : r[i] \in Nat
  BY ElementOfSeq DEF Bytes
<1>3. PICK i \in 1..Len(t) : /\ i <= Len(s) + 1
                             /\ \A j \in 1..(i - 1) : s[j] = t[j]
                             /\ i <= Len(s) => s[i] < t[i]
  BY DEF Before
<1>4. PICK k \in 1..Len(r) : /\ k <= Len(t) + 1
                             /\ \A j \in 1..(k - 1) : t[j] = r[j]
                             /\ k <= Len(t) => t[k] < r[k]
  BY DEF Before
<1>5. CASE i < k
  <2>1. i \in 1..Len(r) /\ i \in 1..(k - 1)
    BY <1>1, <1>5
  <2>2. \A j \in 1..(i - 1) : s[j] = r[j]
    BY <1>1, <1>3, <1>4, <1>5
  <2>3. i <= Len(s) => s[i] < r[i]
    BY <1>3, <1>4, <2>1
  <2> QED
    BY <1>3, <2>1, <2>2, <2>3 DEF Before
<1>6. CASE i = k
  <2>1. \A j \in 1..(i - 1) : s[j] = r[j]
    BY <1>3, <1>4, <1>6
  <2>2. ASSUME i <= Len(s) PROVE s[i] < r[i]
    <3>1. i \in 1..Len(s) /\ i \in 1..Len(t) /\ i \in 1..Len(r)
      BY <1>1, <1>6, <2>2
    <3>2. s[i] < t[i] /\ t[i] < r[i]
      BY <1>1, <1>3, <1>4, <1>6, <2>2
    <3>3. s[i] \in Nat /\ t[i] \in Nat /\ r[i] \in Nat
      BY <1>2, <3>1
    <3> QED
      BY <3>2, <3>3
  <2> QED
    BY <1>3, <1>6, <2>1, <2>2 DEF Before
<1>7. CASE k < i
  <2>1. k \in 1..Len(t) /\ k \in 1..(i - 1) /\ k <= Len(s) + 1
    BY <1>1, <1>3, <1>7
  <2>2. \A j \in 1..(k - 1) : s[j] = r[j]
    BY <1>1, <1>3, <1>4, <1>7
  <2>3. s[k] = t[k] /\ t[k] < r[k]
    BY <1>1, <1>3, <1>4, <2>1
  <2> QED
    BY <2>1, <2>2, <2>3 DEF Before
<1> QED
  BY <1>1, <1>5, <1>6, <1>7

\* The number of keys before a key is its place, counted from 0.
Rank(K, k) == Cardinality({l \in K : Before(l, k)})

\* The ranks of the keys of a map are the places 0, 1, ... without gap or repetition.
LEMMA RankIsPlace ==
    ASSUME NEW K \in SUBSET Bytes, IsFiniteSet(K)
    PROVE  /\ Cardinality(K) \in Nat
           /\ \A k \in K : Rank(K, k) \in 0..(Cardinality(K) - 1)
           /\ \A k, l \in K : Rank(K, k) = Rank(K, l) => k = l
           /\ \A i \in 0..(Cardinality(K) - 1) : \E k \in K : Rank(K, k) = i
<1> DEFINE n == Cardinality(K)
           Behind(k) == {l \in K : Before(l, k)}
<1>1. n \in Nat
  BY FS_CardinalityType
<1>2. \A k \in K : IsFiniteSet(Behind(k)) /\ Rank(K, k) = Cardinality(Behind(k))
                   /\ Rank(K, k) \in Nat
  <2> TAKE k \in K
  <2>1. Behind(k) \in SUBSET K
    OBVIOUS
  <2>2. IsFiniteSet(Behind(k))
    BY <2>1, FS_Subset
  <2> QED
    BY <2>2, FS_CardinalityType DEF Rank
<1>3. ASSUME NEW k \in K, NEW T \in SUBSET K, k \notin Behind(k),
             Behind(k) \cup {k} \subseteq T
      PROVE  Rank(K, k) < Cardinality(T) /\ Cardinality(T) \in Nat
  <2>1. IsFiniteSet(T) /\ Cardinality(T) \in Nat
    BY FS_Subset, FS_CardinalityType
  <2>2. Cardinality(Behind(k) \cup {k}) = Rank(K, k) + 1
    BY <1>2, <1>3, FS_AddElement
  <2>3. Cardinality(Behind(k) \cup {k}) <= Cardinality(T)
    BY <1>3, <2>1, FS_Subset
  <2>4. Rank(K, k) \in Nat
    BY <1>2
  <2> QED
    BY ONLY <2>1, <2>2, <2>3, <2>4
<1>4. \A k \in K : k \notin Behind(k)
  BY BeforeIsTotal
<1>5. \A k \in K : Rank(K, k) \in 0..(n - 1)
  <2> TAKE k \in K
  <2>1. Behind(k) \cup {k} \subseteq K
    OBVIOUS
  <2>2. Rank(K, k) < n
    BY <1>3, <1>4, <2>1
  <2>3. Rank(K, k) \in Nat
    BY <1>2
  <2> QED
    BY <1>1, <2>2, <2>3
<1>6. ASSUME NEW k \in K, NEW l \in K, Before(k, l) PROVE Rank(K, k) # Rank(K, l)
  <2>1. Behind(k) \cup {k} \subseteq Behind(l) /\ Behind(l) \in SUBSET K
    BY <1>6, BeforeIsTransitive
  <2>2. Rank(K, k) < Cardinality(Behind(l))
    BY <1>3, <1>4, <2>1
  <2> QED
    BY <1>2, <2>2
<1>7. \A k, l \in K : Rank(K, k) = Rank(K, l) => k = l
  BY <1>6, BeforeIsTotal
<1> DEFINE place == [k \in K |-> Rank(K, k)]
<1>8. place \in Injection(K, 0..(n - 1))
  BY <1>5, <1>7 DEF Injection, IsInjective
<1>9. IsFiniteSet(0..(n - 1)) /\ Cardinality(0..(n - 1)) = n
  <2>1. 0 \in Int /\ n - 1 \in Int
    BY <1>1
  <2>2. Cardinality(0..(n - 1)) = IF 0 > n - 1 THEN 0 ELSE (n - 1) - 0 + 1
    BY <2>1, FS_Interval
  <2> QED
    BY <1>1, <2>1, <2>2, FS_Interval
<1>10. place \in Surjection(K, 0..(n - 1))
  BY <1>8, <1>9, FS_Injection
<1>11. \A i \in 0..(n - 1) : \E k \in K : Rank(K, k) = i
  BY <1>10 DEF Surjection
<1> QED
  BY <1>1, <1>5, <1>7, <1>11

-----------------------------------------------------------------------------
(***************************************************************************)
(* Maps: their keys in one order, whatever order they were ranged over in. *)
(***************************************************************************)
\* The maps of a series: finitely many strings to strings.
StringMap == UNION {[K -> Bytes] : K \in {L \in SUBSET Bytes : IsFiniteSet(L)}}

\* A map has finitely many keys, which are strings, and strings for values.
LEMMA StringMapIs ==
    ASSUME NEW m \in StringMap
    PROVE  /\ DOMAIN m \in SUBSET Bytes /\ IsFiniteSet(DOMAIN m) /\ Cardinality(DOMAIN m) \in Nat
           /\ \A k \in DOMAIN m : m[k] \in Bytes
           /\ m = [k \in DOMAIN m |-> m[k]]
<1>1. PICK K \in SUBSET Bytes : IsFiniteSet(K) /\ m \in [K -> Bytes]
  BY DEF StringMap
<1> QED
  BY <1>1, FS_CardinalityType

\* sort.Strings yields the same sequence for every order of its input, and "range m"
\* yields every key once.
LEMMA SortStringsIs ==
    ASSUME NEW K \in SUBSET Bytes, IsFiniteSet(K), NEW keys \in SetToSeqs(K)
    PROVE  SortStrings(keys) = Sorted(K)
<1>1. Cardinality(K) \in Nat
  BY FS_CardinalityType
<1>2. keys \in Injection(1..Cardinality(K), K)
  BY DEF SetToSeqs, Injection, IsInjective
<1>3. IsFiniteSet(1..Cardinality(K)) /\ Cardinality(1..Cardinality(K)) = Cardinality(K)
  <2>1. 1 \in Int /\ Cardinality(K) \in Int
    BY <1>1
  <2> QED
    BY <1>1, <2>1, FS_Interval
<1>4. keys \in Surjection(1..Cardinality(K), K)
  BY <1>2, <1>3, FS_Injection
<1>5. DOMAIN keys = 1..Cardinality(K) /\ ToSet(keys) = K
  BY <1>4 DEF Surjection, ToSet
<1> QED
  BY <1>5 DEF SortStrings

\* Sorted, the keys of a map are the same sequence for every order, and all of them.
LEMMA SortedKeys ==
    ASSUME NEW m \in StringMap
    PROVE  /\ \A keys \in SetToSeqs(DOMAIN m) : SortStrings(keys) = Sorted(DOMAIN m)
           /\ Sorted(DOMAIN m) \in Seq(DOMAIN m)
           /\ Len(Sorted(DOMAIN m)) = Cardinality(DOMAIN m)
           /\ DOMAIN Sorted(DOMAIN m) = 1..Cardinality(DOMAIN m)
           /\ \A k \in DOMAIN m : \E i \in 1..Cardinality(DOMAIN m) : Sorted(DOMAIN m)[i] = k
<1> DEFINE K == DOMAIN m
           n == Cardinality(K)
<1>1. K \in SUBSET Bytes /\ IsFiniteSet(K) /\ n \in Nat
  BY StringMapIs
<1>2. \A keys \in SetToSeqs(K) : SortStrings(keys) = Sorted(K)
  BY <1>1, SortStringsIs
<1> HIDE DEF K, n
<1>3. \A i \in 1..n : i - 1 \in 0..(n - 1)
  BY <1>1
<1>4. \A i \in 1..n : \E k \in K : Rank(K, k) = i - 1
  BY <1>1, <1>3, RankIsPlace DEF n
<1>5. \A i \in 1..n : Sorted(K)[i] \in K /\ Rank(K, Sorted(K)[i]) = i - 1
  BY <1>4 DEF Sorted, Rank, n
<1>6. Sorted(K) \in [1..n -> K]
  BY <1>5 DEF Sorted, Rank, n
<1>7. ASSUME NEW k \in K PROVE \E i \in 1..n : Sorted(K)[i] = k
  <2>1. Rank(K, k) \in 0..(n - 1)
    BY <1>1, RankIsPlace DEF n
  <2>2. Rank(K, k) + 1 \in 1..n /\ (Rank(K, k) + 1) - 1 = Rank(K, k)
    BY <1>1, <2>1
  <2>3. /\ Sorted(K)[Rank(K, k) + 1] \in K
        /\ Rank(K, Sorted(K)[Rank(K, k) + 1]) = Rank(K, k)
    BY <1>5, <2>2
  <2>4. Sorted(K)[Rank(K, k) + 1] = k
    BY <1>1, <2>3, RankIsPlace
  <2> QED
    BY <2>2, <2>4
<1>8. Sorted(K) \in Seq(K) /\ Len(Sorted(K)) = n /\ DOMAIN Sorted(K) = 1..n
  BY <1>1, <1>6
<1> QED
  BY <1>2, <1>7, <1>8 DEF K, n

\* hashMap: the number of keys in front tells where the map ends, whatever the order in
\* which its keys were ranged over.
LEMMA EncodeMap ==
    ASSUME NEW m \in StringMap, NEW w \in StringMap,
           NEW r \in SetToSeqs(DOMAIN m), NEW q \in SetToSeqs(DOMAIN w)
    PROVE  hashMap(m, r) \in Bytes /\ Encode(hashMap(m, r), hashMap(w, q), m, w)
<1> DEFINE Count(x) == Cardinality(DOMAIN x)
           Parts(x) == [i \in 1..Count(x) |->
                          hashString(Sorted(DOMAIN x)[i]) \o hashString(x[Sorted(DOMAIN x)[i]])]
<1>1. ASSUME NEW x \in StringMap, NEW b \in SetToSeqs(DOMAIN x)
      PROVE  /\ Count(x) \in Nat /\ Parts(x) \in Seq(Bytes) /\ Len(Parts(x)) = Count(x)
             /\ hashMap(x, b) = << Count(x) >> \o FlattenSeq(Parts(x))
             /\ \A i \in 1..Count(x) : Sorted(DOMAIN x)[i] \in DOMAIN x
             /\ \A i \in 1..Count(x) : Sorted(DOMAIN x)[i] \in Bytes
             /\ \A i \in 1..Count(x) : x[Sorted(DOMAIN x)[i]] \in Bytes
  <2>1. /\ Count(x) \in Nat
        /\ \A i \in 1..Count(x) : Sorted(DOMAIN x)[i] \in DOMAIN x
    BY StringMapIs, SortedKeys, ElementOfSeq
  <2>2. DOMAIN x \in SUBSET Bytes /\ \A k \in DOMAIN x : x[k] \in Bytes
    BY StringMapIs
  <2>3. /\ \A i \in 1..Count(x) : Sorted(DOMAIN x)[i] \in Bytes
        /\ \A i \in 1..Count(x) : x[Sorted(DOMAIN x)[i]] \in Bytes
    BY <2>1, <2>2
  <2>4. \A i \in 1..Count(x) :
            hashString(Sorted(DOMAIN x)[i]) \o hashString(x[Sorted(DOMAIN x)[i]]) \in Bytes
    <3> TAKE i \in 1..Count(x)
    <3>1. hashString(Sorted(DOMAIN x)[i]) \in Bytes /\ hashString(x[Sorted(DOMAIN x)[i]]) \in Bytes
      BY <2>3, EncodeString
    <3> QED
      BY <3>1, BytesConcat
  <2>5. Parts(x) \in Seq(Bytes) /\ Len(Parts(x)) = Count(x)
    <3> HIDE DEF Count
    <3>1. Parts(x) \in [1..Count(x) -> Bytes]
      BY <2>4 DEF Count
    <3> HIDE DEF Parts
    <3> QED
      BY <2>1, <3>1
  <2>6. hashMap(x, b) = << Count(x) >> \o FlattenSeq(Parts(x))
    <3>1. /\ SortStrings(b) = Sorted(DOMAIN x)
          /\ Len(Sorted(DOMAIN x)) = Count(x) /\ DOMAIN Sorted(DOMAIN x) = 1..Count(x)
      BY SortedKeys
    <3> QED
      BY <3>1, Zenon DEF hashMap
  <2> QED
    BY <2>1, <2>3, <2>5, <2>6
<1> HIDE DEF Parts, Count
<1>2. << Count(m) >> \in Bytes /\ Encode(<< Count(m) >>, << Count(w) >>, Count(m), Count(w))
      /\ << Count(w) >> \in Bytes
  BY <1>1, EncodeNumber
<1>3. FlattenSeq(Parts(m)) \in Bytes /\ FlattenSeq(Parts(w)) \in Bytes
  BY <1>1, FlattenType DEF Bytes
<1>4. hashMap(m, r) \in Bytes
  <2>1. << Count(m) >> \o FlattenSeq(Parts(m)) \in Bytes
    BY <1>2, <1>3, BytesConcat, Zenon
  <2> QED
    BY <1>1, <2>1, Zenon
<1>5. ASSUME NEW u \in Bytes, NEW v \in Bytes, hashMap(m, r) \o u = hashMap(w, q) \o v
      PROVE  m = w /\ u = v
  <2>1. /\ hashMap(m, r) \o u = << Count(m) >> \o (FlattenSeq(Parts(m)) \o u)
        /\ hashMap(w, q) \o v = << Count(w) >> \o (FlattenSeq(Parts(w)) \o v)
    <3>1. (<< Count(m) >> \o FlattenSeq(Parts(m))) \o u
             = << Count(m) >> \o (FlattenSeq(Parts(m)) \o u)
      BY <1>2, <1>3, BytesConcat, Zenon
    <3>2. (<< Count(w) >> \o FlattenSeq(Parts(w))) \o v
             = << Count(w) >> \o (FlattenSeq(Parts(w)) \o v)
      BY <1>2, <1>3, BytesConcat, Zenon
    <3> QED
      BY <1>1, <3>1, <3>2, Zenon
  <2>2. FlattenSeq(Parts(m)) \o u \in Bytes /\ FlattenSeq(Parts(w)) \o v \in Bytes
    BY <1>3, BytesConcat
  <2>3. Count(m) = Count(w) /\ FlattenSeq(Parts(m)) \o u = FlattenSeq(Parts(w)) \o v
    BY <1>2, <1>5, <2>1, <2>2, Zenon DEF Encode
  <2> DEFINE Pairing(x) == [i \in 1..Count(m) |-> << Sorted(DOMAIN x)[i], x[Sorted(DOMAIN x)[i]] >>]
  <2>4. ASSUME NEW i \in 1..Count(m)
        PROVE  Encode(Parts(m)[i], Parts(w)[i], Pairing(m)[i], Pairing(w)[i])
    <3> DEFINE k == Sorted(DOMAIN m)[i]
               l == Sorted(DOMAIN w)[i]
    <3>1. k \in Bytes /\ l \in Bytes /\ m[k] \in Bytes /\ w[l] \in Bytes
      BY <1>1, <2>3
    <3>2. /\ Parts(m)[i] = hashString(k) \o hashString(m[k])
          /\ Parts(w)[i] = hashString(l) \o hashString(w[l])
      BY <2>3 DEF Parts, Count
    <3>3. Pairing(m)[i] = << k, m[k] >> /\ Pairing(w)[i] = << l, w[l] >>
      OBVIOUS
    <3> HIDE DEF k, l
    <3>4. Encode(hashString(k) \o hashString(m[k]), hashString(l) \o hashString(w[l]),
                 << k, m[k] >>, << l, w[l] >>)
      BY <3>1, EncodeString, EncodeConcat
    <3> QED
      BY <3>2, <3>3, <3>4, Zenon
  <2>5. u = v /\ \A i \in 1..Count(m) : Pairing(m)[i] = Pairing(w)[i]
    <3>1. Len(Parts(m)) = Len(Parts(w)) /\ Len(Parts(m)) = Count(m)
      BY <1>1, <2>3
    <3>2. Parts(m) \in Seq(Bytes) /\ Parts(w) \in Seq(Bytes)
      BY <1>1
    <3> DEFINE a == Pairing(m)
               b == Pairing(w)
    <3>3. \A i \in 1..Len(Parts(m)) : Encode(Parts(m)[i], Parts(w)[i], a[i], b[i])
      BY <2>4, <3>1
    <3> HIDE DEF a, b
    <3>4. a = [i \in 1..Len(Parts(m)) |-> a[i]] /\ b = [i \in 1..Len(Parts(m)) |-> b[i]]
      BY <3>1 DEF a, b
    <3>5. Encode(FlattenSeq(Parts(m)), FlattenSeq(Parts(w)), a, b)
      BY <3>1, <3>2, <3>3, <3>4, EncodeSequence
    <3>6. u = v /\ a = b
      BY <2>3, <3>5, Zenon DEF Encode
    <3> QED
      BY <3>6 DEF a, b
  <2>6. ASSUME NEW i \in 1..Count(m)
        PROVE  /\ Sorted(DOMAIN m)[i] = Sorted(DOMAIN w)[i]
               /\ m[Sorted(DOMAIN m)[i]] = w[Sorted(DOMAIN w)[i]]
    BY <2>5
  <2>7. /\ \A k \in DOMAIN m : \E i \in 1..Count(m) : Sorted(DOMAIN m)[i] = k
        /\ \A k \in DOMAIN w : \E i \in 1..Count(w) : Sorted(DOMAIN w)[i] = k
    BY SortedKeys DEF Count
  <2>8. \A i \in 1..Count(m) : Sorted(DOMAIN m)[i] \in DOMAIN m /\ Sorted(DOMAIN w)[i] \in DOMAIN w
    BY <1>1, <2>3
  <2>9. DOMAIN m = DOMAIN w /\ \A k \in DOMAIN m : m[k] = w[k]
    <3>1. ASSUME NEW k \in DOMAIN m PROVE k \in DOMAIN w /\ m[k] = w[k]
      <4>1. PICK i \in 1..Count(m) : Sorted(DOMAIN m)[i] = k
        BY <2>7
      <4> QED
        BY <2>6, <2>8, <4>1
    <3>2. ASSUME NEW k \in DOMAIN w PROVE k \in DOMAIN m
      <4>1. PICK i \in 1..Count(m) : Sorted(DOMAIN w)[i] = k
        BY <2>3, <2>7
      <4> QED
        BY <2>6, <2>8, <4>1
    <3> QED
      BY <3>1, <3>2
  <2>10. m = w
    BY <2>9, StringMapIs
  <2> QED
    BY <2>5, <2>10
<1> QED
  BY <1>4, <1>5 DEF Encode

-----------------------------------------------------------------------------
(***************************************************************************)
(* What the conversions return.                                            *)
(***************************************************************************)
\* anyValueToString of an integer.
LEMMA DecimalIsString == ASSUME NEW n \in Nat PROVE Decimal(n) \in Bytes
<1> DEFINE Value(f, k) == IF k < 10 THEN << 48 + k >> ELSE f[k \div 10] \o << 48 + (k % 10) >>
           Step(f, m) == [k \in 0..m |-> Value(f, k)]
           Has(m) == \E f \in [0..m -> Bytes] : f = Step(f, m)
           P == {m \in Nat : Has(m)}
<1>1. ASSUME NEW m \in Nat, NEW f, \A k \in 0..(m - 1) : f[k] \in Bytes
      PROVE  Value(f, m) \in Bytes
  <2>1. CASE m < 10
    <3>1. 48 + m \in Nat
      OBVIOUS
    <3>2. << 48 + m >> \in Bytes
      BY <3>1, EncodeNumber
    <3> QED
      BY <2>1, <3>2
  <2>2. CASE ~ (m < 10)
    <3>1. m \div 10 \in 0..(m - 1) /\ 48 + (m % 10) \in Nat
      BY <2>2
    <3>2. << 48 + (m % 10) >> \in Bytes
      BY <3>1, EncodeNumber
    <3>3. f[m \div 10] \in Bytes
      BY <1>1, <3>1
    <3>4. f[m \div 10] \o << 48 + (m % 10) >> \in Bytes
      BY <3>2, <3>3, BytesConcat
    <3> QED
      BY <2>2, <3>4
  <2> QED
    BY <2>1, <2>2
<1>2. ASSUME NEW m \in Nat, NEW f, NEW g, \A k \in 0..(m - 1) : f[k] = g[k]
      PROVE  Value(f, m) = Value(g, m)
  <2>1. CASE m < 10
    BY <2>1
  <2>2. CASE ~ (m < 10)
    <3>1. m \div 10 \in 0..(m - 1)
      BY <2>2
    <3> QED
      BY <1>2, <2>2, <3>1
  <2> QED
    BY <2>1, <2>2
<1> HIDE DEF Value
<1>3. Has(0)
  <2> DEFINE f == [k \in 0..0 |-> Value(<< >>, k)]
  <2>1. Value(<< >>, 0) \in Bytes
    BY <1>1
  <2>2. f[0] = Value(f, 0)
    BY <1>2
  <2>3. f \in [0..0 -> Bytes]
    BY <2>1
  <2>4. f = Step(f, 0)
    BY <2>2
  <2> QED
    BY <2>3, <2>4
<1>4. ASSUME NEW m \in Nat, Has(m) PROVE Has(m + 1)
  <2>1. PICK f \in [0..m -> Bytes] : f = Step(f, m)
    BY <1>4
  <2> DEFINE g == [k \in 0..(m + 1) |-> IF k <= m THEN f[k] ELSE Value(f, m + 1)]
  <2>2. Value(f, m + 1) \in Bytes
    BY <1>1
  <2>3. g \in [0..(m + 1) -> Bytes]
    BY <2>2
  <2>4. \A k \in 0..m : g[k] = f[k]
    OBVIOUS
  <2>5. ASSUME NEW k \in 0..(m + 1) PROVE g[k] = Value(g, k)
    <3>1. CASE k <= m
      <4>1. f[k] = Step(f, m)[k]
        BY <2>1
      <4>2. f[k] = Value(f, k)
        BY <3>1, <4>1
      <4>3. \A l \in 0..(k - 1) : f[l] = g[l]
        BY <2>4, <3>1
      <4>4. Value(f, k) = Value(g, k)
        BY <1>2, <4>3
      <4> QED
        BY <2>4, <3>1, <4>2, <4>4
    <3>2. CASE k = m + 1
      <4>1. g[m + 1] = Value(f, m + 1)
        OBVIOUS
      <4>2. \A l \in 0..((m + 1) - 1) : f[l] = g[l]
        BY <2>4
      <4>3. Value(f, m + 1) = Value(g, m + 1)
        BY <1>2, <4>2
      <4> QED
        BY <3>2, <4>1, <4>3
    <3> QED
      BY <3>1, <3>2
  <2> HIDE DEF g
  <2>6. g = Step(g, m + 1)
    BY <2>3, <2>5
  <2> QED
    BY <2>3, <2>6
<1>5. P = Nat
  <2> HIDE DEF Has
  <2>1. P \in SUBSET Nat /\ 0 \in P /\ \A m \in Nat : m \in P => m + 1 \in P
    BY <1>3, <1>4
  <2> HIDE DEF P
  <2> QED
    BY <2>1, Induction
<1> DEFINE digits == CHOOSE f : f = Step(f, n)
<1>6. Has(n)
  <2> HIDE DEF Has
  <2> QED
    BY <1>5
<1>7. digits = Step(digits, n)
  BY <1>6
<1>8. Decimal(n) = digits[n]
  BY DEF Decimal, Value
<1> HIDE DEF digits
<1>9. \A k \in 0..n : digits[k] = Value(digits, k)
  <2> TAKE k \in 0..n
  <2>1. digits[k] = Step(digits, n)[k]
    BY <1>7
  <2> QED
    BY <2>1
<1>10. \A k \in 0..n : digits[k] \in Bytes
  <2> DEFINE T == {k \in 0..n : digits[k] \notin Bytes}
  <2> SUFFICES ASSUME T # {} PROVE FALSE
    OBVIOUS
  <2>1. T \in SUBSET Nat
    OBVIOUS
  <2>2. PICK x \in T : \A y \in T : x <= y
    BY <2>1, SmallestExists
  <2>3. x \in 0..n /\ digits[x] \notin Bytes
    OBVIOUS
  <2>4. \A k \in 0..(x - 1) : digits[k] \in Bytes
    BY <2>2, <2>3
  <2>5. Value(digits, x) \in Bytes
    BY <1>1, <2>3, <2>4
  <2> QED
    BY <1>9, <2>3, <2>5
<1> QED
  BY <1>8, <1>10

\* anyValueToString of a nested list.
LEMMA PrintedIsString ==
    ASSUME NEW entries \in Seq([key : Bytes, text : Bytes])
    PROVE  Printed(entries) \in Bytes
<1> DEFINE Part(i) == entries[i].key \o << 58 >> \o entries[i].text \o << 32 >>
           parts == [i \in DOMAIN entries |-> Part(i)]
<1>1. << 123 >> \in Bytes /\ << 58 >> \in Bytes /\ << 32 >> \in Bytes /\ << 125 >> \in Bytes
  BY EncodeNumber
<1>2. Len(entries) \in Nat /\ DOMAIN entries = 1..Len(entries)
  BY LenProperties
<1>3. \A i \in DOMAIN entries : entries[i].key \in Bytes /\ entries[i].text \in Bytes
  <2>1. \A i \in DOMAIN entries : entries[i] \in [key : Bytes, text : Bytes]
    BY <1>2, ElementOfSeq
  <2> QED
    BY <2>1
<1>4. \A i \in DOMAIN entries : Part(i) \in Bytes
  BY <1>1, <1>3, BytesConcat
<1>5. parts \in [1..Len(entries) -> Bytes]
  BY <1>2, <1>4
<1>6. parts \in Seq(Bytes)
  BY <1>2, <1>5
<1>7. FlattenSeq(parts) \in Bytes
  BY <1>6, FlattenType DEF Bytes
<1>8. Printed(entries) = << 123 >> \o FlattenSeq(parts) \o << 125 >>
  BY DEF Printed
<1> QED
  BY <1>1, <1>7, <1>8, BytesConcat

\* anyValueToString returns a string, whatever the kind of the value.
LEMMA ValueIsString == ASSUME NEW v \in AnyValue PROVE anyValueToString(v) \in Bytes
<1>1. CASE v \in [kind : {"string"}, text : Bytes]
  BY <1>1 DEF anyValueToString
<1>2. CASE v \in [kind : {"int"}, number : Nat]
  BY <1>2, DecimalIsString DEF anyValueToString
<1>3. CASE v \in [kind : {"kvlist"}, entries : Seq([key : Bytes, text : Bytes])]
  BY <1>3, PrintedIsString DEF anyValueToString
<1> QED
  BY <1>1, <1>2, <1>3 DEF AnyValue

\* The index of the last attribute of a key, and the text that stands there.
LEMMA LastAttribute ==
    ASSUME NEW attrs \in Attributes, NEW k \in {attrs[i].key : i \in DOMAIN attrs}
    PROVE  SelectLastInSeq(attrs, LAMBDA kv : kv.key = k) \in 1..Len(attrs)
<1> DEFINE I == {i \in 1..Len(attrs) : attrs[i].key = k}
<1>1. Len(attrs) \in Nat /\ DOMAIN attrs = 1..Len(attrs)
  BY LenProperties DEF Attributes
<1>2. I # {} /\ I \in SUBSET (0..Len(attrs))
  BY <1>1
<1>3. \E x \in I : \A y \in I : x >= y
  BY <1>1, <1>2, GreatestExists
<1>4. Max(I) \in I
  BY <1>3 DEF Max
<1>5. SelectLastInSeq(attrs, LAMBDA kv : kv.key = k) = IF I # {} THEN Max(I) ELSE 0
  BY DEF SelectLastInSeq
<1> QED
  BY <1>2, <1>4, <1>5

\* kvToMap returns a map of strings to strings.
LEMMA MapOfStrings == ASSUME NEW attrs \in Attributes PROVE kvToMap(attrs) \in StringMap
<1> DEFINE K == {attrs[i].key : i \in DOMAIN attrs}
           keys == [i \in 1..Len(attrs) |-> attrs[i].key]
<1>1. Len(attrs) \in Nat /\ DOMAIN attrs = 1..Len(attrs)
  BY LenProperties DEF Attributes
<1>2. \A i \in 1..Len(attrs) : attrs[i].key \in Bytes /\ attrs[i].value \in AnyValue
  <2>1. \A i \in 1..Len(attrs) : attrs[i] \in [key : Bytes, value : AnyValue]
    BY <1>1, ElementOfSeq DEF Attributes
  <2> QED
    BY <2>1
<1>3. K \in SUBSET Bytes
  BY <1>1, <1>2
<1>4. IsFiniteSet(K)
  <2>1. keys \in Surjection(1..Len(attrs), K)
    BY <1>1 DEF Surjection
  <2>2. IsFiniteSet(1..Len(attrs))
    BY <1>1, FS_Interval
  <2> QED
    BY <2>1, <2>2, FS_Surjection
<1>5. \A k \in K : kvToMap(attrs)[k] \in Bytes
  <2> TAKE k \in K
  <2> DEFINE i == SelectLastInSeq(attrs, LAMBDA kv : kv.key = k)
  <2>1. i \in 1..Len(attrs)
    BY LastAttribute
  <2>2. kvToMap(attrs)[k] = anyValueToString(attrs[i].value)
    BY DEF kvToMap
  <2> HIDE DEF i
  <2> QED
    BY <1>2, <2>1, <2>2, ValueIsString
<1>6. kvToMap(attrs) \in [K -> Bytes]
  BY <1>5 DEF kvToMap
<1> QED
  BY <1>3, <1>4, <1>6 DEF StringMap

\* serviceName returns a string.
LEMMA ServiceNameIsString == ASSUME NEW attrs \in Attributes PROVE serviceName(attrs) \in Bytes
<1> DEFINE I == {i \in 1..Len(attrs) : attrs[i].key = ServiceNameKey}
           i == SelectInSeq(attrs, LAMBDA kv : kv.key = ServiceNameKey)
<1>1. Len(attrs) \in Nat
  BY LenProperties DEF Attributes
<1>2. i = IF I # {} THEN Min(I) ELSE 0
  BY DEF SelectInSeq
<1>3. ASSUME I # {} PROVE Min(I) \in I
  <2>1. I \in SUBSET Nat
    BY <1>1
  <2>2. \E x \in I : \A y \in I : x <= y
    BY <1>3, <2>1, SmallestExists
  <2> QED
    BY <2>2 DEF Min
<1>4. i # 0 => i \in 1..Len(attrs)
  BY <1>2, <1>3
<1>5. serviceName(attrs) =
        IF i # 0 /\ attrs[i].value.kind = "string" THEN attrs[i].value.text ELSE << >>
  BY DEF serviceName
<1> HIDE DEF i
<1>6. CASE i # 0 /\ attrs[i].value.kind = "string"
  <2>1. attrs[i].value \in AnyValue
    <3>1. attrs[i] \in [key : Bytes, value : AnyValue]
      BY <1>4, <1>6, ElementOfSeq DEF Attributes
    <3> QED
      BY <3>1
  <2>2. attrs[i].value.text \in Bytes
    BY <1>6, <2>1 DEF AnyValue
  <2> QED
    BY <1>5, <1>6, <2>2
<1>7. CASE ~ (i # 0 /\ attrs[i].value.kind = "string")
  BY <1>5, <1>7, BytesConcat
<1> QED
  BY <1>6, <1>7

-----------------------------------------------------------------------------
(***************************************************************************)
(* The fingerprint: all fields of a series.                                *)
(***************************************************************************)
SeriesMetadata ==
    [MetricType : Bytes, ServiceName : Bytes, ResourceAttributes : StringMap,
     ResourceSchemaUrl : Bytes, ScopeName : Bytes, ScopeVersion : Bytes,
     ScopeAttributes : StringMap, ScopeDroppedAttrCount : Nat, ScopeSchemaUrl : Bytes,
     MetricName : Bytes, MetricDescription : Bytes, MetricUnit : Bytes,
     Attributes : StringMap, AggregationTemporality : Nat, IsMonotonic : BOOLEAN]

\* One more field of the series.
LEMMA EncodeNext ==
    ASSUME NEW p \in Bytes, NEW q \in Bytes, NEW x \in Bytes, NEW y \in Bytes,
           NEW a, NEW b, NEW c, NEW d,
           Encode(p, q, a, b), Encode(x, y, c, d)
    PROVE  /\ p \o x \in Bytes /\ q \o y \in Bytes
           /\ Encode(p \o x, q \o y, << a, c >>, << b, d >>)
BY BytesConcat, EncodeConcat

\* hashBool.
LEMMA EncodeBool ==
    ASSUME NEW a \in BOOLEAN, NEW b \in BOOLEAN
    PROVE  hashBool(a) \in Bytes /\ Encode(hashBool(a), hashBool(b), a, b)
<1> DEFINE bit(c) == IF c THEN 1 ELSE 0
<1>1. bit(a) \in Nat /\ bit(b) \in Nat /\ (bit(a) = bit(b) => a = b)
  OBVIOUS
<1>2. hashBool(a) = << bit(a) >> /\ hashBool(b) = << bit(b) >>
  BY DEF hashBool
<1> HIDE DEF bit
<1>3. << bit(a) >> \in Bytes /\ Encode(<< bit(a) >>, << bit(b) >>, bit(a), bit(b))
  BY <1>1, EncodeNumber
<1> QED
  BY <1>1, <1>2, <1>3, Zenon DEF Encode

(***************************************************************************)
(* Two series have the same fingerprint exactly if they are the same in    *)
(* every field, whatever order their maps are ranged over in: no field is  *)
(* left out of the digest, no two fields can alias, and the order does not *)
(* matter (fingerprintSeries, metrics_mapper.go:165-211).                  *)
(***************************************************************************)
THEOREM FingerprintIsIdentity ==
    \A s, t \in SeriesMetadata : \A r \in Rangings(s), q \in Rangings(t) :
        fingerprintSeries(s, r) = fingerprintSeries(t, q) <=> s = t
<1> SUFFICES ASSUME NEW s \in SeriesMetadata, NEW t \in SeriesMetadata,
                    NEW r \in Rangings(s), NEW q \in Rangings(t)
             PROVE  fingerprintSeries(s, r) = fingerprintSeries(t, q) <=> s = t
  OBVIOUS
<1>0. ASSUME NEW x \in SeriesMetadata, NEW b \in Rangings(x)
      PROVE  /\ b.resource \in SetToSeqs(DOMAIN x.ResourceAttributes)
             /\ b.scope \in SetToSeqs(DOMAIN x.ScopeAttributes)
             /\ b.attributes \in SetToSeqs(DOMAIN x.Attributes)
  BY DEF Rangings
<1>1. ASSUME NEW m \in StringMap, NEW k \in SetToSeqs(DOMAIN m), NEW l \in SetToSeqs(DOMAIN m)
      PROVE  hashMap(m, k) = hashMap(m, l)
  <2>1. SortStrings(k) = SortStrings(l)
    BY SortedKeys
  <2> QED
    BY <2>1, Zenon DEF hashMap
<1>2. s = t => fingerprintSeries(s, r) = fingerprintSeries(t, q)
  <2> SUFFICES ASSUME s = t PROVE fingerprintSeries(s, r) = fingerprintSeries(s, q)
    OBVIOUS
  <2>1. /\ s.ResourceAttributes \in StringMap /\ s.ScopeAttributes \in StringMap
        /\ s.Attributes \in StringMap
    BY DEF SeriesMetadata
  <2>2. q \in Rangings(s)
    OBVIOUS
  <2>3. /\ hashMap(s.ResourceAttributes, r.resource) = hashMap(s.ResourceAttributes, q.resource)
        /\ hashMap(s.ScopeAttributes, r.scope) = hashMap(s.ScopeAttributes, q.scope)
        /\ hashMap(s.Attributes, r.attributes) = hashMap(s.Attributes, q.attributes)
    BY <1>0, <1>1, <2>1, <2>2
  <2> QED
    BY <2>3, Zenon DEF fingerprintSeries
<1> DEFINE P1(x, b) == hashString(x.MetricType)
           P2(x, b) == P1(x, b) \o hashString(x.ServiceName)
           P3(x, b) == P2(x, b) \o hashMap(x.ResourceAttributes, b.resource)
           P4(x, b) == P3(x, b) \o hashString(x.ResourceSchemaUrl)
           P5(x, b) == P4(x, b) \o hashString(x.ScopeName)
           P6(x, b) == P5(x, b) \o hashString(x.ScopeVersion)
           P7(x, b) == P6(x, b) \o hashMap(x.ScopeAttributes, b.scope)
           P8(x, b) == P7(x, b) \o hashUint32(x.ScopeDroppedAttrCount)
           P9(x, b) == P8(x, b) \o hashString(x.ScopeSchemaUrl)
           P10(x, b) == P9(x, b) \o hashString(x.MetricName)
           P11(x, b) == P10(x, b) \o hashString(x.MetricDescription)
           P12(x, b) == P11(x, b) \o hashString(x.MetricUnit)
           P13(x, b) == P12(x, b) \o hashMap(x.Attributes, b.attributes)
           P14(x, b) == P13(x, b) \o hashUint32(x.AggregationTemporality)
           P15(x, b) == P14(x, b) \o hashBool(x.IsMonotonic)
<1> DEFINE V1(x) == x.MetricType
           V2(x) == << V1(x), x.ServiceName >>
           V3(x) == << V2(x), x.ResourceAttributes >>
           V4(x) == << V3(x), x.ResourceSchemaUrl >>
           V5(x) == << V4(x), x.ScopeName >>
           V6(x) == << V5(x), x.ScopeVersion >>
           V7(x) == << V6(x), x.ScopeAttributes >>
           V8(x) == << V7(x), x.ScopeDroppedAttrCount >>
           V9(x) == << V8(x), x.ScopeSchemaUrl >>
           V10(x) == << V9(x), x.MetricName >>
           V11(x) == << V10(x), x.MetricDescription >>
           V12(x) == << V11(x), x.MetricUnit >>
           V13(x) == << V12(x), x.Attributes >>
           V14(x) == << V13(x), x.AggregationTemporality >>
           V15(x) == << V14(x), x.IsMonotonic >>
<1>3. ASSUME NEW x \in SeriesMetadata
      PROVE  /\ x.MetricType \in Bytes /\ x.ServiceName \in Bytes
             /\ x.ResourceAttributes \in StringMap /\ x.ResourceSchemaUrl \in Bytes
             /\ x.ScopeName \in Bytes /\ x.ScopeVersion \in Bytes
             /\ x.ScopeAttributes \in StringMap /\ x.ScopeDroppedAttrCount \in Nat
             /\ x.ScopeSchemaUrl \in Bytes /\ x.MetricName \in Bytes
             /\ x.MetricDescription \in Bytes /\ x.MetricUnit \in Bytes
             /\ x.Attributes \in StringMap /\ x.AggregationTemporality \in Nat
             /\ x.IsMonotonic \in BOOLEAN
  BY DEF SeriesMetadata
<1> DEFINE Told(p, w, a, b) == p \in Bytes /\ w \in Bytes /\ Encode(p, w, a, b)
<1>4. \A a, b \in Bytes : Told(hashString(a), hashString(b), a, b)
  BY EncodeString
<1>5. \A a, b \in Nat : Told(hashUint32(a), hashUint32(b), a, b)
  BY EncodeNumber DEF hashUint32
<1>6. \A a, b \in BOOLEAN : Told(hashBool(a), hashBool(b), a, b)
  BY EncodeBool
<1>7. \A a, b \in StringMap : \A k \in SetToSeqs(DOMAIN a), l \in SetToSeqs(DOMAIN b) :
          Told(hashMap(a, k), hashMap(b, l), a, b)
  BY EncodeMap
<1>8. \A p, w, x, y, a, b, c, d : Told(p, w, a, b) /\ Told(x, y, c, d)
          => Told(p \o x, w \o y, << a, c >>, << b, d >>)
  BY EncodeNext
<1> HIDE DEF Told
<1>9. Told(P1(s, r), P1(t, q), V1(s), V1(t))
  BY <1>3, <1>4
<1> HIDE DEF P1, V1
<1>10. Told(P2(s, r), P2(t, q), V2(s), V2(t))
  <2>1. Told(hashString(s.ServiceName), hashString(t.ServiceName),
             s.ServiceName, t.ServiceName)
    BY <1>3, <1>4
  <2> QED
    BY <1>9, <1>8, <2>1, Zenon
<1> HIDE DEF P2, V2
<1>11. Told(P3(s, r), P3(t, q), V3(s), V3(t))
  <2>1. Told(hashMap(s.ResourceAttributes, r.resource), hashMap(t.ResourceAttributes, q.resource),
             s.ResourceAttributes, t.ResourceAttributes)
    BY <1>0, <1>3, <1>7
  <2> QED
    BY <1>10, <1>8, <2>1, Zenon
<1> HIDE DEF P3, V3
<1>12. Told(P4(s, r), P4(t, q), V4(s), V4(t))
  <2>1. Told(hashString(s.ResourceSchemaUrl), hashString(t.ResourceSchemaUrl),
             s.ResourceSchemaUrl, t.ResourceSchemaUrl)
    BY <1>3, <1>4
  <2> QED
    BY <1>11, <1>8, <2>1, Zenon
<1> HIDE DEF P4, V4
<1>13. Told(P5(s, r), P5(t, q), V5(s), V5(t))
  <2>1. Told(hashString(s.ScopeName), hashString(t.ScopeName),
             s.ScopeName, t.ScopeName)
    BY <1>3, <1>4
  <2> QED
    BY <1>12, <1>8, <2>1, Zenon
<1> HIDE DEF P5, V5
<1>14. Told(P6(s, r), P6(t, q), V6(s), V6(t))
  <2>1. Told(hashString(s.ScopeVersion), hashString(t.ScopeVersion),
             s.ScopeVersion, t.ScopeVersion)
    BY <1>3, <1>4
  <2> QED
    BY <1>13, <1>8, <2>1, Zenon
<1> HIDE DEF P6, V6
<1>15. Told(P7(s, r), P7(t, q), V7(s), V7(t))
  <2>1. Told(hashMap(s.ScopeAttributes, r.scope), hashMap(t.ScopeAttributes, q.scope),
             s.ScopeAttributes, t.ScopeAttributes)
    BY <1>0, <1>3, <1>7
  <2> QED
    BY <1>14, <1>8, <2>1, Zenon
<1> HIDE DEF P7, V7
<1>16. Told(P8(s, r), P8(t, q), V8(s), V8(t))
  <2>1. Told(hashUint32(s.ScopeDroppedAttrCount), hashUint32(t.ScopeDroppedAttrCount),
             s.ScopeDroppedAttrCount, t.ScopeDroppedAttrCount)
    BY <1>3, <1>5
  <2> QED
    BY <1>15, <1>8, <2>1, Zenon
<1> HIDE DEF P8, V8
<1>17. Told(P9(s, r), P9(t, q), V9(s), V9(t))
  <2>1. Told(hashString(s.ScopeSchemaUrl), hashString(t.ScopeSchemaUrl),
             s.ScopeSchemaUrl, t.ScopeSchemaUrl)
    BY <1>3, <1>4
  <2> QED
    BY <1>16, <1>8, <2>1, Zenon
<1> HIDE DEF P9, V9
<1>18. Told(P10(s, r), P10(t, q), V10(s), V10(t))
  <2>1. Told(hashString(s.MetricName), hashString(t.MetricName),
             s.MetricName, t.MetricName)
    BY <1>3, <1>4
  <2> QED
    BY <1>17, <1>8, <2>1, Zenon
<1> HIDE DEF P10, V10
<1>19. Told(P11(s, r), P11(t, q), V11(s), V11(t))
  <2>1. Told(hashString(s.MetricDescription), hashString(t.MetricDescription),
             s.MetricDescription, t.MetricDescription)
    BY <1>3, <1>4
  <2> QED
    BY <1>18, <1>8, <2>1, Zenon
<1> HIDE DEF P11, V11
<1>20. Told(P12(s, r), P12(t, q), V12(s), V12(t))
  <2>1. Told(hashString(s.MetricUnit), hashString(t.MetricUnit),
             s.MetricUnit, t.MetricUnit)
    BY <1>3, <1>4
  <2> QED
    BY <1>19, <1>8, <2>1, Zenon
<1> HIDE DEF P12, V12
<1>21. Told(P13(s, r), P13(t, q), V13(s), V13(t))
  <2>1. Told(hashMap(s.Attributes, r.attributes), hashMap(t.Attributes, q.attributes),
             s.Attributes, t.Attributes)
    BY <1>0, <1>3, <1>7
  <2> QED
    BY <1>20, <1>8, <2>1, Zenon
<1> HIDE DEF P13, V13
<1>22. Told(P14(s, r), P14(t, q), V14(s), V14(t))
  <2>1. Told(hashUint32(s.AggregationTemporality), hashUint32(t.AggregationTemporality),
             s.AggregationTemporality, t.AggregationTemporality)
    BY <1>3, <1>5
  <2> QED
    BY <1>21, <1>8, <2>1, Zenon
<1> HIDE DEF P14, V14
<1>23. Told(P15(s, r), P15(t, q), V15(s), V15(t))
  <2>1. Told(hashBool(s.IsMonotonic), hashBool(t.IsMonotonic),
             s.IsMonotonic, t.IsMonotonic)
    BY <1>3, <1>6
  <2> QED
    BY <1>22, <1>8, <2>1, Zenon
<1>24. ASSUME NEW x \in SeriesMetadata, NEW b \in Rangings(x)
       PROVE  fingerprintSeries(x, b) = P15(x, b)
  BY Zenon DEF fingerprintSeries, P1, P2, P3, P4, P5, P6, P7, P8, P9, P10, P11, P12, P13, P14, P15
<1>25. ASSUME fingerprintSeries(s, r) = fingerprintSeries(t, q) PROVE V15(s) = V15(t)
  <2>1. P15(s, r) \o << >> = P15(t, q) \o << >>
    BY <1>24, <1>25, Zenon
  <2>2. << >> \in Bytes
    BY BytesConcat
  <2> QED
    BY <1>23, <2>1, <2>2, Zenon DEF Told, Encode
<1>26. V15(s) = V15(t) => s = t
  BY DEF SeriesMetadata, V1, V2, V3, V4, V5, V6, V7, V8, V9, V10, V11, V12, V13, V14, V15
<1> QED
  BY <1>2, <1>25, <1>26

-----------------------------------------------------------------------------
(***************************************************************************)
(* The rows of a request and its places: the loops visit the places in the *)
(* order of their indices.                                                 *)
(***************************************************************************)
Row == [dp : NumberDataPoint, series : SeriesMetadata]
RowAt(p) ==
    [dp     |-> DataPointAt(p),
     series |-> Series(resourceMetrics[p[1]], ScopeAt(p[1], p[2]), MetricAt(p[1], p[2], p[3]),
                       DataPointAt(p))]

\* The rows are those of the places in P, in their order.
AreRowsOf(rows, P) ==
    \E places \in Seq(P) :
        /\ rows = [k \in 1..Len(places) |-> RowAt(places[k])]
        /\ Range(places) = P
        /\ \A k, l \in 1..Len(places) : k < l => Before(places[k], places[l])

\* No rows, of no places.
LEMMA NoRows == AreRowsOf(<< >>, {})
<1> DEFINE s == << >>
<1>1. /\ s \in Seq({}) /\ Len(s) = 0 /\ Range(s) = {}
      /\ s = [k \in 1..0 |-> RowAt(s[k])] /\ \A k : k \notin 1..0
  BY DEF Range
<1> HIDE DEF s
<1>2. /\ s = [k \in 1..Len(s) |-> RowAt(s[k])]
      /\ \A k, l \in 1..Len(s) : k < l => Before(s[k], s[l])
  <2>1. 1..Len(s) = 1..0
    BY <1>1
  <2> QED
    BY <1>1, <2>1, Zenon
<1>3. AreRowsOf(s, {})
  BY <1>1, <1>2, Zenon DEF AreRowsOf
<1> QED
  BY <1>3 DEF s

\* Behind the rows of some places come those of places that are behind them.
LEMMA RowsConcat ==
    ASSUME NEW a \in Seq(Row), NEW b \in Seq(Row), NEW P, NEW Q, AreRowsOf(a, P), AreRowsOf(b, Q),
           \A p \in P, q \in Q : Before(p, q)
    PROVE  AreRowsOf(a \o b, P \cup Q)
<1>1. PICK s \in Seq(P) : /\ a = [k \in 1..Len(s) |-> RowAt(s[k])]
                          /\ Range(s) = P
                          /\ \A k, l \in 1..Len(s) : k < l => Before(s[k], s[l])
  BY DEF AreRowsOf
<1>2. PICK t \in Seq(Q) : /\ b = [k \in 1..Len(t) |-> RowAt(t[k])]
                          /\ Range(t) = Q
                          /\ \A k, l \in 1..Len(t) : k < l => Before(t[k], t[l])
  BY DEF AreRowsOf
<1> DEFINE U == P \cup Q
           u == s \o t
           m == Len(s)
           n == Len(t)
<1>3. s \in Seq(U) /\ t \in Seq(U) /\ m \in Nat /\ n \in Nat
      /\ (\A k \in 1..m : s[k] \in P) /\ (\A k \in 1..n : t[k] \in Q)
  <2>1. (\A k \in 1..m : s[k] \in P) /\ (\A k \in 1..n : t[k] \in Q) /\ m \in Nat /\ n \in Nat
    BY ElementOfSeq, LenProperties
  <2>2. s \in [1..m -> U] /\ t \in [1..n -> U]
    BY <2>1, LenProperties
  <2> QED
    BY <2>1, <2>2
<1>4. /\ u \in Seq(U) /\ Len(u) = m + n
      /\ \A k \in 1..(m + n) : u[k] = IF k <= m THEN s[k] ELSE t[k - m]
  <2> HIDE DEF U
  <2> QED
    BY <1>3, ConcatProperties
<1>5. Range(u) = P \cup Q
  <2> HIDE DEF U
  <2> QED
    BY <1>1, <1>2, <1>3, RangeConcatenation
<1>6. Len(a) = m /\ Len(b) = n
  BY <1>1, <1>2, <1>3
<1>7. /\ a \o b \in Seq(Row) /\ Len(a \o b) = m + n
      /\ \A k \in 1..(m + n) : (a \o b)[k] = IF k <= m THEN a[k] ELSE b[k - m]
  <2>1. /\ a \o b \in Seq(Row) /\ Len(a \o b) = Len(a) + Len(b)
        /\ \A k \in 1..(Len(a) + Len(b)) :
              (a \o b)[k] = IF k <= Len(a) THEN a[k] ELSE b[k - Len(a)]
    BY ConcatProperties
  <2> HIDE DEF m, n, u
  <2> QED
    BY <1>6, <2>1, Zenon
<1>8. ASSUME NEW k \in 1..(m + n) PROVE (a \o b)[k] = RowAt(u[k])
  <2>1. CASE k <= m
    <3>1. k \in 1..m
      BY <1>3, <2>1
    <3>2. a[k] = RowAt(s[k])
      BY <1>1, <3>1
    <3> QED
      BY <1>4, <1>7, <2>1, <3>2
  <2>2. CASE ~ (k <= m)
    <3>1. k - m \in 1..n
      BY <1>3, <2>2
    <3>2. b[k - m] = RowAt(t[k - m])
      BY <1>2, <3>1
    <3> QED
      BY <1>4, <1>7, <2>2, <3>2
  <2> QED
    BY <2>1, <2>2
<1>9. a \o b = [k \in 1..Len(u) |-> RowAt(u[k])]
  <2>1. a \o b = [k \in 1..(m + n) |-> (a \o b)[k]]
    <3> DEFINE c == a \o b
    <3>1. c \in Seq(Row) /\ Len(c) = m + n
      BY <1>7
    <3> HIDE DEF c, m, n, Row
    <3>2. c = [k \in 1..(m + n) |-> c[k]]
      BY <3>1
    <3> QED
      BY <3>2 DEF c
  <2> HIDE DEF u
  <2> QED
    BY <1>4, <1>8, <2>1
<1>10. ASSUME NEW k \in 1..Len(u), NEW l \in 1..Len(u), k < l PROVE Before(u[k], u[l])
  <2>1. k \in 1..(m + n) /\ l \in 1..(m + n)
    BY <1>4
  <2>2. CASE l <= m
    <3>1. k \in 1..m /\ l \in 1..m
      BY <1>3, <1>10, <2>1, <2>2
    <3> QED
      BY <1>1, <1>4, <1>10, <2>1, <3>1
  <2>3. CASE k > m
    <3>1. k - m \in 1..n /\ l - m \in 1..n /\ k - m < l - m
      BY <1>3, <1>10, <2>1, <2>3
    <3>2. u[k] = t[k - m] /\ u[l] = t[l - m]
      BY <1>3, <1>4, <1>10, <2>1, <2>3
    <3> QED
      BY <1>2, <3>1, <3>2
  <2>4. CASE k <= m /\ l > m
    <3>1. k \in 1..m /\ l - m \in 1..n
      BY <1>3, <2>1, <2>4
    <3>2. u[k] = s[k] /\ u[l] = t[l - m]
      BY <1>3, <1>4, <2>1, <2>4
    <3> QED
      BY <1>3, <3>1, <3>2
  <2> QED
    BY <1>3, <2>1, <2>2, <2>3, <2>4
<1> HIDE DEF u
<1> QED
  BY <1>4, <1>5, <1>9, <1>10 DEF AreRowsOf

\* The same for any number of parts.
LEMMA RowsFlatten ==
    ASSUME NEW s \in Seq(Seq(Row)), NEW P, \A i \in 1..Len(s) : AreRowsOf(s[i], P[i]),
           \A i, j \in 1..Len(s) : i < j => \A p \in P[i], q \in P[j] : Before(p, q)
    PROVE  AreRowsOf(FlattenSeq(s), UNION {P[i] : i \in 1..Len(s)})
<1> DEFINE n == Len(s)
           Upto(i) == UNION {P[j] : j \in 1..i}
<1>1. n \in Nat /\ \A i \in 1..n : s[i] \in Seq(Row)
  BY LenProperties, ElementOfSeq
<1>2. PICK F \in [0..n -> Seq(Row)] : IsFlattening(F, s, n) /\ FlattenSeq(s) = F[n]
  BY FlatteningExists
<1> DEFINE Good(i) == AreRowsOf(F[i], Upto(i))
           Is == {i \in Nat : i <= n => Good(i)}
<1> HIDE DEF n
<1>3. 0 \in Is
  <2>1. F[0] = << >> /\ Upto(0) = {}
    BY <1>2 DEF IsFlattening
  <2>2. Good(0)
    BY <2>1, NoRows, Zenon
  <2> QED
    BY <2>2
<1>4. ASSUME NEW i \in Nat, i \in Is PROVE i + 1 \in Is
  <2> SUFFICES ASSUME i + 1 <= n PROVE Good(i + 1)
    OBVIOUS
  <2>1. Good(i) /\ i \in 0..n /\ i + 1 \in 1..n /\ (i + 1) - 1 = i
    BY <1>1, <1>4
  <2>2. F[i + 1] = F[i] \o s[i + 1] /\ F[i] \in Seq(Row) /\ s[i + 1] \in Seq(Row)
    BY <1>1, <1>2, <2>1 DEF IsFlattening
  <2>3. AreRowsOf(s[i + 1], P[i + 1])
    BY <2>1 DEF n
  <2>4. Upto(i + 1) = Upto(i) \cup P[i + 1]
    <3>1. \A j : j \in 1..(i + 1) <=> j \in 1..i \/ j = i + 1
      BY <2>1
    <3> QED
      BY <3>1
  <2>5. \A p \in Upto(i), q \in P[i + 1] : Before(p, q)
    <3> SUFFICES ASSUME NEW j \in 1..i, NEW p \in P[j], NEW q \in P[i + 1]
                 PROVE  Before(p, q)
      OBVIOUS
    <3>1. j \in 1..n /\ j < i + 1
      BY <1>1, <2>1
    <3> QED
      BY <2>1, <3>1 DEF n
  <2> HIDE DEF Upto
  <2>6. AreRowsOf(F[i] \o s[i + 1], Upto(i) \cup P[i + 1])
    BY <2>1, <2>2, <2>3, <2>5, RowsConcat
  <2> QED
    BY <2>2, <2>4, <2>6
<1>5. Is = Nat
  <2>1. Is \in SUBSET Nat
    OBVIOUS
  <2> HIDE DEF Is
  <2> QED
    BY <1>3, <1>4, <2>1, Induction
<1>6. Good(n)
  <2> HIDE DEF Good
  <2>1. n \in Is /\ n <= n
    BY <1>1, <1>5
  <2> QED
    BY <2>1
<1> QED
  BY <1>2, <1>6 DEF n

\* A place is before another if it is so in the first index in which they differ.
LEMMA PlacesOrder ==
    ASSUME NEW a \in Nat, NEW b \in Nat, NEW c \in Nat, NEW d \in Nat,
           NEW e \in Nat, NEW f \in Nat, NEW g \in Nat, NEW h \in Nat
    PROVE  /\ << a, b, c, d >> \in Bytes
           /\ \/ a < e
              \/ a = e /\ b < f
              \/ a = e /\ b = f /\ c < g
              \/ a = e /\ b = f /\ c = g /\ d < h
              => Before(<< a, b, c, d >>, << e, f, g, h >>)
<1> DEFINE p == << a, b, c, d >>
           q == << e, f, g, h >>
<1>1. p \in Bytes /\ Len(p) = 4 /\ p[1] = a /\ p[2] = b /\ p[3] = c /\ p[4] = d
  BY DEF Bytes
<1>2. q \in Bytes /\ Len(q) = 4 /\ q[1] = e /\ q[2] = f /\ q[3] = g /\ q[4] = h
  BY DEF Bytes
<1> HIDE DEF p, q
<1>3. ASSUME NEW i \in 1..4, p[i] < q[i], \A j \in 1..(i - 1) : p[j] = q[j]
      PROVE  Before(p, q)
  <2>1. i \in 1..Len(q) /\ i <= Len(p) + 1
    BY <1>1, <1>2
  <2> QED
    BY <1>3, <2>1 DEF Before
<1>4. a < e => Before(p, q)
  <2>1. 1 \in 1..4 /\ \A j : j \notin 1..(1 - 1)
    OBVIOUS
  <2> QED
    BY <1>1, <1>2, <1>3, <2>1
<1>5. a = e /\ b < f => Before(p, q)
  <2>1. 2 \in 1..4 /\ \A j \in 1..(2 - 1) : j = 1
    OBVIOUS
  <2> QED
    BY <1>1, <1>2, <1>3, <2>1
<1>6. a = e /\ b = f /\ c < g => Before(p, q)
  <2>1. 3 \in 1..4 /\ \A j \in 1..(3 - 1) : j = 1 \/ j = 2
    OBVIOUS
  <2> QED
    BY <1>1, <1>2, <1>3, <2>1
<1>7. a = e /\ b = f /\ c = g /\ d < h => Before(p, q)
  <2>1. 4 \in 1..4 /\ \A j \in 1..(4 - 1) : j = 1 \/ j = 2 \/ j = 3
    OBVIOUS
  <2> QED
    BY <1>1, <1>2, <1>3, <2>1
<1>8. p \in Bytes
  BY <1>1
<1> QED
  BY <1>4, <1>5, <1>6, <1>7, <1>8 DEF p, q

\* The parts of a well-formed request.
LEMMA PartsAre ==
    ASSUME resourceMetrics \in Seq(ResourceMetrics), NEW r \in DOMAIN resourceMetrics
    PROVE  /\ r \in Nat
           /\ resourceMetrics[r] \in ResourceMetrics
           /\ resourceMetrics[r].scopeMetrics \in Seq(ScopeMetrics)
           /\ \A s \in DOMAIN resourceMetrics[r].scopeMetrics :
                 /\ s \in Nat
                 /\ ScopeAt(r, s) \in ScopeMetrics
                 /\ ScopeAt(r, s).metrics \in Seq(Metric)
                 /\ \A m \in DOMAIN ScopeAt(r, s).metrics :
                       /\ m \in Nat
                       /\ MetricAt(r, s, m) \in Metric
                       /\ MetricAt(r, s, m).dataPoints \in Seq(NumberDataPoint)
                       /\ \A d \in DOMAIN MetricAt(r, s, m).dataPoints :
                             /\ d \in Nat
                             /\ MetricAt(r, s, m).dataPoints[d] \in NumberDataPoint
<1>0. \A S : \A x \in Seq(S) : \A i \in DOMAIN x : i \in Nat /\ x[i] \in S
  <2> TAKE S
  <2> TAKE x \in Seq(S)
  <2>1. DOMAIN x = 1..Len(x) /\ Len(x) \in Nat
    BY LenProperties
  <2> QED
    BY <2>1, ElementOfSeq
<1>1. r \in Nat /\ resourceMetrics[r] \in ResourceMetrics
  BY <1>0
<1>2. resourceMetrics[r].scopeMetrics \in Seq(ScopeMetrics)
  BY <1>1 DEF ResourceMetrics
<1> SUFFICES ASSUME NEW s \in DOMAIN resourceMetrics[r].scopeMetrics
             PROVE  /\ s \in Nat
                    /\ ScopeAt(r, s) \in ScopeMetrics
                    /\ ScopeAt(r, s).metrics \in Seq(Metric)
                    /\ \A m \in DOMAIN ScopeAt(r, s).metrics :
                         /\ m \in Nat
                         /\ MetricAt(r, s, m) \in Metric
                         /\ MetricAt(r, s, m).dataPoints \in Seq(NumberDataPoint)
                         /\ \A d \in DOMAIN MetricAt(r, s, m).dataPoints :
                               /\ d \in Nat
                               /\ MetricAt(r, s, m).dataPoints[d] \in NumberDataPoint
  BY <1>1, <1>2, Zenon
<1>3. s \in Nat /\ ScopeAt(r, s) \in ScopeMetrics
  BY <1>0, <1>2 DEF ScopeAt
<1>4. ScopeAt(r, s).metrics \in Seq(Metric)
  BY <1>3 DEF ScopeMetrics
<1> SUFFICES ASSUME NEW m \in DOMAIN ScopeAt(r, s).metrics
             PROVE  /\ m \in Nat
                    /\ MetricAt(r, s, m) \in Metric
                    /\ MetricAt(r, s, m).dataPoints \in Seq(NumberDataPoint)
                    /\ \A d \in DOMAIN MetricAt(r, s, m).dataPoints :
                          /\ d \in Nat
                          /\ MetricAt(r, s, m).dataPoints[d] \in NumberDataPoint
  BY <1>3, <1>4, Zenon
<1>5. m \in Nat /\ MetricAt(r, s, m) \in Metric
  BY <1>0, <1>4 DEF MetricAt
<1>6. MetricAt(r, s, m).dataPoints \in Seq(NumberDataPoint)
  BY <1>5 DEF Metric
<1> QED
  BY <1>0, <1>5, <1>6, Zenon

\* The places of a part begin with the indices of the part.
LEMMA PlacesAre ==
    ASSUME resourceMetrics \in Seq(ResourceMetrics), NEW r \in DOMAIN resourceMetrics
    PROVE  /\ \A p \in ResourcePlaces(r) : \E s, m, d \in Nat : p = << r, s, m, d >>
           /\ \A s \in DOMAIN resourceMetrics[r].scopeMetrics :
                 /\ \A p \in ScopePlaces(r, s) : \E m, d \in Nat : p = << r, s, m, d >>
                 /\ \A m \in DOMAIN ScopeAt(r, s).metrics :
                       \A p \in MetricPlaces(r, s, m) : \E d \in Nat : p = << r, s, m, d >>
<1>1. ASSUME NEW s \in DOMAIN resourceMetrics[r].scopeMetrics,
             NEW m \in DOMAIN ScopeAt(r, s).metrics, NEW p \in MetricPlaces(r, s, m)
      PROVE  \E d \in Nat : p = << r, s, m, d >>
  <2>1. PICK d \in DOMAIN MetricAt(r, s, m).dataPoints : p = << r, s, m, d >>
    BY <1>1 DEF MetricPlaces
  <2>2. d \in Nat
    BY PartsAre
  <2> QED
    BY <2>1, <2>2
<1>2. ASSUME NEW s \in DOMAIN resourceMetrics[r].scopeMetrics, NEW p \in ScopePlaces(r, s)
      PROVE  \E m, d \in Nat : p = << r, s, m, d >>
  <2>1. PICK m \in DOMAIN ScopeAt(r, s).metrics : p \in MetricPlaces(r, s, m)
    BY DEF ScopePlaces
  <2>2. m \in Nat
    BY PartsAre
  <2> QED
    BY <1>1, <2>1, <2>2
<1>3. ASSUME NEW p \in ResourcePlaces(r)
      PROVE  \E s, m, d \in Nat : p = << r, s, m, d >>
  <2>1. PICK s \in DOMAIN resourceMetrics[r].scopeMetrics : p \in ScopePlaces(r, s)
    BY DEF ResourcePlaces
  <2>2. s \in Nat
    BY PartsAre
  <2> QED
    BY <1>2, <2>1, <2>2
<1> QED
  BY <1>1, <1>2, <1>3

\* The series of a data point of a well-formed request has all its fields.
LEMMA SeriesIsMetadata ==
    ASSUME NEW rm \in ResourceMetrics, NEW sm \in ScopeMetrics, NEW metric \in Metric,
           NEW dp \in NumberDataPoint
    PROVE  Series(rm, sm, metric, dp) \in SeriesMetadata
<1>1. /\ rm.resource \in Attributes /\ rm.schemaUrl \in Bytes
      /\ sm.scope \in Scope /\ sm.schemaUrl \in Bytes
      /\ dp.attributes \in Attributes
  BY DEF ResourceMetrics, ScopeMetrics, NumberDataPoint
<1>2. /\ sm.scope.name \in Bytes /\ sm.scope.version \in Bytes
      /\ sm.scope.attributes \in Attributes /\ sm.scope.dropped \in Nat
  BY <1>1 DEF Scope
<1>3. /\ metric.name \in Bytes /\ metric.description \in Bytes /\ metric.unit \in Bytes
      /\ metric.temporality \in Nat /\ metric.monotonic \in BOOLEAN
  BY DEF Metric
<1>4. /\ serviceName(rm.resource) \in Bytes /\ kvToMap(rm.resource) \in StringMap
      /\ kvToMap(sm.scope.attributes) \in StringMap /\ kvToMap(dp.attributes) \in StringMap
  BY <1>1, <1>2, ServiceNameIsString, MapOfStrings
<1>5. metricTypeSum \in Bytes /\ metricTypeGauge \in Bytes
  BY EncodeNumber DEF metricTypeSum, metricTypeGauge
<1>6. IsSum(metric) \in BOOLEAN
  BY DEF IsSum
<1> QED
  BY <1>1, <1>2, <1>3, <1>4, <1>5, <1>6 DEF Series, SeriesMetadata

\* The innermost loop: the data points of one metric.
LEMMA MetricRowsAre ==
    ASSUME resourceMetrics \in Seq(ResourceMetrics), NEW r \in DOMAIN resourceMetrics,
           NEW s \in DOMAIN resourceMetrics[r].scopeMetrics,
           NEW m \in DOMAIN ScopeAt(r, s).metrics
    PROVE  LET rows == IF IsSkipped(ScopeAt(r, s).metrics, m) THEN << >>
                       ELSE MetricRows(resourceMetrics[r], ScopeAt(r, s), MetricAt(r, s, m))
           IN  rows \in Seq(Row) /\ AreRowsOf(rows, MetricPlaces(r, s, m))
<1> DEFINE metric == MetricAt(r, s, m)
           dps == metric.dataPoints
           n == Len(dps)
           rows == MetricRows(resourceMetrics[r], ScopeAt(r, s), metric)
           places == [d \in 1..n |-> << r, s, m, d >>]
<1>1. /\ resourceMetrics[r] \in ResourceMetrics /\ ScopeAt(r, s) \in ScopeMetrics
      /\ metric \in Metric /\ dps \in Seq(NumberDataPoint)
      /\ \A d \in DOMAIN dps : d \in Nat /\ dps[d] \in NumberDataPoint
      /\ r \in Nat /\ s \in Nat /\ m \in Nat
  BY PartsAre
<1>2. n \in Nat /\ DOMAIN dps = 1..n
  BY <1>1, LenProperties
<1>3. IsSkipped(ScopeAt(r, s).metrics, m) <=> metric.kind = "other"
  <2>1. metric.kind \in {"gauge", "sum", "other"}
    BY <1>1 DEF Metric
  <2> QED
    BY <2>1 DEF IsSkipped, IsMapped, MetricAt
<1>4. CASE metric.kind = "other"
  <2>1. MetricPlaces(r, s, m) = {}
    BY <1>4 DEF MetricPlaces
  <2>2. << >> \in Seq(Row)
    BY EmptySeq
  <2> QED
    BY <1>3, <1>4, <2>1, <2>2, NoRows, Zenon
<1>5. CASE metric.kind # "other"
  <2>1. \A d \in 1..n : RowAt(places[d]) = [dp     |-> dps[d],
                                            series |-> Series(resourceMetrics[r], ScopeAt(r, s),
                                                              metric, dps[d])]
    <3> TAKE d \in 1..n
    <3> DEFINE p == places[d]
    <3>1. p[1] = r /\ p[2] = s /\ p[3] = m /\ p[4] = d
      OBVIOUS
    <3> HIDE DEF p
    <3> QED
      BY <3>1 DEF RowAt, DataPointAt, p
  <2>2. rows = [d \in 1..n |-> RowAt(places[d])]
    <3>1. rows = [d \in 1..n |-> [dp     |-> dps[d],
                                  series |-> Series(resourceMetrics[r], ScopeAt(r, s),
                                                    metric, dps[d])]]
      BY <1>2 DEF MetricRows
    <3> QED
      BY <2>1, <3>1
  <2>3. \A d \in 1..n : RowAt(places[d]) \in Row
    <3> TAKE d \in 1..n
    <3>1. dps[d] \in NumberDataPoint
      BY <1>1, <1>2
    <3>2. Series(resourceMetrics[r], ScopeAt(r, s), metric, dps[d]) \in SeriesMetadata
      BY <1>1, <3>1, SeriesIsMetadata
    <3> DEFINE x == dps[d]
               y == Series(resourceMetrics[r], ScopeAt(r, s), metric, dps[d])
    <3>3. RowAt(places[d]) = [dp |-> x, series |-> y]
      BY <2>1, Zenon
    <3>4. x \in NumberDataPoint /\ y \in SeriesMetadata
      BY <3>1, <3>2
    <3> HIDE DEF x, y, places
    <3>5. [dp |-> x, series |-> y] \in Row
      BY <3>4 DEF Row
    <3> QED
      BY <3>3, <3>5
  <2>4. rows \in Seq(Row)
    <3> HIDE DEF rows, places, n, Row
    <3>1. rows \in [1..n -> Row]
      BY <2>2, <2>3
    <3> QED
      BY <1>2, <3>1
  <2>5. MetricPlaces(r, s, m) = {places[d] : d \in 1..n}
    BY <1>2, <1>5 DEF MetricPlaces
  <2> DEFINE P == MetricPlaces(r, s, m)
  <2>6. places \in Seq(P) /\ Len(places) = n
    <3>1. places \in [1..n -> P]
      BY <2>5
    <3>2. DOMAIN places = 1..n
      OBVIOUS
    <3> HIDE DEF places, P, n
    <3> QED
      BY <1>2, <3>1, <3>2
  <2>7. \A k, l \in 1..n : k < l => Before(places[k], places[l])
    BY <1>1, <1>2, PlacesOrder
  <2>8. Range(places) = P
    BY <2>5 DEF Range
  <2> HIDE DEF places, P, n, rows
  <2>9. AreRowsOf(rows, P)
    BY <2>2, <2>6, <2>7, <2>8 DEF AreRowsOf
  <2> QED
    BY <1>3, <1>5, <2>4, <2>9 DEF rows, P
<1> QED
  BY <1>4, <1>5

\* The loop around it: the metrics of one scope.
LEMMA ScopeRowsAre ==
    ASSUME resourceMetrics \in Seq(ResourceMetrics), NEW r \in DOMAIN resourceMetrics,
           NEW s \in DOMAIN resourceMetrics[r].scopeMetrics
    PROVE  /\ ScopeRows(resourceMetrics[r], ScopeAt(r, s)) \in Seq(Row)
           /\ AreRowsOf(ScopeRows(resourceMetrics[r], ScopeAt(r, s)), ScopePlaces(r, s))
<1> DEFINE metrics == ScopeAt(r, s).metrics
           n == Len(metrics)
           parts == [m \in DOMAIN metrics |->
                        IF IsSkipped(metrics, m) THEN << >>
                        ELSE MetricRows(resourceMetrics[r], ScopeAt(r, s), metrics[m])]
           P == [m \in DOMAIN metrics |-> MetricPlaces(r, s, m)]
<1>1. n \in Nat /\ DOMAIN metrics = 1..n /\ r \in Nat /\ s \in Nat
  BY PartsAre, LenProperties
<1>2. \A m \in 1..n : parts[m] \in Seq(Row) /\ AreRowsOf(parts[m], P[m])
  BY <1>1, MetricRowsAre DEF MetricAt
<1>3. ASSUME NEW i \in 1..n, NEW j \in 1..n, i < j, NEW p \in P[i], NEW q \in P[j]
      PROVE  Before(p, q)
  <2>0. /\ i \in DOMAIN ScopeAt(r, s).metrics /\ j \in DOMAIN ScopeAt(r, s).metrics
        /\ i \in Nat /\ j \in Nat
        /\ p \in MetricPlaces(r, s, i) /\ q \in MetricPlaces(r, s, j)
    BY <1>1
  <2> HIDE DEF metrics, n, parts, P
  <2>1. PICK c \in Nat : p = << r, s, i, c >>
    BY <2>0, PlacesAre
  <2>2. PICK d \in Nat : q = << r, s, j, d >>
    BY <2>0, PlacesAre
  <2>3. Before(<< r, s, i, c >>, << r, s, j, d >>)
    BY <1>1, <1>3, <2>0, PlacesOrder
  <2> QED
    BY <2>1, <2>2, <2>3
<1>4. ScopePlaces(r, s) = UNION {P[m] : m \in 1..n}
  BY <1>1 DEF ScopePlaces
<1>5. ScopeRows(resourceMetrics[r], ScopeAt(r, s)) = FlattenSeq(parts)
  BY DEF ScopeRows
<1>6. parts \in Seq(Seq(Row)) /\ Len(parts) = n
  <2>1. DOMAIN parts = 1..n /\ parts = [m \in DOMAIN parts |-> parts[m]]
    BY <1>1
  <2> HIDE DEF parts, Row, n
  <2>2. parts \in [1..n -> Seq(Row)]
    BY <1>2, <2>1
  <2> QED
    BY <1>1, <2>1, <2>2
<1> HIDE DEF parts, P, n, metrics
<1>7. AreRowsOf(FlattenSeq(parts), UNION {P[m] : m \in 1..n})
  BY <1>2, <1>3, <1>6, RowsFlatten
<1> QED
  BY <1>4, <1>5, <1>6, <1>7, FlattenType

\* The scopes of one resource.
LEMMA ResourceRowsAre ==
    ASSUME resourceMetrics \in Seq(ResourceMetrics), NEW r \in DOMAIN resourceMetrics
    PROVE  /\ ResourceRows(resourceMetrics[r]) \in Seq(Row)
           /\ AreRowsOf(ResourceRows(resourceMetrics[r]), ResourcePlaces(r))
<1> DEFINE scopes == resourceMetrics[r].scopeMetrics
           n == Len(scopes)
           parts == [s \in DOMAIN scopes |-> ScopeRows(resourceMetrics[r], scopes[s])]
           P == [s \in DOMAIN scopes |-> ScopePlaces(r, s)]
<1>1. n \in Nat /\ DOMAIN scopes = 1..n /\ r \in Nat
  BY PartsAre, LenProperties
<1>2. \A s \in 1..n : parts[s] \in Seq(Row) /\ AreRowsOf(parts[s], P[s])
  BY <1>1, ScopeRowsAre DEF ScopeAt
<1>3. ASSUME NEW i \in 1..n, NEW j \in 1..n, i < j, NEW p \in P[i], NEW q \in P[j]
      PROVE  Before(p, q)
  <2>0. /\ i \in DOMAIN resourceMetrics[r].scopeMetrics
        /\ j \in DOMAIN resourceMetrics[r].scopeMetrics
        /\ i \in Nat /\ j \in Nat
        /\ p \in ScopePlaces(r, i) /\ q \in ScopePlaces(r, j)
    BY <1>1
  <2> HIDE DEF scopes, n, parts, P
  <2>1. PICK a \in Nat, c \in Nat : p = << r, i, a, c >>
    BY <2>0, PlacesAre
  <2>2. PICK b \in Nat, d \in Nat : q = << r, j, b, d >>
    BY <2>0, PlacesAre
  <2>3. Before(<< r, i, a, c >>, << r, j, b, d >>)
    BY <1>1, <1>3, <2>0, PlacesOrder
  <2> QED
    BY <2>1, <2>2, <2>3
<1>4. ResourcePlaces(r) = UNION {P[s] : s \in 1..n}
  BY <1>1 DEF ResourcePlaces
<1>5. ResourceRows(resourceMetrics[r]) = FlattenSeq(parts)
  BY DEF ResourceRows
<1>6. parts \in Seq(Seq(Row)) /\ Len(parts) = n
  <2>1. DOMAIN parts = 1..n /\ parts = [s \in DOMAIN parts |-> parts[s]]
    BY <1>1
  <2> HIDE DEF parts, Row, n
  <2>2. parts \in [1..n -> Seq(Row)]
    BY <1>2, <2>1
  <2> QED
    BY <1>1, <2>1, <2>2
<1> HIDE DEF parts, P, n, scopes
<1>7. AreRowsOf(FlattenSeq(parts), UNION {P[s] : s \in 1..n})
  BY <1>2, <1>3, <1>6, RowsFlatten
<1> QED
  BY <1>4, <1>5, <1>6, <1>7, FlattenType

\* All resources: the rows of a request are those of its places, in the order of the places.
LEMMA RowsAre ==
    ASSUME resourceMetrics \in Seq(ResourceMetrics)
    PROVE  Rows(resourceMetrics) \in Seq(Row) /\ AreRowsOf(Rows(resourceMetrics), Places)
<1> DEFINE n == Len(resourceMetrics)
           parts == [r \in DOMAIN resourceMetrics |-> ResourceRows(resourceMetrics[r])]
           P == [r \in DOMAIN resourceMetrics |-> ResourcePlaces(r)]
<1>1. n \in Nat /\ DOMAIN resourceMetrics = 1..n
  BY LenProperties
<1>2. \A r \in 1..n : parts[r] \in Seq(Row) /\ AreRowsOf(parts[r], P[r])
  BY <1>1, ResourceRowsAre
<1>3. ASSUME NEW i \in 1..n, NEW j \in 1..n, i < j, NEW p \in P[i], NEW q \in P[j]
      PROVE  Before(p, q)
  <2>0. /\ i \in DOMAIN resourceMetrics /\ j \in DOMAIN resourceMetrics /\ i \in Nat /\ j \in Nat
        /\ p \in ResourcePlaces(i) /\ q \in ResourcePlaces(j)
    BY <1>1
  <2> HIDE DEF n, parts, P
  <2>1. PICK a \in Nat, c \in Nat, e \in Nat : p = << i, a, c, e >>
    BY <2>0, PlacesAre
  <2>2. PICK b \in Nat, d \in Nat, f \in Nat : q = << j, b, d, f >>
    BY <2>0, PlacesAre
  <2>3. Before(<< i, a, c, e >>, << j, b, d, f >>)
    BY <1>1, <1>3, <2>0, PlacesOrder
  <2> QED
    BY <2>1, <2>2, <2>3
<1>4. Places = UNION {P[r] : r \in 1..n}
  BY <1>1 DEF Places
<1>5. Rows(resourceMetrics) = FlattenSeq(parts)
  BY DEF Rows
<1>6. parts \in Seq(Seq(Row)) /\ Len(parts) = n
  <2>1. DOMAIN parts = 1..n /\ parts = [r \in DOMAIN parts |-> parts[r]]
    BY <1>1
  <2> HIDE DEF parts, Row, n
  <2>2. parts \in [1..n -> Seq(Row)]
    BY <1>2, <2>1
  <2> QED
    BY <1>1, <2>1, <2>2
<1> HIDE DEF parts, P, n
<1>7. AreRowsOf(FlattenSeq(parts), UNION {P[r] : r \in 1..n})
  BY <1>2, <1>3, <1>6, RowsFlatten
<1> QED
  BY <1>4, <1>5, <1>6, <1>7, FlattenType

\* A sequence in which every element stands before the next is its elements, sorted.
LEMMA SortedIs ==
    ASSUME NEW P \in SUBSET Bytes, NEW s \in Seq(P), Range(s) = P,
           \A k, l \in 1..Len(s) : k < l => Before(s[k], s[l])
    PROVE  Sorted(P) = s
<1> DEFINE n == Len(s)
<1>1. n \in Nat /\ DOMAIN s = 1..n /\ s = [i \in 1..n |-> s[i]]
      /\ \A i \in 1..n : s[i] \in P
  <2>1. n \in Nat /\ DOMAIN s = 1..n /\ s \in [1..n -> P]
    BY LenProperties
  <2> QED
    BY <2>1
<1>2. \A i, j \in 1..n : Before(s[j], s[i]) <=> j < i
  <2> TAKE i, j \in 1..n
  <2>1. s[i] \in Bytes /\ s[j] \in Bytes /\ i \in Nat /\ j \in Nat
    BY <1>1
  <2>2. j < i \/ j = i \/ i < j
    BY <2>1
  <2>3. CASE j < i
    BY <2>3
  <2>4. CASE j = i
    BY <2>1, <2>4, BeforeIsTotal
  <2>5. CASE i < j
    <3>1. Before(s[i], s[j]) /\ ~ (j < i)
      BY <2>1, <2>5
    <3>2. ~ Before(s[j], s[i])
      BY <2>1, <3>1, BeforeIsTransitive, BeforeIsTotal
    <3> QED
      BY <3>1, <3>2
  <2> QED
    BY <2>2, <2>3, <2>4, <2>5
<1>3. \A i, j \in 1..n : s[i] = s[j] => i = j
  <2> TAKE i, j \in 1..n
  <2>1. i \in Nat /\ j \in Nat /\ s[i] \in Bytes
    BY <1>1
  <2>2. ~ Before(s[i], s[i])
    BY <2>1, BeforeIsTotal
  <2>3. s[i] = s[j] => ~ (i < j) /\ ~ (j < i)
    BY <1>2, <2>2
  <2> QED
    BY <2>1, <2>3
<1>4. IsFiniteSet(P) /\ Cardinality(P) = n
  <2>1. IsInjective(s)
    BY <1>1, <1>3 DEF IsInjective
  <2> QED
    BY <2>1, CardinalityOfRange
<1>5. \A i \in 1..n : Rank(P, s[i]) = i - 1
  <2> TAKE i \in 1..n
  <2> DEFINE f == [j \in 1..(i - 1) |-> s[j]]
  <2>1. \A j \in 1..(i - 1) : j \in 1..n /\ j < i /\ f[j] = s[j]
    BY <1>1
  <2>2. \A j \in 1..n : j < i => j \in 1..(i - 1)
    BY <1>1
  <2>3. f \in Seq(P) /\ Len(f) = i - 1 /\ DOMAIN f = 1..(i - 1)
    <3>1. i - 1 \in Nat /\ f \in [1..(i - 1) -> P]
      BY <1>1, <2>1
    <3>2. DOMAIN f = 1..(i - 1)
      OBVIOUS
    <3> HIDE DEF f
    <3> QED
      BY <3>1, <3>2
  <2>4. IsInjective(f)
    BY <1>3, <2>1, <2>3 DEF IsInjective
  <2>5. {l \in P : Before(l, s[i])} = Range(f)
    <3>1. ASSUME NEW l \in P, Before(l, s[i]) PROVE l \in Range(f)
      <4>1. PICK j \in 1..n : l = s[j]
        BY <1>1 DEF Range
      <4>2. j < i
        BY <1>2, <3>1, <4>1
      <4> QED
        BY <2>1, <2>2, <2>3, <4>1, <4>2 DEF Range
    <3>2. ASSUME NEW l \in Range(f) PROVE l \in P /\ Before(l, s[i])
      <4>1. PICK j \in 1..(i - 1) : l = f[j]
        BY <2>3 DEF Range
      <4> QED
        BY <1>1, <1>2, <2>1, <4>1
    <3> QED
      BY <3>1, <3>2
  <2>6. Cardinality(Range(f)) = i - 1
    BY <2>3, <2>4, CardinalityOfRange
  <2> QED
    BY <2>5, <2>6 DEF Rank
<1>6. \A i \in 1..n : \A k \in P : Rank(P, k) = i - 1 <=> k = s[i]
  BY <1>1, <1>4, <1>5, RankIsPlace
<1>7. \A i \in 1..n : (CHOOSE k \in P : Rank(P, k) = i - 1) = s[i]
  BY <1>1, <1>6
<1>8. Sorted(P) = [i \in 1..n |-> CHOOSE k \in P : Rank(P, k) = i - 1]
  BY <1>4 DEF Sorted, Rank
<1> HIDE DEF n
<1>9. Sorted(P) = [i \in 1..n |-> s[i]]
  BY <1>7, <1>8
<1> QED
  BY <1>1, <1>9

\* Row by row, the request is what stands at its places in their order.
LEMMA RowsFollowPlaces ==
    ASSUME resourceMetrics \in Seq(ResourceMetrics)
    PROVE  LET places == Sorted(Places)
           IN  /\ Len(Rows(resourceMetrics)) \in Nat
               /\ Len(places) = Len(Rows(resourceMetrics))
               /\ \A i \in 1..Len(Rows(resourceMetrics)) :
                     /\ places[i] \in Places
                     /\ Rows(resourceMetrics)[i] \in Row
                     /\ Rows(resourceMetrics)[i] = RowAt(places[i])
<1> DEFINE rows == Rows(resourceMetrics)
<1>1. rows \in Seq(Row)
  BY RowsAre
<1>2. PICK places \in Seq(Places) :
         /\ rows = [k \in 1..Len(places) |-> RowAt(places[k])]
         /\ Range(places) = Places
         /\ \A k, l \in 1..Len(places) : k < l => Before(places[k], places[l])
  BY RowsAre DEF AreRowsOf
<1>3. Places \in SUBSET Bytes
  <2> SUFFICES ASSUME NEW r \in DOMAIN resourceMetrics, NEW p \in ResourcePlaces(r)
               PROVE  p \in Bytes
    BY DEF Places
  <2>1. PICK s \in Nat, m \in Nat, d \in Nat : p = << r, s, m, d >>
    BY PlacesAre
  <2>2. r \in Nat
    BY PartsAre
  <2> QED
    BY <2>1, <2>2, PlacesOrder
<1>4. Sorted(Places) = places
  BY <1>2, <1>3, SortedIs
<1> HIDE DEF rows
<1>5. Len(places) \in Nat /\ Len(rows) = Len(places)
  BY <1>2, LenProperties
<1>6. \A i \in 1..Len(rows) : places[i] \in Places /\ rows[i] \in Row /\ rows[i] = RowAt(places[i])
  BY <1>1, <1>2, <1>5, ElementOfSeq
<1> QED
  BY <1>4, <1>5, <1>6 DEF rows

-----------------------------------------------------------------------------
(***************************************************************************)
(* The run: the invariant and the theorems that follow from it.            *)
(***************************************************************************)
MappedPoint == [Fingerprint : Bytes, StartTimeUnix : Int, TimeUnix : Int, Value : Int, Flags : Nat]
MetadataRow == [Fingerprint : Bytes, Series : SeriesMetadata]

\* The digest is fed with bytes.
LEMMA FingerprintIsString ==
    ASSUME NEW s \in SeriesMetadata, NEW ranging \in Rangings(s)
    PROVE  fingerprintSeries(s, ranging) \in Bytes
<1>1. \A a \in Bytes : hashString(a) \in Bytes
  BY EncodeString
<1>2. \A n \in Nat : hashUint32(n) \in Bytes
  BY EncodeNumber DEF hashUint32
<1>3. \A b \in BOOLEAN : hashBool(b) \in Bytes
  BY EncodeBool
<1>4. \A m \in StringMap : \A keys \in SetToSeqs(DOMAIN m) : hashMap(m, keys) \in Bytes
  BY EncodeMap
<1>5. /\ s.MetricType \in Bytes /\ s.ServiceName \in Bytes /\ s.ResourceSchemaUrl \in Bytes
      /\ s.ScopeName \in Bytes /\ s.ScopeVersion \in Bytes /\ s.ScopeSchemaUrl \in Bytes
      /\ s.MetricName \in Bytes /\ s.MetricDescription \in Bytes /\ s.MetricUnit \in Bytes
      /\ s.ScopeDroppedAttrCount \in Nat /\ s.AggregationTemporality \in Nat
      /\ s.IsMonotonic \in BOOLEAN
      /\ s.ResourceAttributes \in StringMap /\ s.ScopeAttributes \in StringMap
      /\ s.Attributes \in StringMap
  BY DEF SeriesMetadata
<1>6. /\ ranging.resource \in SetToSeqs(DOMAIN s.ResourceAttributes)
      /\ ranging.scope \in SetToSeqs(DOMAIN s.ScopeAttributes)
      /\ ranging.attributes \in SetToSeqs(DOMAIN s.Attributes)
  BY DEF Rangings
<1>7. \A a, b \in Bytes : a \o b \in Bytes
  BY BytesConcat
<1> QED
  BY <1>1, <1>2, <1>3, <1>4, <1>5, <1>6, <1>7, Zenon DEF fingerprintSeries

\* nanosToTime keeps the 64 bits.
LEMMA TimesAreRepresented ==
    ASSUME NEW nanos \in Nanos
    PROVE  nanosToTime(nanos) \in Int /\ Represents(nanosToTime(nanos), nanos)
BY TimeAssumption DEF Nanos, nanosToTime, Represents

\* What a point is made of.
LEMMA PointIsMade ==
    ASSUME NEW fingerprint \in Bytes, NEW dp \in NumberDataPoint
    PROVE  /\ DataPoint(fingerprint, dp) \in MappedPoint
           /\ DataPoint(fingerprint, dp).Fingerprint = fingerprint
           /\ IsMadeFrom(DataPoint(fingerprint, dp), dp)
<1>1. dp.start \in Nanos /\ dp.time \in Nanos /\ dp.value \in Number /\ dp.flags \in Nat
  BY DEF NumberDataPoint
<1>2. numberDataPointValue(dp) \in Int
  BY <1>1 DEF numberDataPointValue, Number
<1>3. dp.value.kind # "none" => numberDataPointValue(dp) = dp.value.number
  BY DEF numberDataPointValue
<1> QED
  BY <1>1, <1>2, <1>3, TimesAreRepresented DEF DataPoint, MappedPoint, IsMadeFrom

(***************************************************************************)
(* What holds while the request is mapped.  The sets of fingerprints are   *)
(* needed for a step to see what is new; that a metadata row is the series *)
(* of one of the points, for the rows to be interchangeable.               *)
(***************************************************************************)
Mapped(rows, pts, meta, seen) ==
    /\ pts \in Seq(MappedPoint) /\ meta \in Seq(MetadataRow)
    /\ Len(pts) <= Len(rows)
    /\ \A i \in 1..Len(pts) : \E ranging \in Rangings(rows[i].series) :
          pts[i] = DataPoint(fingerprintSeries(rows[i].series, ranging), rows[i].dp)
    /\ \A k \in 1..Len(meta) : \E i \in 1..Len(pts) :
          meta[k] = [Fingerprint |-> pts[i].Fingerprint, Series |-> rows[i].series]
    /\ seen = {pts[i].Fingerprint : i \in 1..Len(pts)}
    /\ seen = {meta[k].Fingerprint : k \in 1..Len(meta)}
    /\ \A k, l \in 1..Len(meta) : meta[k].Fingerprint = meta[l].Fingerprint => k = l
    /\ Len(meta) <= Len(pts)

MapInv ==
    /\ resourceMetrics \in Requests
    /\ Mapped(Rows(resourceMetrics), points, metadata, seenFingerprints)
    /\ returned => Len(points) = Len(Rows(resourceMetrics))

\* A step maps the next row.
LEMMA MapDataPointKeepsMapInv ==
    ASSUME MapInv, MapDataPoint
    PROVE  MapInv'
<1> DEFINE rows == Rows(resourceMetrics)
           n == Len(points)
           m == Len(metadata)
           row == rows[n + 1]
<1>1. /\ resourceMetrics \in Requests /\ points \in Seq(MappedPoint)
      /\ metadata \in Seq(MetadataRow) /\ n \in Nat /\ m \in Nat
  BY LenProperties DEF MapInv, Mapped
<1>2. resourceMetrics \in Seq(ResourceMetrics)
  BY <1>1, RequestsAssumption
<1>3. n < Len(rows) /\ Len(rows) \in Nat /\ n + 1 \in 1..Len(rows)
  BY <1>1, <1>2, RowsFollowPlaces DEF MapDataPoint
<1>4. row \in Row
  BY <1>2, <1>3, RowsFollowPlaces
<1>5. row.dp \in NumberDataPoint /\ row.series \in SeriesMetadata
  BY <1>4 DEF Row
<1>6. PICK ranging \in Rangings(row.series) :
         LET fingerprint == fingerprintSeries(row.series, ranging)
         IN  /\ points' = Append(points, DataPoint(fingerprint, row.dp))
             /\ seenFingerprints' = seenFingerprints \cup {fingerprint}
             /\ metadata' = IF IsUnseen(fingerprint)
                            THEN Append(metadata, [Fingerprint |-> fingerprint,
                                                   Series      |-> row.series])
                            ELSE metadata
  BY DEF MapDataPoint
<1> DEFINE fingerprint == fingerprintSeries(row.series, ranging)
           point == DataPoint(fingerprint, row.dp)
           meta == [Fingerprint |-> fingerprint, Series |-> row.series]
<1>7. fingerprint \in Bytes
  BY <1>5, FingerprintIsString
<1> HIDE DEF fingerprint
<1>8. point \in MappedPoint /\ point.Fingerprint = fingerprint
  BY <1>5, <1>7, PointIsMade
<1>9. meta \in MetadataRow /\ meta.Fingerprint = fingerprint
  BY <1>5, <1>7 DEF MetadataRow
<1>10. /\ points' = Append(points, point)
       /\ seenFingerprints' = seenFingerprints \cup {fingerprint}
       /\ metadata' = IF fingerprint \notin seenFingerprints THEN Append(metadata, meta)
                      ELSE metadata
  BY <1>6 DEF IsUnseen, fingerprint
<1>11. resourceMetrics' = resourceMetrics /\ ~ returned'  /\ Rows(resourceMetrics)' = rows
  BY DEF MapDataPoint
<1>12. point = DataPoint(fingerprintSeries(row.series, ranging), row.dp)
  BY DEF fingerprint
<1> HIDE DEF rows, row, point, meta
<1>13. /\ points' \in Seq(MappedPoint) /\ Len(points') = n + 1 /\ points'[n + 1] = point
       /\ \A i \in 1..n : points'[i] = points[i]
  BY <1>1, <1>8, <1>10, AppendProperties
<1>14. \A i : i \in 1..(n + 1) <=> i \in 1..n \/ i = n + 1
  BY <1>1
<1>15. \A i \in 1..(n + 1) : \E order \in Rangings(rows[i].series) :
          points'[i] = DataPoint(fingerprintSeries(rows[i].series, order), rows[i].dp)
  <2> TAKE i \in 1..(n + 1)
  <2>1. CASE i \in 1..n
    <3>1. \E order \in Rangings(rows[i].series) :
             points[i] = DataPoint(fingerprintSeries(rows[i].series, order), rows[i].dp)
      BY <2>1 DEF MapInv, Mapped, rows
    <3> QED
      BY <1>13, <2>1, <3>1
  <2>2. CASE i = n + 1
    BY <1>12, <1>13, <2>2 DEF row
  <2> QED
    BY <1>14, <2>1, <2>2
<1>16. seenFingerprints' = {points'[i].Fingerprint : i \in 1..(n + 1)}
  <2>1. seenFingerprints = {points[i].Fingerprint : i \in 1..n}
    BY DEF MapInv, Mapped
  <2> QED
    BY <1>8, <1>10, <1>13, <1>14, <2>1
<1>17. ASSUME NEW k \in 1..m
       PROVE  \E i \in 1..(n + 1) :
                 metadata[k] = [Fingerprint |-> points'[i].Fingerprint, Series |-> rows[i].series]
  <2>1. PICK i \in 1..n :
           metadata[k] = [Fingerprint |-> points[i].Fingerprint, Series |-> rows[i].series]
    BY DEF MapInv, Mapped, rows
  <2> QED
    BY <1>13, <1>14, <2>1
<1>18. seenFingerprints = {metadata[k].Fingerprint : k \in 1..m}
  BY DEF MapInv, Mapped
<1>19. m <= n /\ \A k, l \in 1..m : metadata[k].Fingerprint = metadata[l].Fingerprint => k = l
  BY DEF MapInv, Mapped
<1> DEFINE Rest == /\ metadata' \in Seq(MetadataRow)
                   /\ \A k \in 1..Len(metadata') : \E i \in 1..(n + 1) :
                        metadata'[k] = [Fingerprint |-> points'[i].Fingerprint,
                                        Series      |-> rows[i].series]
                   /\ seenFingerprints' = {metadata'[k].Fingerprint : k \in 1..Len(metadata')}
                   /\ \A k, l \in 1..Len(metadata') :
                        metadata'[k].Fingerprint = metadata'[l].Fingerprint => k = l
                   /\ Len(metadata') <= n + 1
<1>20. ASSUME fingerprint \in seenFingerprints PROVE Rest
  <2>1. metadata' = metadata /\ seenFingerprints' = seenFingerprints
    BY <1>10, <1>20
  <2> QED
    BY <1>1, <1>17, <1>18, <1>19, <2>1
<1>21. ASSUME fingerprint \notin seenFingerprints PROVE Rest
  <2>1. /\ metadata' \in Seq(MetadataRow) /\ Len(metadata') = m + 1
        /\ metadata'[m + 1] = meta /\ \A k \in 1..m : metadata'[k] = metadata[k]
    BY <1>1, <1>9, <1>10, <1>21, AppendProperties
  <2>2. \A k : k \in 1..(m + 1) <=> k \in 1..m \/ k = m + 1
    BY <1>1
  <2>3. ASSUME NEW k \in 1..(m + 1)
        PROVE  \E i \in 1..(n + 1) :
                  metadata'[k] = [Fingerprint |-> points'[i].Fingerprint, Series |-> rows[i].series]
    <3>1. CASE k \in 1..m
      BY <1>17, <2>1, <3>1
    <3>2. CASE k = m + 1
      <4>1. meta = [Fingerprint |-> points'[n + 1].Fingerprint, Series |-> rows[n + 1].series]
        BY <1>8, <1>13 DEF meta, row
      <4> QED
        BY <1>14, <2>1, <3>2, <4>1
    <3> QED
      BY <2>2, <3>1, <3>2
  <2>4. seenFingerprints' = {metadata'[k].Fingerprint : k \in 1..(m + 1)}
    BY <1>9, <1>10, <1>18, <2>1, <2>2
  <2>5. \A k \in 1..m : metadata[k].Fingerprint # fingerprint
    BY <1>18, <1>21
  <2>6. ASSUME NEW k \in 1..(m + 1), NEW l \in 1..(m + 1),
               metadata'[k].Fingerprint = metadata'[l].Fingerprint
        PROVE  k = l
    <3>1. CASE k \in 1..m /\ l \in 1..m
      BY <1>19, <2>1, <2>6, <3>1
    <3>2. CASE k \in 1..m /\ l = m + 1
      BY <1>9, <2>1, <2>5, <2>6, <3>2
    <3>3. CASE k = m + 1 /\ l \in 1..m
      BY <1>9, <2>1, <2>5, <2>6, <3>3
    <3> QED
      BY <2>2, <3>1, <3>2, <3>3
  <2>7. Len(metadata') <= n + 1
    BY <1>1, <1>19, <2>1
  <2> QED
    BY <2>1, <2>3, <2>4, <2>6, <2>7
<1>22. Rest
  BY <1>20, <1>21
<1>23. Len(points') <= Len(rows)
  BY <1>1, <1>3, <1>13
<1> QED
  BY <1>1, <1>11, <1>13, <1>15, <1>16, <1>22, <1>23, Zenon DEF MapInv, Mapped, rows

\* MapInv is an invariant.
LEMMA MapInvariant == Spec => []MapInv
<1>1. Init => MapInv
  <2> SUFFICES ASSUME Init PROVE MapInv
    OBVIOUS
  <2>1. /\ resourceMetrics \in Requests /\ points = << >> /\ metadata = << >>
        /\ seenFingerprints = {} /\ returned = FALSE
    BY DEF Init
  <2>2. /\ << >> \in Seq(MappedPoint) /\ << >> \in Seq(MetadataRow) /\ Len(<< >>) = 0
        /\ \A i : i \notin 1..0
    OBVIOUS
  <2>3. 0 <= Len(Rows(resourceMetrics))
    BY <2>1, RequestsAssumption, RowsFollowPlaces
  <2> QED
    BY <2>1, <2>2, <2>3 DEF MapInv, Mapped
<1>2. MapInv /\ [Next]_vars => MapInv'
  <2> SUFFICES ASSUME MapInv, [Next]_vars PROVE MapInv'
    OBVIOUS
  <2>1. CASE MapDataPoint
    BY <2>1, MapDataPointKeepsMapInv
  <2>2. CASE Return
    <3>1. /\ resourceMetrics' = resourceMetrics /\ points' = points /\ metadata' = metadata
          /\ seenFingerprints' = seenFingerprints /\ Len(points) = Len(Rows(resourceMetrics))
      BY <2>2 DEF Return
    <3> QED
      BY <3>1, Zenon DEF MapInv
  <2>3. CASE UNCHANGED vars
    <3>1. /\ resourceMetrics' = resourceMetrics /\ points' = points /\ metadata' = metadata
          /\ seenFingerprints' = seenFingerprints /\ returned' = returned
      BY <2>3 DEF vars
    <3> QED
      BY <3>1, Zenon DEF MapInv
  <2> QED
    BY <2>1, <2>2, <2>3 DEF Next
<1> QED
  BY <1>1, <1>2, PTL DEF Spec

(***************************************************************************)
(* For every set of requests: the points are those of the gauges and sums  *)
(* of the request, one for one, in its order and with their times          *)
(* (metrics_mapper.go:65-67, 98-161).                                      *)
(***************************************************************************)
THEOREM PointsFollow == Spec => []PointsFollowRequest
<1>1. MapInv => PointsFollowRequest
  <2> SUFFICES ASSUME MapInv PROVE PointsFollowRequest
    OBVIOUS
  <2> DEFINE rows == Rows(resourceMetrics)
             places == Sorted(Places)
  <2>1. resourceMetrics \in Seq(ResourceMetrics)
    BY RequestsAssumption DEF MapInv
  <2>2. /\ Len(places) = Len(rows) /\ Len(rows) \in Nat
        /\ \A i \in 1..Len(rows) : rows[i] \in Row /\ rows[i] = RowAt(places[i])
    BY <2>1, RowsFollowPlaces
  <2>3. /\ Len(points) <= Len(rows) /\ (returned => Len(points) = Len(rows))
        /\ points \in Seq(MappedPoint) /\ Len(points) \in Nat /\ DOMAIN points = 1..Len(points)
    BY LenProperties DEF MapInv, Mapped
  <2>4. ASSUME NEW i \in 1..Len(points) PROVE IsMadeFrom(points[i], DataPointAt(places[i]))
    <3>1. i \in 1..Len(rows)
      BY <2>2, <2>3
    <3>2. PICK ranging \in Rangings(rows[i].series) :
             points[i] = DataPoint(fingerprintSeries(rows[i].series, ranging), rows[i].dp)
      BY DEF MapInv, Mapped
    <3> HIDE DEF rows, places
    <3>0. rows[i] \in Row /\ rows[i] = RowAt(places[i])
      BY <2>2, <3>1
    <3>3. rows[i] \in Row /\ rows[i].dp = DataPointAt(places[i])
      BY <3>0 DEF RowAt
    <3>4. rows[i].dp \in NumberDataPoint /\ rows[i].series \in SeriesMetadata
      BY <3>3 DEF Row
    <3>5. fingerprintSeries(rows[i].series, ranging) \in Bytes
      BY <3>4, FingerprintIsString
    <3>6. IsMadeFrom(points[i], rows[i].dp)
      BY <3>2, <3>4, <3>5, PointIsMade
    <3> QED
      BY <3>3, <3>6
  <2> HIDE DEF places, rows
  <2>5. /\ Len(points) <= Len(places)
        /\ returned => Len(points) = Len(places)
        /\ \A i \in DOMAIN points : IsMadeFrom(points[i], DataPointAt(places[i]))
    BY <2>2, <2>3, <2>4
  <2> QED
    BY <2>5 DEF PointsFollowRequest, places
<1> QED
  BY <1>1, MapInvariant, PTL

(***************************************************************************)
(* For every set of requests: no series is listed twice, and the series    *)
(* listed are those of the points (metrics_mapper.go:154-157).             *)
(***************************************************************************)
THEOREM SeriesAreListedOnce == Spec => []SeriesListedOnce
<1>1. MapInv => SeriesListedOnce
  <2> SUFFICES ASSUME MapInv PROVE SeriesListedOnce
    OBVIOUS
  <2>1. DOMAIN points = 1..Len(points) /\ DOMAIN metadata = 1..Len(metadata)
    BY LenProperties DEF MapInv, Mapped
  <2>2. \A k, l \in 1..Len(metadata) :
           metadata[k].Fingerprint = metadata[l].Fingerprint => k = l
    BY DEF MapInv, Mapped
  <2>3. {points[i].Fingerprint : i \in 1..Len(points)}
           = {metadata[k].Fingerprint : k \in 1..Len(metadata)}
    BY DEF MapInv, Mapped
  <2>4. Len(metadata) <= Len(points)
    BY DEF MapInv, Mapped
  <2>5. IsInjective(Fingerprints(metadata))
    BY <2>1, <2>2 DEF Fingerprints, IsInjective
  <2>6. /\ ToSet(Fingerprints(metadata)) = {metadata[k].Fingerprint : k \in 1..Len(metadata)}
        /\ ToSet(Fingerprints(points)) = {points[i].Fingerprint : i \in 1..Len(points)}
    BY <2>1 DEF ToSet, Fingerprints
  <2> QED
    BY <2>3, <2>4, <2>5, <2>6 DEF SeriesListedOnce
<1> QED
  BY <1>1, MapInvariant, PTL

\* Two points have one fingerprint exactly if their rows have one series.
LEMMA PointsShareFingerprint ==
    ASSUME MapInv, NEW i \in 1..Len(points), NEW j \in 1..Len(points)
    PROVE  points[i].Fingerprint = points[j].Fingerprint
              <=> Rows(resourceMetrics)[i].series = Rows(resourceMetrics)[j].series
<1> DEFINE rows == Rows(resourceMetrics)
<1>1. resourceMetrics \in Seq(ResourceMetrics) /\ Len(points) <= Len(rows) /\ Len(points) \in Nat
  BY RequestsAssumption, LenProperties DEF MapInv, Mapped
<1>2. ASSUME NEW k \in 1..Len(points)
      PROVE  /\ rows[k].series \in SeriesMetadata
             /\ \E ranging \in Rangings(rows[k].series) :
                   points[k].Fingerprint = fingerprintSeries(rows[k].series, ranging)
  <2>1. k \in 1..Len(rows)
    BY <1>1, RowsFollowPlaces
  <2>2. rows[k] \in Row
    BY <1>1, <2>1, RowsFollowPlaces
  <2>3. rows[k].dp \in NumberDataPoint /\ rows[k].series \in SeriesMetadata
    BY <2>2 DEF Row
  <2>4. PICK ranging \in Rangings(rows[k].series) :
           points[k] = DataPoint(fingerprintSeries(rows[k].series, ranging), rows[k].dp)
    BY DEF MapInv, Mapped
  <2>5. fingerprintSeries(rows[k].series, ranging) \in Bytes
    BY <2>3, FingerprintIsString
  <2>6. points[k].Fingerprint = fingerprintSeries(rows[k].series, ranging)
    BY <2>3, <2>4, <2>5, PointIsMade
  <2> QED
    BY <2>3, <2>6
<1>3. PICK r \in Rangings(rows[i].series) :
         points[i].Fingerprint = fingerprintSeries(rows[i].series, r)
  BY <1>2
<1>4. PICK q \in Rangings(rows[j].series) :
         points[j].Fingerprint = fingerprintSeries(rows[j].series, q)
  BY <1>2
<1>5. rows[i].series \in SeriesMetadata /\ rows[j].series \in SeriesMetadata
  BY <1>2
<1> QED
  BY <1>3, <1>4, <1>5, FingerprintIsIdentity

(***************************************************************************)
(* For every set of requests: any metadata row of a fingerprint is the     *)
(* series of all its points (clickhouse_schema.go:7-9).                    *)
(***************************************************************************)
THEOREM RowsAreInterchangeable == Spec => []DuplicatesAreInterchangeable
<1>1. MapInv => DuplicatesAreInterchangeable
  <2> SUFFICES ASSUME MapInv, NEW i \in DOMAIN points, NEW k \in DOMAIN metadata,
                      points[i].Fingerprint = metadata[k].Fingerprint
               PROVE  Rows(resourceMetrics)[i].series = metadata[k].Series
    BY DEF DuplicatesAreInterchangeable
  <2>1. i \in 1..Len(points) /\ k \in 1..Len(metadata)
    BY LenProperties DEF MapInv, Mapped
  <2>2. PICK j \in 1..Len(points) :
           metadata[k] = [Fingerprint |-> points[j].Fingerprint,
                          Series      |-> Rows(resourceMetrics)[j].series]
    BY <2>1 DEF MapInv, Mapped
  <2>3. points[i].Fingerprint = points[j].Fingerprint
    BY <2>2
  <2>4. Rows(resourceMetrics)[i].series = Rows(resourceMetrics)[j].series
    BY <2>1, <2>3, PointsShareFingerprint
  <2> QED
    BY <2>2, <2>4
<1> QED
  BY <1>1, MapInvariant, PTL

-----------------------------------------------------------------------------
(***************************************************************************)
(* Flat attributes: without nested lists the map of strings that kvToMap   *)
(* makes says of the attributes what they mean.                            *)
(***************************************************************************)
IsFlat(list) == \A i \in DOMAIN list : list[i].value.kind # "kvlist"

\* No resource, scope or data point of the request has a nested list.
IsFlatRequest(rms) ==
    \A r \in DOMAIN rms :
        /\ IsFlat(rms[r].resource)
        /\ \A s \in DOMAIN rms[r].scopeMetrics :
              /\ IsFlat(rms[r].scopeMetrics[s].scope.attributes)
              /\ \A m \in DOMAIN rms[r].scopeMetrics[s].metrics :
                    \A d \in DOMAIN rms[r].scopeMetrics[s].metrics[m].dataPoints :
                       IsFlat(rms[r].scopeMetrics[s].metrics[m].dataPoints[d].attributes)

\* The index of the last attribute of a key.
LEMMA LastOfKey ==
    ASSUME NEW list \in Attributes, NEW k, NEW i \in DOMAIN list, list[i].key = k,
           \A l \in DOMAIN list : list[l].key = k => l <= i
    PROVE  LET I == {l \in 1..Len(list) : list[l].key = k}
           IN  I # {} /\ Max(I) = i
<1> DEFINE I == {l \in 1..Len(list) : list[l].key = k}
<1>1. Len(list) \in Nat /\ DOMAIN list = 1..Len(list)
  BY LenProperties DEF Attributes
<1>2. i \in I /\ \A l \in I : i >= l
  BY <1>1
<1>3. \A x \in I : (\A y \in I : x >= y) => x = i
  BY <1>1, <1>2
<1>4. Max(I) = i
  BY <1>2, <1>3 DEF Max
<1> QED
  BY <1>2, <1>4

\* Of flat attributes the meanings are the entries of the map.
LEMMA MeaningsAreEntries ==
    ASSUME NEW list \in Attributes, IsFlat(list)
    PROVE  Meanings(list) = {<< k, kvToMap(list)[k] >> : k \in DOMAIN kvToMap(list)}
<1> DEFINE K == {list[i].key : i \in DOMAIN list}
           at(k) == LET I == {l \in 1..Len(list) : list[l].key = k}
                    IN  IF I # {} THEN Max(I) ELSE 0
           Lasts == {i \in DOMAIN list : \A l \in DOMAIN list : list[l].key = list[i].key => l <= i}
<1>1. Len(list) \in Nat /\ DOMAIN list = 1..Len(list)
  BY LenProperties DEF Attributes
<1>2. /\ DOMAIN kvToMap(list) = K
      /\ \A k \in K : kvToMap(list)[k] = anyValueToString(list[at(k)].value)
  BY DEF kvToMap, SelectLastInSeq
<1>3. \A i \in DOMAIN list : Meaning(list[i].value) = anyValueToString(list[i].value)
  BY DEF Meaning, IsFlat
<1>4. \A i \in Lasts : at(list[i].key) = i
  <2> TAKE i \in Lasts
  <2> DEFINE k == list[i].key
  <2>1. i \in DOMAIN list /\ list[i].key = k /\ \A l \in DOMAIN list : list[l].key = k => l <= i
    OBVIOUS
  <2> HIDE DEF k
  <2>2. at(k) = i
    BY <2>1, LastOfKey
  <2> HIDE DEF at
  <2> QED
    BY <2>2 DEF k
<1>5. \A k \in K : at(k) \in Lasts /\ list[at(k)].key = k
  <2> TAKE k \in K
  <2> DEFINE I == {i \in 1..Len(list) : list[i].key = k}
  <2>1. I # {} /\ I \in SUBSET (0..Len(list))
    BY <1>1
  <2>2. PICK i \in I : \A l \in I : i >= l
    BY <1>1, <2>1, GreatestExists
  <2>3. i \in DOMAIN list /\ list[i].key = k /\ \A l \in DOMAIN list : list[l].key = k => l <= i
    BY <1>1, <2>2
  <2>4. at(k) = i
    BY <2>3, LastOfKey
  <2> HIDE DEF at
  <2> QED
    BY <2>3, <2>4
<1> HIDE DEF at
<1>6. Meanings(list) = {<< list[i].key, Meaning(list[i].value) >> : i \in Lasts}
  BY DEF Meanings
<1> HIDE DEF Lasts
<1>7. \A i \in Lasts : i \in DOMAIN list /\ list[i].key \in K
  BY DEF Lasts
<1>8. ASSUME NEW i \in Lasts
      PROVE  << list[i].key, Meaning(list[i].value) >>
                \in {<< k, kvToMap(list)[k] >> : k \in DOMAIN kvToMap(list)}
  <2>1. kvToMap(list)[list[i].key] = Meaning(list[i].value)
    BY <1>2, <1>3, <1>4, <1>7
  <2> QED
    BY <1>2, <1>7, <2>1
<1>9. ASSUME NEW k \in DOMAIN kvToMap(list)
      PROVE  \E i \in Lasts : << k, kvToMap(list)[k] >> = << list[i].key, Meaning(list[i].value) >>
  BY <1>2, <1>3, <1>5, <1>7
<1> QED
  BY <1>6, <1>8, <1>9

\* So they tell the same lists apart.
LEMMA MeaningsAreMaps ==
    ASSUME NEW a \in Attributes, NEW b \in Attributes, IsFlat(a), IsFlat(b)
    PROVE  Meanings(a) = Meanings(b) <=> kvToMap(a) = kvToMap(b)
<1> DEFINE f == kvToMap(a)
           g == kvToMap(b)
           Entries(h) == {<< k, h[k] >> : k \in DOMAIN h}
<1>1. Meanings(a) = Entries(f) /\ Meanings(b) = Entries(g)
  BY MeaningsAreEntries
<1>2. f = [k \in DOMAIN f |-> f[k]] /\ g = [k \in DOMAIN g |-> g[k]]
  BY DEF kvToMap
<1> HIDE DEF f, g
<1>3. ASSUME Entries(f) = Entries(g) PROVE f = g
  <2>1. ASSUME NEW k \in DOMAIN f PROVE k \in DOMAIN g /\ f[k] = g[k]
    <3>1. << k, f[k] >> \in Entries(g)
      BY <1>3
    <3>2. PICK l \in DOMAIN g : << k, f[k] >> = << l, g[l] >>
      BY <3>1
    <3> QED
      BY <3>2
  <2>2. ASSUME NEW k \in DOMAIN g PROVE k \in DOMAIN f
    <3>1. << k, g[k] >> \in Entries(f)
      BY <1>3
    <3>2. PICK l \in DOMAIN f : << k, g[k] >> = << l, f[l] >>
      BY <3>1
    <3> QED
      BY <3>2
  <2> QED
    BY <1>2, <2>1, <2>2
<1> QED
  BY <1>1, <1>3 DEF f, g

\* What stands at a place of a request.
LEMMA PlaceIs ==
    ASSUME resourceMetrics \in Seq(ResourceMetrics), NEW p \in Places
    PROVE  /\ resourceMetrics[p[1]] \in ResourceMetrics
           /\ ScopeAt(p[1], p[2]) \in ScopeMetrics
           /\ MetricAt(p[1], p[2], p[3]) \in Metric
           /\ MetricAt(p[1], p[2], p[3]).kind \in {"gauge", "sum"}
           /\ DataPointAt(p) \in NumberDataPoint
           /\ IsFlatRequest(resourceMetrics) =>
                 /\ IsFlat(resourceMetrics[p[1]].resource)
                 /\ IsFlat(ScopeAt(p[1], p[2]).scope.attributes)
                 /\ IsFlat(DataPointAt(p).attributes)
<1>1. PICK r \in DOMAIN resourceMetrics : p \in ResourcePlaces(r)
  BY DEF Places
<1>2. PICK s \in DOMAIN resourceMetrics[r].scopeMetrics : p \in ScopePlaces(r, s)
  BY <1>1 DEF ResourcePlaces
<1>3. PICK m \in DOMAIN ScopeAt(r, s).metrics : p \in MetricPlaces(r, s, m)
  BY <1>2 DEF ScopePlaces
<1>4. MetricAt(r, s, m).kind # "other"
  BY <1>3 DEF MetricPlaces
<1>5. PICK d \in DOMAIN MetricAt(r, s, m).dataPoints : p = << r, s, m, d >>
  BY <1>3, <1>4 DEF MetricPlaces
<1>6. p[1] = r /\ p[2] = s /\ p[3] = m /\ p[4] = d
  BY <1>5
<1>7. /\ resourceMetrics[r] \in ResourceMetrics /\ ScopeAt(r, s) \in ScopeMetrics
      /\ MetricAt(r, s, m) \in Metric
      /\ MetricAt(r, s, m).dataPoints[d] \in NumberDataPoint
  BY PartsAre
<1>8. MetricAt(r, s, m).kind \in {"gauge", "sum"}
  BY <1>4, <1>7 DEF Metric
<1>9. DataPointAt(p) = MetricAt(r, s, m).dataPoints[d]
  BY <1>6 DEF DataPointAt
<1>10. IsFlatRequest(resourceMetrics) =>
          /\ IsFlat(resourceMetrics[r].resource)
          /\ IsFlat(ScopeAt(r, s).scope.attributes)
          /\ IsFlat(MetricAt(r, s, m).dataPoints[d].attributes)
  BY DEF IsFlatRequest, ScopeAt, MetricAt
<1> QED
  BY <1>6, <1>7, <1>8, <1>9, <1>10

\* In a flat request two places belong to one series exactly if the rows say so.
LEMMA SeriesAreTold ==
    ASSUME resourceMetrics \in Seq(ResourceMetrics), IsFlatRequest(resourceMetrics),
           NEW p \in Places, NEW q \in Places
    PROVE  SeriesAt(p) = SeriesAt(q) <=> RowAt(p).series = RowAt(q).series
<1> DEFINE rm(x) == resourceMetrics[x[1]]
           sm(x) == ScopeAt(x[1], x[2])
           metric(x) == MetricAt(x[1], x[2], x[3])
           dp(x) == DataPointAt(x)
<1>1. ASSUME NEW x \in Places
      PROVE  /\ rm(x).resource \in Attributes /\ IsFlat(rm(x).resource)
             /\ sm(x).scope.attributes \in Attributes /\ IsFlat(sm(x).scope.attributes)
             /\ dp(x).attributes \in Attributes /\ IsFlat(dp(x).attributes)
             /\ metric(x).kind \in {"gauge", "sum"} /\ metric(x).monotonic \in BOOLEAN
  <2>1. /\ rm(x) \in ResourceMetrics /\ sm(x) \in ScopeMetrics /\ metric(x) \in Metric
        /\ dp(x) \in NumberDataPoint /\ metric(x).kind \in {"gauge", "sum"}
        /\ IsFlat(rm(x).resource) /\ IsFlat(sm(x).scope.attributes) /\ IsFlat(dp(x).attributes)
    BY PlaceIs
  <2> HIDE DEF rm, sm, metric, dp
  <2>2. rm(x).resource \in Attributes
    BY <2>1 DEF ResourceMetrics
  <2>3. sm(x).scope.attributes \in Attributes
    BY <2>1 DEF ScopeMetrics, Scope
  <2>4. dp(x).attributes \in Attributes
    BY <2>1 DEF NumberDataPoint
  <2>5. metric(x).monotonic \in BOOLEAN
    BY <2>1 DEF Metric
  <2> QED
    BY <2>1, <2>2, <2>3, <2>4, <2>5
<1> DEFINE Shared == /\ serviceName(rm(p).resource) = serviceName(rm(q).resource)
                     /\ rm(p).schemaUrl = rm(q).schemaUrl
                     /\ sm(p).scope.name = sm(q).scope.name
                     /\ sm(p).scope.version = sm(q).scope.version
                     /\ sm(p).scope.dropped = sm(q).scope.dropped
                     /\ sm(p).schemaUrl = sm(q).schemaUrl
                     /\ metric(p).name = metric(q).name
                     /\ metric(p).description = metric(q).description
                     /\ metric(p).unit = metric(q).unit
           SameKind == /\ metric(p).kind = metric(q).kind
                       /\ metric(p).kind = "sum" =>
                             /\ metric(p).temporality = metric(q).temporality
                             /\ metric(p).monotonic = metric(q).monotonic
           SameMeanings == /\ Meanings(rm(p).resource) = Meanings(rm(q).resource)
                           /\ Meanings(sm(p).scope.attributes) = Meanings(sm(q).scope.attributes)
                           /\ Meanings(dp(p).attributes) = Meanings(dp(q).attributes)
           SameMaps == /\ kvToMap(rm(p).resource) = kvToMap(rm(q).resource)
                       /\ kvToMap(sm(p).scope.attributes) = kvToMap(sm(q).scope.attributes)
                       /\ kvToMap(dp(p).attributes) = kvToMap(dp(q).attributes)
<1>2. SameMeanings <=> SameMaps
  BY <1>1, MeaningsAreMaps
<1> DEFINE Aggregation(x) == IF metric(x).kind = "sum"
                             THEN << metric(x).temporality, metric(x).monotonic >> ELSE << >>
<1>3. SeriesAt(p) = SeriesAt(q) <=> Shared /\ SameKind /\ SameMeanings
  <2>1. \A x \in Places : SeriesAt(x) =
           << serviceName(rm(x).resource), Meanings(rm(x).resource), rm(x).schemaUrl,
              sm(x).scope.name, sm(x).scope.version, Meanings(sm(x).scope.attributes),
              sm(x).scope.dropped, sm(x).schemaUrl, metric(x).kind, metric(x).name,
              metric(x).description, metric(x).unit, Aggregation(x),
              Meanings(dp(x).attributes) >>
    BY DEF SeriesAt
  <2>2. metric(p).kind = metric(q).kind => (Aggregation(p) = Aggregation(q) <=> SameKind)
    <3> HIDE DEF metric
    <3>1. ASSUME metric(p).kind = metric(q).kind, Aggregation(p) = Aggregation(q),
                 metric(p).kind = "sum"
          PROVE  /\ metric(p).temporality = metric(q).temporality
                 /\ metric(p).monotonic = metric(q).monotonic
      <4>1. << metric(p).temporality, metric(p).monotonic >>
               = << metric(q).temporality, metric(q).monotonic >>
        BY <3>1
      <4> QED
        BY <4>1
    <3>2. ASSUME metric(p).kind = metric(q).kind, SameKind
          PROVE  Aggregation(p) = Aggregation(q)
      BY <3>2
    <3> QED
      BY <3>1, <3>2
  <2> HIDE DEF rm, sm, metric, dp, Aggregation
  <2>3. ASSUME SeriesAt(p) = SeriesAt(q)
        PROVE  Shared /\ metric(p).kind = metric(q).kind /\ Aggregation(p) = Aggregation(q)
               /\ SameMeanings
    BY <2>1, <2>3
  <2>4. ASSUME Shared, metric(p).kind = metric(q).kind, Aggregation(p) = Aggregation(q),
               SameMeanings
        PROVE  SeriesAt(p) = SeriesAt(q)
    BY <2>1, <2>4, Zenon
  <2> QED
    BY <2>2, <2>3, <2>4
<1>4. RowAt(p).series = RowAt(q).series <=> Shared /\ SameKind /\ SameMaps
  <2>1. \A x \in Places : RowAt(x).series = Series(rm(x), sm(x), metric(x), dp(x))
    BY DEF RowAt
  <2>2. metricTypeSum # metricTypeGauge
    <3>1. metricTypeSum[1] = 115 /\ metricTypeGauge[1] = 103
      BY DEF metricTypeSum, metricTypeGauge
    <3> QED
      BY <3>1
  <2>3. /\ metric(p).kind \in {"gauge", "sum"} /\ metric(p).monotonic \in BOOLEAN
        /\ metric(q).kind \in {"gauge", "sum"} /\ metric(q).monotonic \in BOOLEAN
    BY <1>1
  <2> HIDE DEF rm, sm, metric, dp
  <2>4. ASSUME RowAt(p).series = RowAt(q).series PROVE Shared /\ SameKind /\ SameMaps
    <3> DEFINE s(x) == Series(rm(x), sm(x), metric(x), dp(x))
    <3>1. s(p) = s(q)
      BY <2>1, <2>4, Zenon
    <3>2. ASSUME NEW x \in {p, q}
          PROVE  /\ s(x).MetricType = (IF metric(x).kind = "sum" THEN metricTypeSum
                                       ELSE metricTypeGauge)
                 /\ s(x).ServiceName = serviceName(rm(x).resource)
                 /\ s(x).ResourceAttributes = kvToMap(rm(x).resource)
                 /\ s(x).ResourceSchemaUrl = rm(x).schemaUrl
                 /\ s(x).ScopeName = sm(x).scope.name
                 /\ s(x).ScopeVersion = sm(x).scope.version
                 /\ s(x).ScopeAttributes = kvToMap(sm(x).scope.attributes)
                 /\ s(x).ScopeDroppedAttrCount = sm(x).scope.dropped
                 /\ s(x).ScopeSchemaUrl = sm(x).schemaUrl
                 /\ s(x).MetricName = metric(x).name
                 /\ s(x).MetricDescription = metric(x).description
                 /\ s(x).MetricUnit = metric(x).unit
                 /\ s(x).Attributes = kvToMap(dp(x).attributes)
                 /\ s(x).AggregationTemporality = (IF metric(x).kind = "sum"
                                                   THEN metric(x).temporality ELSE 0)
                 /\ s(x).IsMonotonic = (metric(x).kind = "sum" /\ metric(x).monotonic)
      BY DEF Series, IsSum
    <3> HIDE DEF s
    <3>3. Shared /\ SameMaps
      BY <3>1, <3>2, Zenon
    <3>4. metric(p).kind = metric(q).kind
      BY <2>2, <2>3, <3>1, <3>2
    <3>5. metric(p).kind = "sum" => /\ metric(p).temporality = metric(q).temporality
                                    /\ metric(p).monotonic = metric(q).monotonic
      <4> SUFFICES ASSUME metric(p).kind = "sum"
                   PROVE  /\ metric(p).temporality = metric(q).temporality
                          /\ metric(p).monotonic = metric(q).monotonic
        OBVIOUS
      <4>1. metric(q).kind = "sum"
        BY <3>4
      <4>2. metric(p).temporality = metric(q).temporality
        BY <3>1, <3>2, <4>1
      <4>3. /\ s(p).IsMonotonic = (metric(p).kind = "sum" /\ metric(p).monotonic)
            /\ s(q).IsMonotonic = (metric(q).kind = "sum" /\ metric(q).monotonic)
        BY <3>2, Zenon
      <4>4. metric(p).monotonic <=> metric(q).monotonic
        BY <3>1, <4>1, <4>3, Zenon
      <4>5. metric(p).monotonic = metric(q).monotonic
        BY <2>3, <4>4
      <4> QED
        BY <4>2, <4>5
    <3> QED
      BY <3>3, <3>4, <3>5
  <2>5. ASSUME Shared, SameKind, SameMaps PROVE RowAt(p).series = RowAt(q).series
    <3>1. CASE metric(p).kind = "sum"
      <4>1. IsSum(metric(p)) /\ IsSum(metric(q))
        BY <2>5, <3>1 DEF IsSum
      <4>2. /\ metric(p).temporality = metric(q).temporality
            /\ metric(p).monotonic = metric(q).monotonic
        BY <2>5, <3>1
      <4> QED
        BY <2>1, <2>5, <4>1, <4>2 DEF Series
    <3>2. CASE metric(p).kind # "sum"
      <4>1. ~ IsSum(metric(p)) /\ ~ IsSum(metric(q))
        BY <2>5, <3>2 DEF IsSum
      <4> QED
        BY <2>1, <2>5, <4>1 DEF Series
    <3> QED
      BY <3>1, <3>2
  <2> QED
    BY <2>4, <2>5
<1> QED
  BY <1>2, <1>3, <1>4

(***************************************************************************)
(* For every set of requests without nested lists: two points share a      *)
(* fingerprint exactly if they belong to the same series, in whatever      *)
(* order attributes came or maps were ranged over                          *)
(* (metrics_mapper.go:165-189).                                            *)
(***************************************************************************)
THEOREM FingerprintIdentifies ==
    (\A rms \in Requests : IsFlatRequest(rms)) => (Spec => []FingerprintIdentifiesSeries)
<1> SUFFICES ASSUME \A rms \in Requests : IsFlatRequest(rms)
             PROVE  Spec => []FingerprintIdentifiesSeries
  OBVIOUS
<1>1. MapInv => FingerprintIdentifiesSeries
  <2> SUFFICES ASSUME MapInv, NEW i \in DOMAIN points, NEW j \in DOMAIN points
               PROVE  points[i].Fingerprint = points[j].Fingerprint
                         <=> SeriesAt(Sorted(Places)[i]) = SeriesAt(Sorted(Places)[j])
    BY DEF FingerprintIdentifiesSeries
  <2> DEFINE rows == Rows(resourceMetrics)
             places == Sorted(Places)
  <2>1. resourceMetrics \in Seq(ResourceMetrics) /\ IsFlatRequest(resourceMetrics)
    BY RequestsAssumption DEF MapInv
  <2>2. i \in 1..Len(points) /\ j \in 1..Len(points) /\ Len(points) <= Len(rows)
        /\ Len(points) \in Nat
    BY LenProperties DEF MapInv, Mapped
  <2>3. Len(rows) \in Nat /\ \A k \in 1..Len(rows) : places[k] \in Places
                                /\ rows[k] = RowAt(places[k])
    BY <2>1, RowsFollowPlaces
  <2>4. i \in 1..Len(rows) /\ j \in 1..Len(rows)
    BY <2>2, <2>3
  <2>5. points[i].Fingerprint = points[j].Fingerprint <=> rows[i].series = rows[j].series
    BY <2>2, PointsShareFingerprint
  <2>6. places[i] \in Places /\ places[j] \in Places
        /\ rows[i] = RowAt(places[i]) /\ rows[j] = RowAt(places[j])
    BY <2>3, <2>4
  <2> HIDE DEF rows, places
  <2>7. SeriesAt(places[i]) = SeriesAt(places[j])
           <=> RowAt(places[i]).series = RowAt(places[j]).series
    BY <2>1, <2>6, SeriesAreTold
  <2> QED
    BY <2>5, <2>6, <2>7 DEF places
<1> QED
  BY <1>1, MapInvariant, PTL
=============================================================================
