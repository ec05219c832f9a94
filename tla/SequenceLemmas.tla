--------------------------- MODULE SequenceLemmas ---------------------------
(***************************************************************************)
(* What the sequences of the models have to do with their elements: the    *)
(* range of a sequence, its repetitions, the order in it, its length, and  *)
(* the flattening of a sequence of sequences by induction.                 *)
(***************************************************************************)
EXTENDS Integers, Sequences, FiniteSets, Functions, SequencesExt, FiniteSetTheorems,
        SequenceTheorems, WellFoundedInduction, TLAPS

-----------------------------------------------------------------------------
(***************************************************************************)
(* Ranges of the sequences that the steps build.                           *)
(***************************************************************************)
LEMMA RangeOfEmpty == Range(<< >>) = {}
BY DEF Range

LEMMA RangeOfAppend ==
    ASSUME NEW S, NEW s \in Seq(S), NEW e \in S
    PROVE  Range(Append(s, e)) = Range(s) \cup {e}
<1>1. Append(s, e) = s \o << e >> /\ << e >> \in Seq(S)
  BY AppendIsConcat
<1>2. Range(<< e >>) = {e}
  BY DEF Range
<1>3. Range(s \o << e >>) = Range(s) \cup Range(<< e >>)
  BY <1>1, RangeConcatenation
<1> QED
  BY <1>1, <1>2, <1>3, Zenon

LEMMA RangeOfTail ==
    ASSUME NEW S, NEW s \in Seq(S), s # << >>
    PROVE  /\ Range(s) = {Head(s)} \cup Range(Tail(s))
           /\ Head(s) \in Range(s)
<1>1. /\ Len(s) \in Nat /\ Len(s) >= 1 /\ DOMAIN s = 1..Len(s) /\ Head(s) = s[1]
  BY LenProperties, EmptySeq
<1>2. /\ Tail(s) \in Seq(S) /\ Len(Tail(s)) = Len(s) - 1
      /\ \A i \in 1..Len(Tail(s)) : Tail(s)[i] = s[i + 1]
  BY HeadTailProperties
<1>3. DOMAIN Tail(s) = 1..(Len(s) - 1)
  BY <1>2, LenProperties
<1>4. Range(Tail(s)) \subseteq Range(s)
  BY <1>1, <1>2, <1>3 DEF Range
<1>5. ASSUME NEW i \in DOMAIN s, i # 1
      PROVE  s[i] \in Range(Tail(s))
  <2>1. i - 1 \in 1..(Len(s) - 1) /\ Tail(s)[i - 1] = s[i]
    BY <1>1, <1>2, <1>5
  <2> QED
    BY <2>1, <1>3 DEF Range
<1>6. Range(s) \subseteq {Head(s)} \cup Range(Tail(s))
  BY <1>1, <1>5 DEF Range
<1>7. Head(s) \in Range(s)
  BY <1>1 DEF Range
<1> QED
  BY <1>4, <1>6, <1>7

-----------------------------------------------------------------------------
(***************************************************************************)
(* Sequences without repetition.                                           *)
(***************************************************************************)
LEMMA InjectiveConcat ==
    ASSUME NEW S, NEW s \in Seq(S), NEW t \in Seq(S),
           IsInjective(s), IsInjective(t), Range(s) \cap Range(t) = {}
    PROVE  IsInjective(s \o t)
<1>1. /\ s \o t \in Seq(S) /\ Len(s \o t) = Len(s) + Len(t)
      /\ \A i \in 1..Len(s) + Len(t) :
            (s \o t)[i] = IF i <= Len(s) THEN s[i] ELSE t[i - Len(s)]
  BY ConcatProperties
<1>2. /\ Len(s) \in Nat /\ Len(t) \in Nat /\ DOMAIN s = 1..Len(s) /\ DOMAIN t = 1..Len(t)
      /\ DOMAIN (s \o t) = 1..Len(s) + Len(t)
  BY <1>1, LenProperties
<1>3. \A i \in 1..Len(s), j \in 1..Len(t) : s[i] # t[j]
  BY <1>2 DEF Range
<1> DEFINE u == s \o t
<1> SUFFICES ASSUME NEW i \in DOMAIN u, NEW j \in DOMAIN u, u[i] = u[j]
             PROVE  i = j
  BY DEF IsInjective
<1>4. CASE i <= Len(s) /\ j <= Len(s)
  BY <1>1, <1>2, <1>4 DEF IsInjective
<1>5. CASE i > Len(s) /\ j > Len(s)
  <2>1. i - Len(s) \in DOMAIN t /\ j - Len(s) \in DOMAIN t
    BY <1>2, <1>5
  <2>2. t[i - Len(s)] = t[j - Len(s)]
    BY <1>1, <1>2, <1>5
  <2>3. i - Len(s) = j - Len(s)
    BY <2>1, <2>2 DEF IsInjective
  <2> QED
    BY <2>3, <1>2
<1>6. ASSUME NEW a \in DOMAIN u, NEW b \in DOMAIN u, a <= Len(s), b > Len(s)
      PROVE  u[a] # u[b]
  <2>1. a \in 1..Len(s) /\ b - Len(s) \in 1..Len(t)
    BY <1>2, <1>6
  <2>2. u[a] = s[a] /\ u[b] = t[b - Len(s)]
    BY <1>1, <1>2, <1>6
  <2> QED
    BY <1>3, <2>1, <2>2
<1> QED
  BY <1>2, <1>4, <1>5, <1>6

LEMMA InjectiveAppend ==
    ASSUME NEW S, NEW s \in Seq(S), NEW e \in S, IsInjective(s), e \notin Range(s)
    PROVE  IsInjective(Append(s, e))
<1>1. Append(s, e) = s \o << e >> /\ << e >> \in Seq(S)
  BY AppendIsConcat
<1>2. Range(<< e >>) = {e} /\ IsInjective(<< e >>)
  BY DEF Range, IsInjective
<1>3. IsInjective(s \o << e >>)
  BY <1>1, <1>2, InjectiveConcat
<1> QED
  BY <1>1, <1>3

LEMMA InjectiveTail ==
    ASSUME NEW S, NEW s \in Seq(S), s # << >>, IsInjective(s)
    PROVE  IsInjective(Tail(s)) /\ Head(s) \notin Range(Tail(s))
<1>1. /\ Len(s) \in Nat /\ Len(s) >= 1 /\ DOMAIN s = 1..Len(s) /\ Head(s) = s[1]
  BY LenProperties, EmptySeq
<1>2. /\ DOMAIN Tail(s) = 1..(Len(s) - 1)
      /\ \A i \in 1..(Len(s) - 1) : Tail(s)[i] = s[i + 1]
  BY <1>1, HeadTailProperties, LenProperties
<1>3. \A i \in 1..(Len(s) - 1) : i + 1 \in DOMAIN s
  BY <1>1
<1>4. \A i, j \in DOMAIN Tail(s) : Tail(s)[i] = Tail(s)[j] => i = j
  <2> SUFFICES ASSUME NEW i \in DOMAIN Tail(s), NEW j \in DOMAIN Tail(s), Tail(s)[i] = Tail(s)[j]
               PROVE  i = j
    OBVIOUS
  <2>1. s[i + 1] = s[j + 1] /\ i + 1 \in DOMAIN s /\ j + 1 \in DOMAIN s
    BY <1>2, <1>3
  <2>2. i + 1 = j + 1
    BY <2>1 DEF IsInjective
  <2> QED
    BY <2>2, <1>2
<1>5. \A i \in DOMAIN Tail(s) : Tail(s)[i] # Head(s)
  <2> SUFFICES ASSUME NEW i \in DOMAIN Tail(s), Tail(s)[i] = Head(s)
               PROVE  FALSE
    OBVIOUS
  <2>1. s[i + 1] = s[1] /\ i + 1 \in DOMAIN s /\ 1 \in DOMAIN s
    BY <1>1, <1>2, <1>3
  <2>2. i + 1 = 1
    BY <2>1 DEF IsInjective
  <2> QED
    BY <2>2, <1>2
<1> QED
  BY <1>4, <1>5 DEF IsInjective, Range

-----------------------------------------------------------------------------
(***************************************************************************)
(* Order in a sequence.                                                    *)
(***************************************************************************)
Precedes(s, x, y) == \E i, j \in DOMAIN s : i < j /\ s[i] = x /\ s[j] = y

LEMMA PrecedesIsOrder ==
    ASSUME NEW S, NEW s \in Seq(S), NEW x, NEW y, IsInjective(s), Precedes(s, x, y)
    PROVE  x # y /\ x \in Range(s) /\ y \in Range(s)
<1>1. PICK i \in DOMAIN s, j \in DOMAIN s : i < j /\ s[i] = x /\ s[j] = y
  BY DEF Precedes
<1>2. i \in Nat /\ j \in Nat
  BY LenProperties
<1>3. i # j
  BY <1>1, <1>2
<1> QED
  BY <1>1, <1>3 DEF IsInjective, Range

LEMMA PrecedesInAppend ==
    ASSUME NEW S, NEW s \in Seq(S), NEW e \in S, NEW x, NEW y
    PROVE  Precedes(Append(s, e), x, y) <=> Precedes(s, x, y) \/ (x \in Range(s) /\ y = e)
<1> DEFINE t == Append(s, e)
           n == Len(s) + 1
<1>1. /\ Len(s) \in Nat /\ DOMAIN s = 1..Len(s) /\ DOMAIN t = 1..n
      /\ t[n] = e /\ \A i \in DOMAIN s : t[i] = s[i]
  BY AppendProperties, LenProperties
<1> HIDE DEF t
<1>2. Precedes(s, x, y) => Precedes(t, x, y)
  BY <1>1 DEF Precedes
<1>3. x \in Range(s) /\ y = e => Precedes(t, x, y)
  <2> SUFFICES ASSUME NEW i \in DOMAIN s, s[i] = x, y = e
               PROVE  Precedes(t, x, y)
    BY DEF Range
  <2>1. i \in DOMAIN t /\ n \in DOMAIN t /\ i < n /\ t[i] = x /\ t[n] = y
    BY <1>1
  <2> QED
    BY <2>1 DEF Precedes
<1>4. Precedes(t, x, y) => Precedes(s, x, y) \/ (x \in Range(s) /\ y = e)
  <2> SUFFICES ASSUME NEW i \in DOMAIN t, NEW j \in DOMAIN t, i < j, t[i] = x, t[j] = y
               PROVE  Precedes(s, x, y) \/ (x \in Range(s) /\ y = e)
    BY DEF Precedes
  <2>1. i \in DOMAIN s /\ s[i] = x
    BY <1>1
  <2>2. CASE j = n
    BY <1>1, <2>1, <2>2 DEF Range
  <2>3. CASE j # n
    <3>1. j \in DOMAIN s /\ s[j] = y
      BY <1>1, <2>3
    <3> QED
      BY <2>1, <3>1 DEF Precedes
  <2> QED
    BY <2>2, <2>3
<1> QED
  BY <1>2, <1>3, <1>4 DEF t

\* Nothing comes before the first element, and the others keep their order.
LEMMA PrecedesInTail ==
    ASSUME NEW S, NEW s \in Seq(S), s # << >>, IsInjective(s), NEW x, NEW y, Precedes(s, x, y)
    PROVE  y # Head(s) /\ (x # Head(s) => Precedes(Tail(s), x, y))
<1>1. PICK i \in DOMAIN s, j \in DOMAIN s : i < j /\ s[i] = x /\ s[j] = y
  BY DEF Precedes
<1>2. /\ Len(s) \in Nat /\ Len(s) >= 1 /\ DOMAIN s = 1..Len(s) /\ Head(s) = s[1]
  BY LenProperties, EmptySeq
<1>3. /\ DOMAIN Tail(s) = 1..(Len(s) - 1)
      /\ \A k \in 1..(Len(s) - 1) : Tail(s)[k] = s[k + 1]
  BY <1>2, HeadTailProperties, LenProperties
<1>4. y # Head(s)
  <2>1. 1 \in DOMAIN s /\ j # 1
    BY <1>1, <1>2
  <2> QED
    BY <1>1, <1>2, <2>1 DEF IsInjective
<1>5. ASSUME x # Head(s)
      PROVE  Precedes(Tail(s), x, y)
  <2>1. i # 1
    BY <1>1, <1>2, <1>5
  <2>2. /\ i - 1 \in DOMAIN Tail(s) /\ j - 1 \in DOMAIN Tail(s) /\ i - 1 < j - 1
        /\ Tail(s)[i - 1] = x /\ Tail(s)[j - 1] = y
    BY <1>1, <1>2, <1>3, <2>1
  <2> QED
    BY <2>2 DEF Precedes
<1> QED
  BY <1>4, <1>5

-----------------------------------------------------------------------------
(***************************************************************************)
(* Counting.                                                               *)
(***************************************************************************)
LEMMA CardinalityOfRange ==
    ASSUME NEW S, NEW s \in Seq(S)
    PROVE  /\ IsFiniteSet(Range(s))
           /\ IsInjective(s) => Cardinality(Range(s)) = Len(s)
<1>1. Len(s) \in Nat /\ DOMAIN s = 1..Len(s) /\ s \in [1..Len(s) -> S]
  BY LenProperties
<1>2. s \in Surjection(1..Len(s), Range(s))
  BY <1>1 DEF Surjection, Range
<1>3. IsFiniteSet(1..Len(s)) /\ Cardinality(1..Len(s)) = Len(s)
  BY <1>1, FS_Interval
<1>4. IsInjective(s) => s \in Injection(1..Len(s), Range(s))
  BY <1>1, <1>2 DEF Surjection, Injection
<1> QED
  BY <1>2, <1>3, <1>4, FS_Surjection

LEMMA DisjointUnion ==
    ASSUME NEW S, NEW T, IsFiniteSet(S), IsFiniteSet(T), S \cap T = {}
    PROVE  IsFiniteSet(S \cup T) /\ Cardinality(S \cup T) = Cardinality(S) + Cardinality(T)
<1>1. Cardinality(S) \in Nat /\ Cardinality(T) \in Nat
  BY FS_CardinalityType
<1>2. Cardinality({}) = 0
  BY FS_EmptySet
<1>3. Cardinality(S \cap T) = 0
  BY <1>2
<1>4. /\ IsFiniteSet(S \cup T)
      /\ Cardinality(S \cup T) = Cardinality(S) + Cardinality(T) - Cardinality(S \cap T)
  BY FS_Union
<1> QED
  BY <1>1, <1>3, <1>4

-----------------------------------------------------------------------------
(***************************************************************************)
(* Short tuples.  The prover knows Append and SubSeq through their         *)
(* elements only.                                                          *)
(***************************************************************************)
\* Append, seen through the elements of the two sequences.
LEMMA AppendIs ==
    ASSUME NEW S, NEW s \in Seq(S), NEW e \in S, NEW t \in Seq(S),
           Len(t) = Len(s) + 1, \A i \in 1..Len(s) : t[i] = s[i], t[Len(s) + 1] = e
    PROVE  Append(s, e) = t
<1>1. /\ Append(s, e) \in Seq(S) /\ Len(Append(s, e)) = Len(s) + 1
      /\ \A i \in 1..Len(s) : Append(s, e)[i] = s[i]
      /\ Append(s, e)[Len(s) + 1] = e
  BY AppendProperties
<1>2. \A i \in 1..Len(Append(s, e)) : Append(s, e)[i] = t[i]
  BY <1>1
<1> QED
  BY <1>1, <1>2, SeqEqual

\* All but the last element.
LEMMA FrontIs ==
    ASSUME NEW S, NEW s \in Seq(S), NEW t \in Seq(S),
           Len(t) = Len(s) + 1, \A i \in 1..Len(s) : t[i] = s[i]
    PROVE  SubSeq(t, 1, Len(t) - 1) = s
<1>1. Len(t) - 1 = Len(s) /\ Len(s) \in Nat
  OBVIOUS
<1>2. \A i \in 1..Len(s) : t[i] \in S
  OBVIOUS
<1>3. /\ SubSeq(t, 1, Len(s)) \in Seq(S) /\ Len(SubSeq(t, 1, Len(s))) = Len(s)
      /\ \A i \in 1..Len(s) : SubSeq(t, 1, Len(s))[i] = t[i]
  BY <1>1, <1>2, SubSeqProperties
<1>4. \A i \in 1..Len(s) : SubSeq(t, 1, Len(s))[i] = s[i]
  BY <1>3
<1> QED
  BY <1>1, <1>3, <1>4, SeqEqual

\* What tuples of two and of three elements have to do with one another.
LEMMA Pairs ==
    ASSUME NEW S, NEW a \in S, NEW b \in S
    PROVE  Append(<< a >>, b) = << a, b >> /\ SubSeq(<< a, b >>, 1, 1) = << a >>
<1> DEFINE s == << a >>
           t == << a, b >>
<1>1. s \in Seq(S) /\ Len(s) = 1 /\ s[1] = a
  OBVIOUS
<1>2. t \in Seq(S) /\ Len(t) = 2 /\ t[1] = a /\ t[2] = b
  OBVIOUS
<1> HIDE DEF s, t
<1>3. Len(t) = Len(s) + 1 /\ (\A i \in 1..Len(s) : t[i] = s[i]) /\ t[Len(s) + 1] = b
  BY <1>1, <1>2
<1>4. Append(s, b) = t
  BY <1>1, <1>2, <1>3, AppendIs, Zenon
<1>5. SubSeq(t, 1, Len(t) - 1) = s
  BY <1>1, <1>2, <1>3, FrontIs, Zenon
<1>6. Len(t) - 1 = 1
  BY <1>2
<1> QED
  BY <1>4, <1>5, <1>6, Zenon DEF s, t

\* The same with three.
LEMMA Triples ==
    ASSUME NEW S, NEW a \in S, NEW b \in S, NEW c \in S
    PROVE  Append(<< a, b >>, c) = << a, b, c >> /\ SubSeq(<< a, b, c >>, 1, 2) = << a, b >>
<1> DEFINE s == << a, b >>
           t == << a, b, c >>
<1>1. s \in Seq(S) /\ Len(s) = 2 /\ s[1] = a /\ s[2] = b
  OBVIOUS
<1>2. t \in Seq(S) /\ Len(t) = 3 /\ t[1] = a /\ t[2] = b /\ t[3] = c
  OBVIOUS
<1> HIDE DEF s, t
<1>3. Len(t) = Len(s) + 1 /\ (\A i \in 1..Len(s) : t[i] = s[i]) /\ t[Len(s) + 1] = c
  BY <1>1, <1>2
<1>4. Append(s, c) = t
  BY <1>1, <1>2, <1>3, AppendIs, Zenon
<1>5. SubSeq(t, 1, Len(t) - 1) = s
  BY <1>1, <1>2, <1>3, FrontIs, Zenon
<1>6. Len(t) - 1 = 2
  BY <1>2
<1> QED
  BY <1>4, <1>5, <1>6, Zenon DEF s, t

\* Both, for any elements.
LEMMA Tuples ==
    \A a, b, c : /\ Append(<< >>, a) = << a >> /\ SubSeq(<< a >>, 1, 0) = << >>
                 /\ Append(<< a >>, b) = << a, b >> /\ SubSeq(<< a, b >>, 1, 1) = << a >>
                 /\ Append(<< a, b >>, c) = << a, b, c >>
                 /\ SubSeq(<< a, b, c >>, 1, 2) = << a, b >>
<1> TAKE a, b, c
<1>1. a \in {a, b, c} /\ b \in {a, b, c} /\ c \in {a, b, c}
  OBVIOUS
<1>2. Append(<< a >>, b) = << a, b >> /\ SubSeq(<< a, b >>, 1, 1) = << a >>
  BY <1>1, Pairs, Zenon
<1>3. Append(<< a, b >>, c) = << a, b, c >> /\ SubSeq(<< a, b, c >>, 1, 2) = << a, b >>
  BY <1>1, Triples, Zenon
<1>4. Append(<< >>, a) = << a >> /\ SubSeq(<< a >>, 1, 0) = << >>
  OBVIOUS
<1> QED
  BY <1>2, <1>3, <1>4, Zenon

-----------------------------------------------------------------------------
(***************************************************************************)
(* Sets of numbers: the least and the greatest element, and induction over *)
(* a set instead of a predicate, which the provers can instantiate.        *)
(***************************************************************************)
\* Every set of natural numbers has a least element.
LEMMA SmallestExists ==
    ASSUME NEW T \in SUBSET Nat, T # {}
    PROVE  \E x \in T : \A y \in T : x <= y
<1>1. PICK x \in T : \A y \in T : ~ (<< y, x >> \in OpToRel(<, Nat))
  BY NatLessThanWellFounded, WFMin
<1>2. \A y \in Nat : << y, x >> \in OpToRel(<, Nat) <=> y < x
  BY DEF OpToRel
<1>3. \A y \in T : ~ (y < x)
  BY <1>1, <1>2
<1>4. \A y \in T : x <= y
  BY <1>3
<1> QED
  BY <1>4

\* What holds at 0 and passes from n to n + 1 holds of all natural numbers.
LEMMA Induction ==
    ASSUME NEW S \in SUBSET Nat, 0 \in S, \A n \in Nat : n \in S => n + 1 \in S
    PROVE  S = Nat
<1> SUFFICES ASSUME Nat \ S # {} PROVE FALSE
  OBVIOUS
<1>1. PICK x \in Nat \ S : \A y \in Nat \ S : x <= y
  BY SmallestExists
<1>2. x # 0 /\ x \in Nat
  OBVIOUS
<1>3. x - 1 \in Nat /\ ~ (x <= x - 1)
  BY <1>2
<1>4. x - 1 \in S
  BY <1>1, <1>3
<1>5. (x - 1) + 1 \in S
  BY <1>3, <1>4
<1> QED
  BY <1>2, <1>5

\* Every set of numbers up to n has a greatest element.
LEMMA GreatestExists ==
    ASSUME NEW n \in Nat, NEW T \in SUBSET (0..n), T # {}
    PROVE  \E x \in T : \A y \in T : x >= y
<1> DEFINE D == {n - y : y \in T}
<1>1. \A y \in T : n - y \in Nat
  OBVIOUS
<1>0. D \in SUBSET Nat /\ D # {}
  BY <1>1
<1>2. PICK d \in D : \A e \in D : d <= e
  BY <1>0, SmallestExists
<1>3. PICK x \in T : d = n - x
  BY <1>2
<1>4. \A y \in T : n - y \in D /\ y \in Int
  OBVIOUS
<1>5. \A y \in T : n - x <= n - y
  BY <1>2, <1>3, <1>4
<1>6. \A y \in T : x >= y
  BY <1>4, <1>5
<1> QED
  BY <1>6

-----------------------------------------------------------------------------
(***************************************************************************)
(* FlattenSeq by its partial results: F[i] is what the first i sequences   *)
(* of s make, one behind the other.                                        *)
(***************************************************************************)
IsFlattening(F, s, n) ==
    /\ DOMAIN F = 0..n
    /\ F[0] = << >>
    /\ \A i \in 1..n : F[i] = F[i - 1] \o s[i]

\* FlattenSeq is the last of its partial results.
LEMMA FlatteningExists ==
    ASSUME NEW S, NEW s \in Seq(Seq(S))
    PROVE  \E F \in [0..Len(s) -> Seq(S)] :
              IsFlattening(F, s, Len(s)) /\ FlattenSeq(s) = F[Len(s)]
<1> DEFINE Step(f, n) == [i \in 1..n |-> IF i = 1 THEN s[i] ELSE f[i - 1] \o s[i]]
           Has(n) == \E f \in [1..n -> Seq(S)] : f = Step(f, n)
           P == {n \in Nat : n <= Len(s) => Has(n)}
<1>0. Len(s) \in Nat /\ DOMAIN s = 1..Len(s) /\ \A i \in 1..Len(s) : s[i] \in Seq(S)
  BY LenProperties, ElementOfSeq
<1> HIDE DEF Has
<1>1. 0 \in P
  <2> DEFINE f == [i \in 1..0 |-> s[i]]
  <2>1. f \in [1..0 -> Seq(S)] /\ f = Step(f, 0)
    OBVIOUS
  <2>2. Has(0)
    BY <2>1 DEF Has
  <2> QED
    BY <2>2
<1>2. ASSUME NEW n \in Nat, n \in P PROVE n + 1 \in P
  <2> SUFFICES ASSUME n + 1 <= Len(s) PROVE Has(n + 1)
    BY <1>0
  <2>1. n <= Len(s)
    BY <1>0
  <2>2. Has(n)
    BY <1>2, <2>1
  <2>3. PICK f \in [1..n -> Seq(S)] : f = Step(f, n)
    BY <2>2 DEF Has
  <2> DEFINE last == IF n = 0 THEN s[1] ELSE f[n] \o s[n + 1]
             g == [i \in 1..(n + 1) |-> IF i <= n THEN f[i] ELSE last]
  <2>4. last \in Seq(S)
    <3>1. s[n + 1] \in Seq(S)
      BY <1>0
    <3>2. CASE n = 0
      BY <3>1, <3>2
    <3>3. CASE n # 0
      <4>1. f[n] \in Seq(S)
        BY <3>3
      <4> QED
        BY <3>1, <3>3, <4>1, ConcatProperties
    <3> QED
      BY <3>2, <3>3
  <2>5. g \in [1..(n + 1) -> Seq(S)]
    BY <2>4
  <2>6. ASSUME NEW i \in 1..(n + 1) PROVE g[i] = Step(g, n + 1)[i]
    <3>1. Step(g, n + 1)[i] = IF i = 1 THEN s[i] ELSE g[i - 1] \o s[i]
      OBVIOUS
    <3>2. CASE i <= n
      <4>1. f[i] = Step(f, n)[i]
        BY <2>3
      <4>2. f[i] = IF i = 1 THEN s[i] ELSE f[i - 1] \o s[i]
        BY <3>2, <4>1
      <4>3. g[i] = f[i] /\ (i # 1 => g[i - 1] = f[i - 1])
        BY <3>2
      <4> QED
        BY <3>1, <4>2, <4>3
    <3>3. CASE i = n + 1
      <4>1. g[i] = last
        BY <3>3
      <4>2. n # 0 => g[i - 1] = f[n]
        BY <3>3
      <4> QED
        BY <3>1, <3>3, <4>1, <4>2
    <3> QED
      BY <3>2, <3>3
  <2>7. g = Step(g, n + 1)
    BY <2>5, <2>6
  <2> QED
    BY <2>5, <2>7 DEF Has
<1>3. P = Nat
  <2> HIDE DEF P
  <2>1. P \in SUBSET Nat
    BY DEF P
  <2> QED
    BY <1>1, <1>2, <2>1, Induction
<1>4. Has(Len(s))
  BY <1>0, <1>3
<1> DEFINE flatten == CHOOSE f : f = Step(f, Len(s))
<1>5. \E f : f = Step(f, Len(s))
  BY <1>4 DEF Has
<1>6. flatten = Step(flatten, Len(s))
  BY <1>5
<1>7. FlattenSeq(s) = IF Len(s) = 0 THEN s ELSE flatten[Len(s)]
  BY DEF FlattenSeq
<1> HIDE DEF flatten
<1>8. \A i \in 1..Len(s) : flatten[i] = IF i = 1 THEN s[i] ELSE flatten[i - 1] \o s[i]
  <2> TAKE i \in 1..Len(s)
  <2>1. flatten[i] = Step(flatten, Len(s))[i]
    BY <1>6
  <2> QED
    BY <2>1
<1>9. \A i \in 1..Len(s) : flatten[i] \in Seq(S)
  <2> DEFINE T == {i \in 1..Len(s) : flatten[i] \notin Seq(S)}
  <2>1. SUFFICES ASSUME T # {} PROVE FALSE
    OBVIOUS
  <2>0. T \in SUBSET Nat
    BY <1>0
  <2>2. PICK x \in T : \A y \in T : x <= y
    BY <2>0, <2>1, SmallestExists
  <2>3. s[x] \in Seq(S) /\ x \in 1..Len(s)
    BY <1>0
  <2>4. x # 1
    BY <1>8, <2>3
  <2>5. x - 1 \in 1..Len(s) /\ ~ (x <= x - 1)
    BY <1>0, <2>3, <2>4
  <2>6. flatten[x - 1] \in Seq(S)
    BY <2>2, <2>5
  <2>7. flatten[x] = flatten[x - 1] \o s[x]
    BY <1>8, <2>3, <2>4
  <2> QED
    BY <2>3, <2>6, <2>7, ConcatProperties
<1> DEFINE F == [i \in 0..Len(s) |-> IF i = 0 THEN << >> ELSE flatten[i]]
<1>10. F \in [0..Len(s) -> Seq(S)]
  <2>1. << >> \in Seq(S)
    OBVIOUS
  <2> QED
    BY <1>0, <1>9, <2>1
<1>11. /\ DOMAIN F = 0..Len(s) /\ F[0] = << >> /\ (Len(s) # 0 => F[Len(s)] = flatten[Len(s)])
       /\ \A i \in 1..Len(s) : F[i] = flatten[i] /\ (i # 1 => F[i - 1] = flatten[i - 1])
  BY <1>0
<1> HIDE DEF F, Step
<1>12. \A i \in 1..Len(s) : F[i] = F[i - 1] \o s[i]
  <2> TAKE i \in 1..Len(s)
  <2>1. CASE i = 1
    <3>1. << >> \o s[1] = s[1]
      BY <1>0, <2>1, ConcatEmptySeq
    <3>2. F[i] = s[1] /\ i - 1 = 0
      BY <1>8, <1>11, <2>1
    <3>3. F[i - 1] = << >>
      BY <1>11, <3>2
    <3> QED
      BY <2>1, <3>1, <3>2, <3>3
  <2>2. CASE i # 1
    BY <1>8, <1>11, <2>2
  <2> QED
    BY <2>1, <2>2
<1>13. IsFlattening(F, s, Len(s))
  BY <1>11, <1>12 DEF IsFlattening
<1>14. FlattenSeq(s) = F[Len(s)]
  BY <1>0, <1>7, <1>11, EmptySeq
<1> QED
  BY <1>10, <1>13, <1>14

\* The elements of a flattened sequence are those of its parts.
LEMMA FlattenType ==
    ASSUME NEW S, NEW s \in Seq(Seq(S))
    PROVE  FlattenSeq(s) \in Seq(S)
<1>1. Len(s) \in 0..Len(s)
  BY LenProperties
<1> QED
  BY <1>1, FlatteningExists
=============================================================================
