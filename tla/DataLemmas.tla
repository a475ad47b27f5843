----------------------------- MODULE DataLemmas -----------------------------
(***************************************************************************)
(* Facts about the data of all models: sequences without repetition (the   *)
(* queues of the thread libraries, which are arrays packed to the left,    *)
(* the lists of frames of s2q and of blocks of the file system), the least *)
(* number of a set, quotients and remainders.                              *)
(***************************************************************************)
EXTENDS Integers, Sequences, Functions, SequenceTheorems, FiniteSetTheorems,
        WellFoundedInduction, TLAPS

\* The range of a sequence, by its indices.
LEMMA RangeSeq ==
  ASSUME NEW S, NEW s \in Seq(S)
  PROVE  /\ Range(s) = {s[i] : i \in 1 .. Len(s)}
         /\ Range(s) \subseteq S
         /\ IsInjective(s) <=> \A i, j \in 1 .. Len(s) : s[i] = s[j] => i = j
         /\ s = <<>> <=> Range(s) = {}
<1>1. DOMAIN s = 1 .. Len(s) /\ Len(s) \in Nat /\ \A i \in 1 .. Len(s) : s[i] \in S
  OBVIOUS
<1>2. Range(s) = {s[i] : i \in 1 .. Len(s)}
  BY <1>1 DEF Range
<1>3. IsInjective(s) <=> \A i, j \in 1 .. Len(s) : s[i] = s[j] => i = j
  BY <1>1 DEF IsInjective
<1>4. s = <<>> <=> Range(s) = {}
  <2>1. s = <<>> <=> Len(s) = 0
    OBVIOUS
  <2>2. Len(s) # 0 => 1 \in 1 .. Len(s)
    BY <1>1
  <2> QED
    BY <2>1, <2>2, <1>1, <1>2
<1> QED
  BY <1>1, <1>2, <1>3, <1>4

\* A new element put at the end.
LEMMA AppendedNew ==
  ASSUME NEW S, NEW q \in Seq(S), IsInjective(q), NEW t \in S, t \notin Range(q)
  PROVE  /\ Append(q, t) \in Seq(S)
         /\ IsInjective(Append(q, t))
         /\ Range(Append(q, t)) = Range(q) \cup {t}
         /\ Append(q, t) # <<>>
         /\ Len(Append(q, t)) = Len(q) + 1
<1> DEFINE r == Append(q, t)
<1>1. r \in Seq(S) /\ Len(r) = Len(q) + 1 /\ Len(q) \in Nat
  OBVIOUS
<1>2. \A i \in 1 .. Len(r) : r[i] = IF i = Len(q) + 1 THEN t ELSE q[i]
  OBVIOUS
<1>3. Range(q) = {q[i] : i \in 1 .. Len(q)} /\ Range(r) = {r[i] : i \in 1 .. Len(r)}
  BY <1>1, RangeSeq
<1>4. Range(r) = Range(q) \cup {t}
  BY <1>1, <1>2, <1>3
<1>5. IsInjective(r)
  <2>1. \A i \in 1 .. Len(q) : q[i] # t
    BY <1>3
  <2>2. \A i, j \in 1 .. Len(q) : q[i] = q[j] => i = j
    BY RangeSeq
  <2>3. \A i, j \in 1 .. Len(r) : r[i] = r[j] => i = j
    BY <2>1, <2>2, <1>1, <1>2
  <2> HIDE DEF r
  <2> QED
    BY <2>3, <1>1, RangeSeq
<1> QED
  BY <1>1, <1>4, <1>5

\* The entry at index i taken out, the ones behind it shifted to the left.
RemovedAt(q, i) == [j \in 1 .. Len(q) - 1 |-> IF j < i THEN q[j] ELSE q[j + 1]]

\* The others stay, once each.
LEMMA RemovedEntry ==
  ASSUME NEW S, NEW q \in Seq(S), IsInjective(q), NEW i \in 1 .. Len(q)
  PROVE  /\ RemovedAt(q, i) \in Seq(S)
         /\ IsInjective(RemovedAt(q, i))
         /\ Range(RemovedAt(q, i)) = Range(q) \ {q[i]}
         /\ q[i] \in Range(q)
         /\ q[i] \in S
<1> DEFINE r == RemovedAt(q, i)
<1>1. r = [j \in 1 .. Len(q) - 1 |-> IF j < i THEN q[j] ELSE q[j + 1]]
  BY DEF RemovedAt
<1>2. r \in Seq(S) /\ Len(r) = Len(q) - 1
  BY <1>1
<1>3. \A j \in 1 .. Len(r) : r[j] = IF j < i THEN q[j] ELSE q[j + 1]
  BY <1>1, <1>2
<1> HIDE DEF r
<1>4. \A j, k \in 1 .. Len(q) : q[j] = q[k] => j = k
  BY RangeSeq
<1>5. IsInjective(r)
  BY SMTT(30), <1>2, <1>3, <1>4, RangeSeq
<1>6. Range(r) = {r[j] : j \in 1 .. Len(r)} /\ Range(q) = {q[j] : j \in 1 .. Len(q)}
  BY <1>2, RangeSeq
<1>7. Range(r) \subseteq Range(q) \ {q[i]}
  BY <1>2, <1>3, <1>4, <1>6
<1>8. ASSUME NEW x \in Range(q) \ {q[i]} PROVE x \in Range(r)
  <2>1. PICK k \in 1 .. Len(q) : x = q[k] /\ k # i
    BY <1>6
  <2>2. CASE k < i
    <3>1. k \in 1 .. Len(r) /\ r[k] = x
      BY <2>1, <2>2, <1>2, <1>3
    <3> QED BY <3>1, <1>6
  <2>3. CASE k > i
    <3>1. k - 1 \in 1 .. Len(r) /\ r[k - 1] = x
      BY <2>1, <2>3, <1>2, <1>3
    <3> QED BY <3>1, <1>6
  <2> QED BY <2>1, <2>2, <2>3
<1>9. Range(r) = Range(q) \ {q[i]}
  BY <1>7, <1>8
<1>10. q[i] \in Range(q) /\ q[i] \in S
  BY <1>6
<1> QED
  BY <1>2, <1>5, <1>9, <1>10 DEF r

\* The first element taken off.
LEMMA HeadTaken ==
  ASSUME NEW S, NEW q \in Seq(S), IsInjective(q), q # <<>>
  PROVE  /\ Tail(q) \in Seq(S)
         /\ IsInjective(Tail(q))
         /\ Range(Tail(q)) = Range(q) \ {Head(q)}
         /\ Head(q) \in Range(q)
         /\ Head(q) \in S
         /\ Len(Tail(q)) = Len(q) - 1
<1> DEFINE r == RemovedAt(q, 1)
<1>1. Head(q) = q[1] /\ 1 \in 1 .. Len(q) /\ Len(Tail(q)) = Len(q) - 1 /\ Len(q) \in Nat
  OBVIOUS
<1>2. r = [j \in 1 .. Len(q) - 1 |-> IF j < 1 THEN q[j] ELSE q[j + 1]]
  BY DEF RemovedAt
<1>3. Tail(q) = r
  <2>1. r \in Seq(S) /\ Len(r) = Len(q) - 1
    BY <1>2
  <2>2. \A j \in 1 .. Len(q) - 1 : r[j] = q[j + 1]
    BY <1>2
  <2> HIDE DEF r
  <2>3. Tail(q) \in Seq(S) /\ \A j \in 1 .. Len(q) - 1 : Tail(q)[j] = q[j + 1]
    OBVIOUS
  <2> QED
    BY <2>1, <2>2, <2>3, <1>1, SeqEqual
<1>4. /\ r \in Seq(S) /\ IsInjective(r)
      /\ Range(r) = Range(q) \ {q[1]} /\ q[1] \in Range(q) /\ q[1] \in S
  BY <1>1, RemovedEntry
<1> QED
  BY <1>1, <1>3, <1>4

-----------------------------------------------------------------------------
\* A non-empty set of numbers of an interval has a least one.
LEMMA LeastExists ==
  ASSUME NEW a \in Int, NEW b \in Int, NEW T \in SUBSET (a .. b), T # {}
  PROVE  \E x \in T : \A y \in T : x <= y
<1> DEFINE F == {a .. x : x \in T}
           R == StrictSubsetOrdering(a .. b)
<1>1. IsWellFoundedOn(R, FiniteSubsetsOf(a .. b))
  BY FS_StrictSubsetOrderingWellFounded
<1>2. F \subseteq FiniteSubsetsOf(a .. b) /\ F # {}
  <2>1. \A x \in T : a .. x \in SUBSET (a .. b) /\ IsFiniteSet(a .. x)
    BY FS_Interval
  <2>2. PICK x \in T : TRUE
    OBVIOUS
  <2>3. a .. x \in F
    BY <2>2
  <2> QED
    BY <2>1, <2>3 DEF FiniteSubsetsOf
<1>3. PICK A \in F : \A B \in F : ~(<<B, A>> \in R)
  <2> HIDE DEF F, R
  <2> QED
    BY <1>1, <1>2, WFMin
<1>4. PICK x \in T : A = a .. x
  BY <1>3
<1>5. ASSUME NEW y \in T, y < x PROVE FALSE
  <2>1. /\ a .. y \subseteq a .. x /\ x \in a .. x /\ x \notin a .. y
        /\ a .. x \subseteq a .. b
    BY <1>5
  <2>2. <<a .. y, a .. x>> \in R
    BY <2>1 DEF StrictSubsetOrdering
  <2> QED
    BY <2>2, <1>3, <1>4
<1>6. \A y \in T : x <= y
  BY <1>5
<1> QED
  BY <1>4, <1>6

\* The bytes of frame f are in a memory of m frames of s bytes.
LEMMA AddressInRange ==
  ASSUME NEW f \in Nat, NEW m \in Nat, f < m, NEW s \in Nat, NEW b \in Nat, b < s
  PROVE  f * s + b \in 0 .. m * s - 1
<1> DEFINE k == m - f - 1
<1>1. k \in Nat /\ m = f + 1 + k
  OBVIOUS
<1> HIDE DEF k
<1>2. m * s = f * s + s + k * s /\ k * s \in Nat /\ f * s \in Nat
  BY <1>1
<1> QED
  BY <1>2

\* A quotient and a remainder are unique.
LEMMA Quotient ==
  ASSUME NEW f \in Nat, NEW s \in Nat, NEW b \in Nat, b < s,
         NEW k \in Int, NEW r \in Nat, r < s, f * s + b = s * k + r
  PROVE  k = f /\ r = b
<1>1. ASSUME NEW i \in Int, NEW j \in Int, i < j PROVE i * s + s <= j * s
  <2> DEFINE d == j - i - 1
  <2>1. d \in Nat /\ j = i + 1 + d
    BY <1>1
  <2> HIDE DEF d
  <2>2. j * s = i * s + s + d * s /\ d * s \in Nat /\ i * s \in Int
    BY <2>1
  <2> QED
    BY <2>2
<1>2. s * k = k * s /\ k * s \in Int /\ f * s \in Int
  OBVIOUS
<1>3. ~(k < f)
  <2> SUFFICES ASSUME k < f PROVE FALSE
    OBVIOUS
  <2>1. k * s + s <= f * s
    BY <1>1
  <2> QED
    BY <2>1, <1>2
<1>4. ~(f < k)
  <2> SUFFICES ASSUME f < k PROVE FALSE
    OBVIOUS
  <2>1. f * s + s <= k * s
    BY <1>1
  <2> QED
    BY <2>1, <1>2
<1>5. k = f
  BY <1>3, <1>4
<1> QED
  BY <1>5, <1>2

LEMMA DivMod ==
  ASSUME NEW f \in Nat, NEW s \in Nat \ {0}, NEW b \in Nat, b < s
  PROVE  (f * s + b) \div s = f /\ (f * s + b) % s = b
<1> DEFINE x == f * s + b
           k == x \div s
           r == x % s
<1>1. x \in Nat
  OBVIOUS
<1>2. x = s * k + r /\ k \in Int /\ r \in Nat /\ r < s
  <2> HIDE DEF x
  <2>1. x = s * (x \div s) + (x % s) /\ x % s \in 0 .. s - 1 /\ x \div s \in Int
    BY <1>1
  <2> QED
    BY <2>1
<1> HIDE DEF k, r
<1>3. f * s + b = s * k + r
  BY <1>2
<1>4. k = f /\ r = b
  BY <1>2, <1>3, Quotient
<1> QED
  BY <1>4 DEF k, r

-----------------------------------------------------------------------------
\* A function that repeats no value has as many as arguments.
LEMMA InjectiveRange ==
  ASSUME NEW S, NEW T, IsFiniteSet(S), NEW f \in [S -> T],
         \A a, b \in S : f[a] = f[b] => a = b
  PROVE  /\ IsFiniteSet(Range(f)) /\ Cardinality(Range(f)) = Cardinality(S)
         /\ Range(f) = {f[a] : a \in S}
<1>1. DOMAIN f = S /\ Range(f) = {f[a] : a \in S}
  BY DEF Range
<1>2. f \in [S -> Range(f)]
  BY <1>1
<1>3. f \in Bijection(S, Range(f))
  BY <1>1, <1>2 DEF Bijection, Injection, Surjection, IsInjective
<1>4. ExistsBijection(S, Range(f))
  BY <1>3 DEF ExistsBijection
<1> QED
  BY <1>1, <1>4, FS_Bijection

\* A disjoint finite set added or a part taken away.
LEMMA CountedUnion ==
  ASSUME NEW S, IsFiniteSet(S), NEW T, IsFiniteSet(T)
  PROVE  /\ (\A x \in T : x \notin S) =>
              /\ IsFiniteSet(S \cup T)
              /\ Cardinality(S \cup T) = Cardinality(S) + Cardinality(T)
         /\ T \subseteq S =>
              /\ IsFiniteSet(S \ T)
              /\ Cardinality(S \ T) = Cardinality(S) - Cardinality(T)
<1>1. Cardinality(S) \in Nat /\ Cardinality(T) \in Nat
  BY FS_CardinalityType
<1>2. ASSUME \A x \in T : x \notin S
      PROVE  IsFiniteSet(S \cup T) /\ Cardinality(S \cup T) = Cardinality(S) + Cardinality(T)
  <2>1. S \cap T = {}
    BY <1>2
  <2>3. Cardinality(S \cap T) = 0
    BY <2>1, FS_EmptySet
  <2>2. /\ IsFiniteSet(S \cup T)
        /\ Cardinality(S \cup T) = Cardinality(S) + Cardinality(T) - Cardinality(S \cap T)
    BY FS_Union
  <2> QED
    BY <2>2, <2>3, <1>1
<1>3. ASSUME T \subseteq S
      PROVE  IsFiniteSet(S \ T) /\ Cardinality(S \ T) = Cardinality(S) - Cardinality(T)
  <2>1. S \cap T = T
    BY <1>3
  <2> QED
    BY <2>1, FS_Difference
<1> QED
  BY <1>2, <1>3
=============================================================================
