--------------------------- MODULE ReplacementLemmas ---------------------------
(***************************************************************************)
(* Facts about the operators of Replacement, for any number of frames.     *)
(***************************************************************************)
EXTENDS Replacement, FiniteSetsExt, DataLemmas

\* The least of a non-empty set is one of it.
LEMMA MinIn ==
  ASSUME NEW a \in Int, NEW b \in Int, NEW T \in SUBSET (a .. b), T # {}
  PROVE  Min(T) \in T
  BY LeastExists DEF Min

-----------------------------------------------------------------------------
(***************************************************************************)
(* The replacement algorithms return a frame, and their variables keep     *)
(* their types.                                                            *)
(***************************************************************************)
Policies(m) == [i : 0 .. m - 1, clock_handle : 0 .. m - 1,
                A1 : Seq(0 .. m - 1), Am : Seq(0 .. m - 1)]

\* What an algorithm may give with m frames, D of them in use.
Outcomes(m, D) == [frame : 0 .. m - 1, policy : Policies(m), ref : [D -> BOOLEAN], ok : BOOLEAN]

\* Assignments to one of the variables.
LEMMA PolicyUpdate ==
  ASSUME NEW D, NEW x \in D, NEW s \in Seq(D), NEW t \in Seq(D),
         NEW p \in [i : D, clock_handle : D, A1 : Seq(D), Am : Seq(D)]
  PROVE  LET P == [i : D, clock_handle : D, A1 : Seq(D), Am : Seq(D)] IN
         /\ [p EXCEPT !.i = x] \in P /\ [p EXCEPT !.clock_handle = x] \in P
         /\ [p EXCEPT !.A1 = s] \in P /\ [p EXCEPT !.Am = t] \in P
         /\ [p EXCEPT !.A1 = s, !.Am = t] \in P
  OBVIOUS

LEMMA HandleUpdate ==
  ASSUME NEW m, NEW p \in Policies(m), NEW x \in 0 .. m - 1
  PROVE  [p EXCEPT !.i = x] \in Policies(m) /\ [p EXCEPT !.clock_handle = x] \in Policies(m)
<1> DEFINE D == 0 .. m - 1
<1>1. <<>> \in Seq(D) /\ p \in [i : D, clock_handle : D, A1 : Seq(D), Am : Seq(D)]
  BY DEF Policies
<1>2. x \in D
  OBVIOUS
<1> HIDE DEF D
<1>3. LET P == [i : D, clock_handle : D, A1 : Seq(D), Am : Seq(D)] IN
      [p EXCEPT !.i = x] \in P /\ [p EXCEPT !.clock_handle = x] \in P
  BY <1>1, <1>2, PolicyUpdate
<1> QED
  BY <1>3 DEF Policies, D

LEMMA ListUpdate ==
  ASSUME NEW m, NEW p \in Policies(m), NEW s \in Seq(0 .. m - 1), NEW t \in Seq(0 .. m - 1)
  PROVE  /\ [p EXCEPT !.A1 = s] \in Policies(m) /\ [p EXCEPT !.Am = t] \in Policies(m)
         /\ [p EXCEPT !.A1 = s, !.Am = t] \in Policies(m)
<1> DEFINE D == 0 .. m - 1
<1>1. /\ p \in [i : D, clock_handle : D, A1 : Seq(D), Am : Seq(D)]
      /\ s \in Seq(D) /\ t \in Seq(D) /\ p.i \in D
  BY DEF Policies
<1> HIDE DEF D
<1>2. LET P == [i : D, clock_handle : D, A1 : Seq(D), Am : Seq(D)] IN
      /\ [p EXCEPT !.A1 = s] \in P /\ [p EXCEPT !.Am = t] \in P
      /\ [p EXCEPT !.A1 = s, !.Am = t] \in P
  BY <1>1, PolicyUpdate
<1> QED
  BY <1>2 DEF Policies, D

LEMMA ChosenType ==
  ASSUME NEW m, NEW D, NEW f \in 0 .. m - 1, NEW p \in Policies(m), NEW ref \in [D -> BOOLEAN],
         NEW ok \in BOOLEAN
  PROVE  Chosen(f, p, ref, ok) \in Outcomes(m, D)
  BY DEF Chosen, Outcomes

LEMMA FirstUnreferencedInRange ==
  ASSUME NEW m \in Nat \ {0}, NEW ref \in [0 .. m - 1 -> BOOLEAN], NEW a \in 0 .. m - 1
  PROVE  FirstUnreferenced(ref, a, m - 2) \in 0 .. m - 1
<1> DEFINE T == {f \in a .. m - 2 : ~ref[f]}
<1>1. CASE \E f \in a .. m - 2 : ~ref[f]
  <2>1. T \in SUBSET (a .. m - 2) /\ T # {} /\ a \in Int /\ m - 2 \in Int
    BY <1>1
  <2>2. PICK x \in T : \A y \in T : x <= y
    <3> HIDE DEF T
    <3> QED
      BY ONLY <2>1, LeastExists
  <2>3. x \in a .. m - 2 /\ ~ref[x] /\ \A g \in a .. x - 1 : ref[g]
    BY <2>2
  <2>4. FirstUnreferenced(ref, a, m - 2) \in a .. m - 2
    BY <1>1, <2>3 DEF FirstUnreferenced
  <2> QED
    BY <2>4
<1>2. CASE ~ \E f \in a .. m - 2 : ~ref[f]
  <2>1. FirstUnreferenced(ref, a, m - 2) = (m - 2) + 1
    BY <1>2 DEF FirstUnreferenced
  <2> QED
    BY <2>1
<1> QED
  BY <1>1, <1>2

LEMMA PassedType ==
  ASSUME NEW D, NEW ref \in [D -> BOOLEAN], NEW a, NEW b
  PROVE  Passed(ref, a, b) \in [D -> BOOLEAN]
  BY DEF Passed

LEMMA ClockEvictType ==
  ASSUME NEW m \in Nat \ {0}, NEW p \in Policies(m), NEW ref \in [0 .. m - 1 -> BOOLEAN]
  PROVE  clock_evict(m, p, ref) \in Outcomes(m, 0 .. m - 1)
<1> DEFINE D == 0 .. m - 1
<1>1. ASSUME NEW r \in [D -> BOOLEAN] PROVE find_first_evict(m, p, r) \in Outcomes(m, D)
  <2> DEFINE f == FirstUnreferenced(r, 0, m - 2)
  <2>1. f \in D /\ 0 \in D
    BY FirstUnreferencedInRange
  <2>2. Passed(r, 0, f - 1) \in [D -> BOOLEAN] /\ Passed(r, 0, m - 2) \in [D -> BOOLEAN]
    BY PassedType
  <2> HIDE DEF f
  <2>3. f < m - 1 => [p EXCEPT !.clock_handle = f + 1] \in Policies(m)
    <3>1. f < m - 1 => f + 1 \in 0 .. m - 1
      BY <2>1
    <3> QED
      BY <3>1, HandleUpdate
  <2>4. [p EXCEPT !.clock_handle = m - 1] \in Policies(m)
    <3>1. m - 1 \in 0 .. m - 1
      OBVIOUS
    <3> QED
      BY <3>1, HandleUpdate
  <2>5. CASE f < m - 1
    <3>1. find_first_evict(m, p, r)
            = Chosen(f, [p EXCEPT !.clock_handle = f + 1], Passed(r, 0, f - 1), TRUE)
      BY <2>5 DEF find_first_evict, f
    <3> QED
      BY <3>1, <2>1, <2>2, <2>3, <2>5 DEF Chosen, Outcomes
  <2>6. CASE ~(f < m - 1)
    <3>1. find_first_evict(m, p, r)
            = Chosen(0, [p EXCEPT !.clock_handle = m - 1], Passed(r, 0, m - 2), TRUE)
      BY <2>6 DEF find_first_evict, f
    <3> QED
      BY <3>1, <2>1, <2>2, <2>4 DEF Chosen, Outcomes
  <2> QED
    BY <2>5, <2>6
<1> DEFINE f == FirstUnreferenced(ref, p.clock_handle, m - 2)
           passed == Passed(ref, p.clock_handle, f - 1)
<1>2. f \in D
  BY FirstUnreferencedInRange DEF Policies
<1>3. passed \in [D -> BOOLEAN] /\ Passed(passed, m - 1, m - 1) \in [D -> BOOLEAN]
  BY PassedType
<1>4. CASE f < m - 1
  <2>1. clock_evict(m, p, ref) = Chosen(f, [p EXCEPT !.clock_handle = f + 1], passed, TRUE)
    BY <1>4 DEF clock_evict
  <2> HIDE DEF f, passed
  <2>2. f + 1 \in 0 .. m - 1
    BY <1>2, <1>4
  <2>3. [p EXCEPT !.clock_handle = f + 1] \in Policies(m)
    BY <2>2, HandleUpdate
  <2> QED
    BY <2>1, <2>3, <1>2, <1>3 DEF Chosen, Outcomes
<1>5. CASE ~(f < m - 1) /\ ~ref[m - 1]
  <2>1. clock_evict(m, p, ref) = Chosen(m - 1, [p EXCEPT !.clock_handle = 0], passed, TRUE)
    BY <1>5 DEF clock_evict
  <2> HIDE DEF f, passed
  <2>2. 0 \in 0 .. m - 1 /\ m - 1 \in 0 .. m - 1
    OBVIOUS
  <2>3. [p EXCEPT !.clock_handle = 0] \in Policies(m)
    BY <2>2, HandleUpdate
  <2> QED
    BY <2>1, <2>2, <2>3, <1>3 DEF Chosen, Outcomes
<1>6. CASE ~(f < m - 1) /\ ref[m - 1]
  <2>1. clock_evict(m, p, ref) = find_first_evict(m, p, Passed(passed, m - 1, m - 1))
    BY <1>6 DEF clock_evict
  <2> QED
    BY <2>1, <1>1, <1>3
<1> QED
  BY <1>4, <1>5, <1>6

LEMMA S2qEvictType ==
  ASSUME NEW m \in Nat \ {0}, NEW p \in Policies(m), NEW ref \in [0 .. m - 1 -> BOOLEAN],
         NEW threshold \in Nat
  PROVE  s2q_evict(m, p, ref, threshold) \in Outcomes(m, 0 .. m - 1)
<1> DEFINE D == 0 .. m - 1
<1>1. p.A1 \in Seq(D) /\ p.Am \in Seq(D)
  BY DEF Policies
<1>2. CASE Len(p.A1) > threshold
  <2>1. p.A1 # <<>>
    BY <1>1, <1>2
  <2>2. Head(p.A1) \in D /\ Tail(p.A1) \in Seq(D)
    BY <2>1, <1>1, HeadTailProperties
  <2>3. [p EXCEPT !.A1 = Tail(p.A1)] \in Policies(m)
    BY <2>2, ListUpdate
  <2>4. s2q_evict(m, p, ref, threshold)
          = Chosen(Head(p.A1), [p EXCEPT !.A1 = Tail(p.A1)],
                   [ref EXCEPT ![Head(p.A1)] = FALSE], TRUE)
    BY <1>2 DEF s2q_evict
  <2>5. [ref EXCEPT ![Head(p.A1)] = FALSE] \in [D -> BOOLEAN]
    OBVIOUS
  <2> QED
    BY <2>2, <2>3, <2>4, <2>5 DEF Chosen, Outcomes
<1>3. CASE ~(Len(p.A1) > threshold) /\ p.Am # <<>>
  <2>1. Last(p.Am) \in D /\ Front(p.Am) \in Seq(D)
    BY <1>1, <1>3 DEF Last, Front
  <2>2. [p EXCEPT !.Am = Front(p.Am)] \in Policies(m)
    BY <2>1, ListUpdate
  <2>3. s2q_evict(m, p, ref, threshold)
          = Chosen(Last(p.Am), [p EXCEPT !.Am = Front(p.Am)],
                   [ref EXCEPT ![Last(p.Am)] = FALSE], ref[Last(p.Am)])
    BY <1>3 DEF s2q_evict
  <2>4. [ref EXCEPT ![Last(p.Am)] = FALSE] \in [D -> BOOLEAN] /\ ref[Last(p.Am)] \in BOOLEAN
    BY <2>1
  <2> QED
    BY <2>1, <2>2, <2>3, <2>4 DEF Chosen, Outcomes
<1>4. CASE ~(Len(p.A1) > threshold) /\ p.Am = <<>>
  <2>1. s2q_evict(m, p, ref, threshold) = Chosen(0, p, ref, FALSE)
    BY <1>4 DEF s2q_evict
  <2>2. 0 \in 0 .. m - 1
    OBVIOUS
  <2> QED
    BY <2>1, <2>2 DEF Chosen, Outcomes
<1> QED
  BY <1>2, <1>3, <1>4

\* list_del and list_add keep a list of frames a list of frames.
LEMMA WithoutType ==
  ASSUME NEW S, NEW s \in Seq(S), NEW f
  PROVE  Without(s, f) \in Seq(S)
<1> DEFINE at == {i \in DOMAIN s : s[i] = f}
           k == CHOOSE i \in at : TRUE
<1>1. CASE at = {}
  BY <1>1 DEF Without
<1>2. CASE at # {}
  <2>1. k \in 1 .. Len(s) /\ Len(s) \in Nat
    BY <1>2
  <2>2. Without(s, f) = RemoveAt(s, k)
    BY <1>2 DEF Without
  <2> HIDE DEF k
  <2>3. SubSeq(s, 1, k - 1) \in Seq(S) /\ SubSeq(s, k + 1, Len(s)) \in Seq(S)
    BY <2>1
  <2> QED
    BY <2>2, <2>3 DEF RemoveAt
<1> QED
  BY <1>1, <1>2

LEMMA S2qRefType ==
  ASSUME NEW m \in Nat \ {0}, NEW p \in Policies(m), NEW D, NEW ref \in [D -> BOOLEAN],
         NEW f \in 0 .. m - 1, f \in D
  PROVE  s2q_ref(p, ref, f) \in Outcomes(m, D)
<1> DEFINE A == Without(p.A1, f)
           B == Without(p.Am, f)
           W == [p EXCEPT !.A1 = A, !.Am = <<f>> \o B]
           L == [p EXCEPT !.A1 = A, !.Am = <<f>> \o p.Am]
           N == [p EXCEPT !.A1 = Append(p.A1, f)]
<1>1. p.A1 \in Seq(0 .. m - 1) /\ p.Am \in Seq(0 .. m - 1)
  BY DEF Policies
<1>2. A \in Seq(0 .. m - 1) /\ B \in Seq(0 .. m - 1)
  BY <1>1, WithoutType
<1> HIDE DEF A, B
<1>3. /\ <<f>> \o B \in Seq(0 .. m - 1) /\ <<f>> \o p.Am \in Seq(0 .. m - 1)
      /\ Append(p.A1, f) \in Seq(0 .. m - 1)
  BY <1>1, <1>2
<1>4. W \in Policies(m) /\ L \in Policies(m) /\ N \in Policies(m)
  BY <1>2, <1>3, ListUpdate
<1>5. [ref EXCEPT ![f] = TRUE] \in [D -> BOOLEAN]
  OBVIOUS
<1>6. Linked(p, f) \in BOOLEAN
  BY DEF Linked
<1>7. s2q_ref(p, ref, f) \in {Chosen(f, W, ref, Linked(p, f)),
        Chosen(f, L, [ref EXCEPT ![f] = TRUE], TRUE), Chosen(f, N, ref, TRUE)}
  BY DEF s2q_ref, A, B
<1> HIDE DEF W, L, N
<1>8. /\ Chosen(f, W, ref, Linked(p, f)) \in Outcomes(m, D)
      /\ Chosen(f, L, [ref EXCEPT ![f] = TRUE], TRUE) \in Outcomes(m, D)
      /\ Chosen(f, N, ref, TRUE) \in Outcomes(m, D)
  BY <1>4, <1>5, <1>6, ChosenType
<1> QED
  BY <1>7, <1>8

-----------------------------------------------------------------------------
(***************************************************************************)
(* The counter of rr_evict and the order of arrival go round together.     *)
(***************************************************************************)
Wrap(x, m) == IF x < m THEN x ELSE x - m

Rotation(i, m) == [j \in 1 .. m |-> Wrap(i + j - 1, m)]

LEMMA MinOfRest ==
  ASSUME NEW m \in Nat, NEW n \in 0 .. m, n < m
  PROVE  Min((0 .. m - 1) \ (0 .. n - 1)) = n
<1> DEFINE T == (0 .. m - 1) \ (0 .. n - 1)
<1>1. n \in T /\ \A y \in T : n <= y /\ y \in Int
  OBVIOUS
<1> HIDE DEF T
<1>2. \A x \in T : (\A y \in T : x <= y) => x = n
  BY <1>1
<1> QED
  BY <1>1, <1>2 DEF Min, T

\* The first frame goes to the end.
LEMMA Rotate ==
  ASSUME NEW m \in Nat \ {0}, NEW i \in 0 .. m - 1
  PROVE  Append(Without(Rotation(i, m), i), i) = Rotation((i + 1) % m, m)
<1> DEFINE s  == Rotation(i, m)
           at == {j \in DOMAIN s : s[j] = i}
           k  == (i + 1) % m
<1>1. DOMAIN s = 1 .. m /\ \A j \in 1 .. m : s[j] = IF i + j - 1 < m THEN i + j - 1 ELSE i + j - 1 - m
  BY DEF Rotation, Wrap
<1>2. s \in Seq(Int) /\ Len(s) = m
  <2>1. s = [j \in 1 .. m |-> IF i + j - 1 < m THEN i + j - 1 ELSE i + j - 1 - m]
    BY DEF Rotation, Wrap
  <2> HIDE DEF s
  <2> QED
    BY <2>1
<1> HIDE DEF s
<1>3. at = {1}
  BY <1>1
<1>4. Without(s, i) = RemoveAt(s, 1)
  <2>1. (CHOOSE j \in at : TRUE) = 1
    BY <1>3
  <2> QED
    BY <1>3, <2>1 DEF Without
<1> DEFINE t == Append(Without(s, i), i)
           u == SubSeq(s, 1, 0) \o SubSeq(s, 2, m)
<1>5. Without(s, i) = u
  BY <1>2, <1>4 DEF RemoveAt
<1>6. u \in Seq(Int) /\ Len(u) = m - 1 /\ \A j \in 1 .. m - 1 : u[j] = s[j + 1]
  <2> DEFINE a == SubSeq(s, 1, 0)
             b == SubSeq(s, 2, m)
  <2>1. a \in Seq(Int) /\ Len(a) = 0
    BY <1>2
  <2>2. b \in Seq(Int) /\ Len(b) = m - 1 /\ \A j \in 1 .. m - 1 : b[j] = s[j + 1]
    BY <1>2
  <2> HIDE DEF a, b
  <2>3. u = a \o b
    BY DEF a, b
  <2> HIDE DEF u
  <2> QED
    BY <2>1, <2>2, <2>3
<1> HIDE DEF u
<1>7. /\ t \in Seq(Int) /\ Len(t) = m /\ t[m] = i
      /\ \A j \in 1 .. m - 1 : t[j] = s[j + 1]
  BY <1>5, <1>6
<1>8. k = IF i + 1 < m THEN i + 1 ELSE 0
  <2>1. CASE i + 1 < m
    <3>1. i + 1 \in Nat /\ 0 \in Nat /\ 0 * m + (i + 1) = i + 1
      OBVIOUS
    <3>2. (0 * m + (i + 1)) % m = i + 1
      BY <2>1, <3>1, DivMod
    <3> QED
      BY <2>1, <3>1, <3>2
  <2>2. CASE ~(i + 1 < m)
    <3>1. 1 \in Nat /\ 0 \in Nat /\ 0 < m /\ 1 * m + 0 = i + 1
      BY <2>2
    <3>2. (1 * m + 0) % m = 0
      BY <3>1, DivMod
    <3> QED
      BY <2>2, <3>1, <3>2
  <2> QED
    BY <2>1, <2>2
<1> HIDE DEF k, t
<1>9. ASSUME NEW j \in 1 .. m PROVE t[j] = Wrap(k + j - 1, m)
  <2>1. k \in Int /\ Wrap(k + j - 1, m) = IF k + j - 1 < m THEN k + j - 1 ELSE k + j - 1 - m
    BY <1>8 DEF Wrap
  <2>2. CASE j = m
    BY <1>7, <1>8, <2>1, <2>2
  <2>3. CASE j # m
    <3>1. j \in 1 .. m - 1 /\ j + 1 \in 1 .. m
      BY <2>3
    <3>2. s[j + 1] = IF i + (j + 1) - 1 < m THEN i + (j + 1) - 1 ELSE i + (j + 1) - 1 - m
      BY <1>1, <3>1
    <3>3. t[j] = IF i + j < m THEN i + j ELSE i + j - m
      BY <1>7, <3>1, <3>2
    <3> QED
      BY <1>8, <2>1, <3>1, <3>3
  <2> QED
    BY <2>2, <2>3
<1>10. t = [j \in 1 .. m |-> Wrap(k + j - 1, m)]
  <2>1. t = [j \in DOMAIN t |-> t[j]] /\ DOMAIN t = 1 .. m
    BY <1>7
  <2> QED
    BY <1>9, <2>1, Zenon
<1> QED
  BY <1>10 DEF t, k, s, Rotation

-----------------------------------------------------------------------------
(***************************************************************************)
(* clock.                                                                  *)
(***************************************************************************)
LEMMA ModIsWrap ==
  ASSUME NEW m \in Nat \ {0}, NEW x \in Nat, x < m + m
  PROVE  x % m = Wrap(x, m)
<1>1. CASE x < m
  <2>1. 0 \in Nat /\ 0 * m + x = x
    OBVIOUS
  <2>2. (0 * m + x) % m = x
    BY <1>1, <2>1, DivMod
  <2> QED
    BY <1>1, <2>1, <2>2 DEF Wrap
<1>2. CASE ~(x < m)
  <2> DEFINE b == x - m
  <2>1. 1 \in Nat /\ b \in Nat /\ b < m /\ 1 * m + b = x
    BY <1>2
  <2> HIDE DEF b
  <2>2. (1 * m + b) % m = b
    BY <2>1, DivMod
  <2> QED
    BY <1>2, <2>1, <2>2 DEF Wrap, b
<1> QED
  BY <1>1, <1>2

LEMMA FirstIs ==
  ASSUME NEW ref, NEW a \in Int, NEW b \in Int, NEW f \in a .. b,
         ~ref[f], \A g \in a .. f - 1 : ref[g]
  PROVE  FirstUnreferenced(ref, a, b) = f
<1>1. \A x \in a .. b : ~ref[x] /\ (\A g \in a .. x - 1 : ref[g]) => x = f
  <2> SUFFICES ASSUME NEW x \in a .. b, ~ref[x], \A g \in a .. x - 1 : ref[g] PROVE x = f
    OBVIOUS
  <2>1. ~(x < f)
    OBVIOUS
  <2>2. ~(f < x)
    OBVIOUS
  <2> QED
    BY <2>1, <2>2
<1> QED
  BY <1>1 DEF FirstUnreferenced

\* The frame SecondChance looks at after k others.
Turn(h, k, m) == Wrap(h + k, m)

LEMMA SecondChanceIs ==
  ASSUME NEW m \in Nat \ {0}, NEW p \in Policies(m), NEW ref \in [0 .. m - 1 -> BOOLEAN],
         NEW k \in 0 .. m,
         IF k < m THEN ~ref[Turn(p.clock_handle, k, m)] ELSE TRUE,
         \A g \in 0 .. k - 1 : ref[Turn(p.clock_handle, g, m)]
  PROVE  LET f == Turn(p.clock_handle, k, m) IN
         SecondChance(m, p, ref)
           = Chosen(f, [p EXCEPT !.clock_handle = Wrap(f + 1, m)],
                    [x \in 0 .. m - 1 |->
                       ref[x] /\ \A g \in 0 .. k - 1 : x # Turn(p.clock_handle, g, m)], TRUE)
<1> DEFINE h == p.clock_handle
           At_(j) == (h + j) % m
           c == IF \E j \in 0 .. m - 1 : ~ref[At_(j)]
                THEN CHOOSE j \in 0 .. m - 1 : ~ref[At_(j)] /\ \A g \in 0 .. j - 1 : ref[At_(g)]
                ELSE m
           f == Turn(h, k, m)
<1>1. h \in 0 .. m - 1
  BY DEF Policies
<1> HIDE DEF h
<1>2. \A j \in 0 .. m : At_(j) = Turn(h, j, m)
  <2> SUFFICES ASSUME NEW j \in 0 .. m PROVE (h + j) % m = Wrap(h + j, m)
    BY DEF Turn
  <2>1. h + j \in Nat /\ h + j < m + m
    BY <1>1
  <2> QED
    BY <2>1, ModIsWrap
<1> HIDE DEF At_
<1>3. /\ k < m => ~ref[At_(k)]
      /\ \A g \in 0 .. k - 1 : ref[At_(g)]
  BY <1>2 DEF h
<1>4. c = k
  <2>1. CASE k < m
    <3>1. k \in 0 .. m - 1
      BY <2>1
    <3>2. \A x \in 0 .. m - 1 : ~ref[At_(x)] /\ (\A g \in 0 .. x - 1 : ref[At_(g)]) => x = k
      <4> SUFFICES ASSUME NEW x \in 0 .. m - 1, ~ref[At_(x)], \A g \in 0 .. x - 1 : ref[At_(g)]
                   PROVE  x = k
        OBVIOUS
      <4>1. ~(x < k)
        BY <1>3
      <4>2. ~(k < x)
        BY <1>3, <2>1
      <4> QED
        BY <4>1, <4>2
    <3> QED
      BY <1>3, <2>1, <3>1, <3>2
  <2>2. CASE k = m
    BY <1>3, <2>2
  <2> QED
    BY <2>1, <2>2
<1>5. f \in 0 .. m - 1
  BY <1>1 DEF Turn, Wrap
<1>6. (f + 1) % m = Wrap(f + 1, m)
  <2> HIDE DEF f
  <2>1. f + 1 \in Nat /\ f + 1 < m + m
    BY <1>5
  <2> QED
    BY <2>1, ModIsWrap
<1>7. SecondChance(m, p, ref)
        = Chosen(At_(c), [p EXCEPT !.clock_handle = (At_(c) + 1) % m],
                 [x \in DOMAIN ref |-> ref[x] /\ \A j \in 0 .. c - 1 : x # At_(j)], TRUE)
  BY DEF SecondChance, At_, h
<1> HIDE DEF c
<1>8. At_(c) = f
  BY <1>2, <1>4
<1>9. [x \in DOMAIN ref |-> ref[x] /\ \A j \in 0 .. c - 1 : x # At_(j)]
        = [x \in 0 .. m - 1 |-> ref[x] /\ \A g \in 0 .. k - 1 : x # Turn(h, g, m)]
  BY <1>2, <1>4
<1> HIDE DEF f
<1>10. SecondChance(m, p, ref)
        = Chosen(f, [p EXCEPT !.clock_handle = Wrap(f + 1, m)],
                 [x \in 0 .. m - 1 |-> ref[x] /\ \A g \in 0 .. k - 1 : x # Turn(h, g, m)], TRUE)
  BY <1>6, <1>7, <1>8, <1>9
<1> QED
  BY <1>10 DEF f, h

LEMMA ClockUnfold ==
  ASSUME NEW m, NEW p, NEW ref, NEW f, f = FirstUnreferenced(ref, p.clock_handle, m - 2)
  PROVE  clock_evict(m, p, ref)
           = LET passed == Passed(ref, p.clock_handle, f - 1) IN
             IF f < m - 1 THEN Chosen(f, [p EXCEPT !.clock_handle = f + 1], passed, TRUE)
             ELSE IF ~ref[m - 1] THEN Chosen(m - 1, [p EXCEPT !.clock_handle = 0], passed, TRUE)
             ELSE find_first_evict(m, p, Passed(passed, m - 1, m - 1))
  BY DEF clock_evict

\* clock_evict agrees with SecondChance but for the case its loop leaves out.
LEMMA ClockIsSecondChance ==
  ASSUME NEW m \in Nat \ {0}, NEW p \in Policies(m), NEW ref \in [0 .. m - 1 -> BOOLEAN],
         ~(p.clock_handle = m - 1 /\ \A f \in 0 .. m - 1 : ref[f])
  PROVE  clock_evict(m, p, ref) = SecondChance(m, p, ref)
<1> DEFINE h == p.clock_handle
           New(f) == [p EXCEPT !.clock_handle = f]
           Cleared(k) == [x \in 0 .. m - 1 |->
                            ref[x] /\ \A g \in 0 .. k - 1 : x # Turn(h, g, m)]
<1>1. h \in 0 .. m - 1
  BY DEF Policies
<1>2. ASSUME NEW k \in 0 .. m, k < m => ~ref[Turn(h, k, m)],
             \A g \in 0 .. k - 1 : ref[Turn(h, g, m)]
      PROVE  SecondChance(m, p, ref)
               = Chosen(Turn(h, k, m), New(Wrap(Turn(h, k, m) + 1, m)), Cleared(k), TRUE)
  BY <1>2, SecondChanceIs
<1>3. CASE \E f \in h .. m - 2 : ~ref[f]
  <2> DEFINE T == {f \in h .. m - 2 : ~ref[f]}
  <2>1. T \in SUBSET (h .. m - 2) /\ T # {} /\ h \in Int /\ m - 2 \in Int
    BY <1>1, <1>3
  <2>2. PICK f \in T : \A y \in T : f <= y
    <3> HIDE DEF T
    <3> QED
      BY ONLY <2>1, LeastExists
  <2>3. /\ f \in h .. m - 2 /\ ~ref[f] /\ \A g \in h .. f - 1 : ref[g]
        /\ f \in Nat /\ f < m - 1
    <3> HIDE DEF h
    <3> QED
      BY <1>1, <2>2
  <2> DEFINE k == f - h
  <2>4. FirstUnreferenced(ref, h, m - 2) = f
    <3> HIDE DEF h
    <3> QED
      BY <1>1, <2>1, <2>3, FirstIs
  <2>5. clock_evict(m, p, ref) = Chosen(f, New(f + 1), Passed(ref, h, f - 1), TRUE)
    BY <2>3, <2>4 DEF clock_evict
  <2> HIDE DEF h, New, T
  <2>6. /\ k \in 0 .. m /\ Turn(h, k, m) = f /\ Wrap(f + 1, m) = f + 1
        /\ \A g \in 0 .. k - 1 : Turn(h, g, m) = h + g /\ h + g \in h .. f - 1
    BY <1>1, <2>3 DEF Turn, Wrap
  <2>7. SecondChance(m, p, ref) = Chosen(f, New(f + 1), Cleared(k), TRUE)
    BY <1>2, <2>3, <2>6
  <2>8. Cleared(k) = Passed(ref, h, f - 1)
    <3>1. ASSUME NEW x \in 0 .. m - 1
          PROVE  (\A g \in 0 .. k - 1 : x # Turn(h, g, m)) <=> x \notin h .. f - 1
      <4>1. x \in h .. f - 1 => x - h \in 0 .. k - 1 /\ x = h + (x - h)
        BY <1>1, <2>3
      <4> QED
        BY <2>6, <4>1
    <3>2. Passed(ref, h, f - 1) = [x \in 0 .. m - 1 |-> ref[x] /\ x \notin h .. f - 1]
      BY DEF Passed
    <3> QED
      BY <3>1, <3>2
  <2> QED
    BY <2>5, <2>7, <2>8
<1>4. CASE (\A f \in h .. m - 2 : ref[f]) /\ ~ref[m - 1]
  <2> DEFINE k == m - 1 - h
  <2>1. FirstUnreferenced(ref, h, m - 2) = (m - 2) + 1
    BY <1>4 DEF FirstUnreferenced
  <2>2. (m - 2) + 1 = m - 1
    OBVIOUS
  <2>3. clock_evict(m, p, ref) = Chosen(m - 1, New(0), Passed(ref, h, (m - 1) - 1), TRUE)
    <3> DEFINE F == m - 1
    <3>1. F = FirstUnreferenced(ref, h, m - 2) /\ ~(F < m - 1)
      BY <2>1, <2>2
    <3> HIDE DEF F
    <3>2. clock_evict(m, p, ref) = Chosen(m - 1, New(0), Passed(ref, h, F - 1), TRUE)
      BY <1>4, <3>1, ClockUnfold
    <3> QED
      BY <3>2 DEF F
  <2> HIDE DEF h, New
  <2>4. /\ k \in 0 .. m /\ Turn(h, k, m) = m - 1 /\ Wrap((m - 1) + 1, m) = 0
        /\ \A g \in 0 .. k - 1 : Turn(h, g, m) = h + g /\ h + g \in h .. m - 2
    BY <1>1 DEF Turn, Wrap
  <2>5. SecondChance(m, p, ref) = Chosen(m - 1, New(0), Cleared(k), TRUE)
    BY <1>2, <1>4, <2>4
  <2>6. Cleared(k) = Passed(ref, h, (m - 1) - 1)
    <3>1. ASSUME NEW x \in 0 .. m - 1
          PROVE  (\A g \in 0 .. k - 1 : x # Turn(h, g, m)) <=> x \notin h .. (m - 1) - 1
      <4>1. x \in h .. (m - 1) - 1 => x - h \in 0 .. k - 1 /\ x = h + (x - h)
        BY <1>1
      <4>2. (m - 1) - 1 = m - 2
        OBVIOUS
      <4> QED
        BY <2>4, <4>1, <4>2
    <3>2. Passed(ref, h, (m - 1) - 1)
            = [x \in 0 .. m - 1 |-> ref[x] /\ x \notin h .. (m - 1) - 1]
      BY DEF Passed
    <3> QED
      BY <3>1, <3>2
  <2> QED
    BY <2>3, <2>5, <2>6
<1>5. CASE (\A f \in h .. m - 2 : ref[f]) /\ ref[m - 1]
  <2> DEFINE r1 == Passed(ref, h, (m - 1) - 1)
             r2 == Passed(r1, m - 1, m - 1)
             T  == {f \in 0 .. m - 2 : ~r2[f]}
  <2>1. FirstUnreferenced(ref, h, m - 2) = (m - 2) + 1
    BY <1>5 DEF FirstUnreferenced
  <2>2. (m - 2) + 1 = m - 1
    OBVIOUS
  <2>3. clock_evict(m, p, ref) = find_first_evict(m, p, r2)
    <3> DEFINE F == m - 1
    <3>1. F = FirstUnreferenced(ref, h, m - 2) /\ ~(F < m - 1)
      BY <2>1, <2>2
    <3> HIDE DEF F
    <3>2. clock_evict(m, p, ref)
            = find_first_evict(m, p, Passed(Passed(ref, h, F - 1), m - 1, m - 1))
      BY <1>5, <3>1, ClockUnfold
    <3> QED
      BY <3>2 DEF F
  <2> HIDE DEF h
  <2>4. r2 = [x \in 0 .. m - 1 |-> ref[x] /\ x \notin h .. m - 1]
    <3>1. r1 = [x \in 0 .. m - 1 |-> ref[x] /\ x \notin h .. (m - 1) - 1]
      BY DEF Passed
    <3> HIDE DEF r1
    <3>2. r2 = [x \in 0 .. m - 1 |-> r1[x] /\ x \notin m - 1 .. m - 1]
      BY <3>1 DEF Passed
    <3>3. \A x \in 0 .. m - 1 :
            x \notin h .. m - 1 <=> x \notin h .. (m - 1) - 1 /\ x \notin m - 1 .. m - 1
      BY <1>1
    <3> HIDE DEF r2
    <3> QED
      BY <3>1, <3>2, <3>3
  <2> HIDE DEF r1, r2
  <2>5. \A x \in 0 .. m - 1 : r2[x] <=> ref[x] /\ ~(h <= x)
    <3>1. \A x \in 0 .. m - 1 : x \notin h .. m - 1 <=> ~(h <= x)
      BY <1>1
    <3> QED
      BY <2>4, <3>1, Zenon
  <2>6. \A x \in 0 .. m - 1 : h <= x => ref[x]
    BY <1>1, <1>5
  <2>7. T \in SUBSET (0 .. m - 2) /\ T # {} /\ 0 \in Int /\ m - 2 \in Int
    <3>1. CASE h < m - 1
      <4>1. h \in T
        BY <1>1, <2>5, <3>1
      <4> QED
        BY <4>1
    <3>2. CASE h = m - 1
      <4>1. PICK f \in 0 .. m - 1 : ~ref[f]
        BY <3>2 DEF h
      <4>2. f # m - 1
        BY <1>5, <4>1
      <4>3. f \in T
        BY <2>5, <4>1, <4>2
      <4> QED
        BY <4>3
    <3> QED
      BY <1>1, <3>1, <3>2
  <2>8. PICK f \in T : \A y \in T : f <= y
    <3> HIDE DEF T
    <3> QED
      BY ONLY <2>7, LeastExists
  <2>9. /\ f \in 0 .. m - 2 /\ ~r2[f] /\ f < m - 1
        /\ \A g \in 0 .. f - 1 : r2[g]
    BY <2>8
  <2>10. f <= h
    <3>1. h < f => h \in T
      BY <1>1, <2>5, <2>9
    <3> QED
      BY <1>1, <2>8, <2>9, <3>1
  <2> HIDE DEF T
  <2>11. FirstUnreferenced(r2, 0, m - 2) = f
    BY <2>9, FirstIs
  <2>12. find_first_evict(m, p, r2) = Chosen(f, New(f + 1), Passed(r2, 0, f - 1), TRUE)
    BY <2>9, <2>11 DEF find_first_evict
  <2> DEFINE k == m - h + f
  <2> HIDE DEF New
  <2>13. k \in 0 .. m /\ Turn(h, k, m) = f /\ Wrap(f + 1, m) = f + 1
    BY <1>1, <2>9, <2>10 DEF Turn, Wrap
  <2>14. k < m => ~ref[f]
    BY <1>1, <2>5, <2>9, <2>10
  <2>15. \A g \in 0 .. f - 1 : ref[g]
    BY <2>5, <2>9
  <2>16. ASSUME NEW x \in 0 .. m - 1
         PROVE  (\E g \in 0 .. k - 1 : x = Turn(h, g, m)) <=> h <= x \/ x < f
    <3>1. ASSUME NEW g \in 0 .. k - 1, x = Turn(h, g, m) PROVE h <= x \/ x < f
      BY <1>1, <2>9, <2>10, <3>1 DEF Turn, Wrap
    <3>2. CASE h <= x
      <4>1. x - h \in 0 .. k - 1 /\ Turn(h, x - h, m) = x
        BY <1>1, <2>9, <3>2 DEF Turn, Wrap
      <4> QED
        BY <3>2, <4>1
    <3>3. CASE x < f
      <4>1. m - h + x \in 0 .. k - 1 /\ Turn(h, m - h + x, m) = x
        BY <1>1, <2>9, <2>10, <3>3 DEF Turn, Wrap
      <4> QED
        BY <3>3, <4>1
    <3> QED
      BY <3>1, <3>2, <3>3
  <2>17. \A g \in 0 .. k - 1 : ref[Turn(h, g, m)]
    <3> SUFFICES ASSUME NEW g \in 0 .. k - 1 PROVE ref[Turn(h, g, m)]
      OBVIOUS
    <3>1. Turn(h, g, m) \in 0 .. m - 1
      BY <1>1, <2>13 DEF Turn, Wrap
    <3>2. h <= Turn(h, g, m) \/ Turn(h, g, m) < f
      BY <2>16, <3>1
    <3> QED
      BY <2>6, <2>9, <2>15, <3>1, <3>2
  <2>18. SecondChance(m, p, ref) = Chosen(f, New(f + 1), Cleared(k), TRUE)
    BY <1>2, <2>13, <2>14, <2>17
  <2>19. Cleared(k) = Passed(r2, 0, f - 1)
    <3>1. Passed(r2, 0, f - 1) = [x \in 0 .. m - 1 |-> r2[x] /\ x \notin 0 .. f - 1]
      BY <2>4 DEF Passed
    <3>2. \A x \in 0 .. m - 1 :
            (ref[x] /\ \A g \in 0 .. k - 1 : x # Turn(h, g, m))
              <=> r2[x] /\ x \notin 0 .. f - 1
      <4> SUFFICES ASSUME NEW x \in 0 .. m - 1
                   PROVE  (ref[x] /\ ~(h <= x \/ x < f)) <=> r2[x] /\ x \notin 0 .. f - 1
        BY <2>16
      <4>1. x \notin 0 .. f - 1 <=> ~(x < f)
        BY <2>9
      <4> QED
        BY <2>5, <4>1
    <3> QED
      BY <3>1, <3>2
  <2> QED
    BY <2>3, <2>12, <2>18, <2>19
<1> QED
  BY <1>3, <1>4, <1>5

-----------------------------------------------------------------------------
(***************************************************************************)
(* The lists of s2q.                                                       *)
(***************************************************************************)
\* list_del takes one entry out.
LEMMA Unlinked ==
  ASSUME NEW S, NEW s \in Seq(S), IsInjective(s), NEW f
  PROVE  /\ Without(s, f) \in Seq(S) /\ IsInjective(Without(s, f))
         /\ Range(Without(s, f)) = Range(s) \ {f}
<1> DEFINE at == {i \in DOMAIN s : s[i] = f}
           k  == CHOOSE i \in at : TRUE
<1>1. DOMAIN s = 1 .. Len(s) /\ Len(s) \in Nat /\ Range(s) = {s[i] : i \in 1 .. Len(s)}
  BY RangeSeq
<1>2. CASE at = {}
  <2>1. f \notin Range(s)
    BY <1>1, <1>2
  <2>2. Without(s, f) = s
    BY <1>2 DEF Without
  <2> QED
    BY <2>1, <2>2
<1>3. CASE at # {}
  <2>1. k \in 1 .. Len(s) /\ s[k] = f
    BY <1>1, <1>3
  <2>2. Without(s, f) = RemoveAt(s, k)
    BY <1>3 DEF Without
  <2> HIDE DEF k
  <2>3. RemoveAt(s, k) = RemovedAt(s, k)
    <3> DEFINE a == SubSeq(s, 1, k - 1)
               b == SubSeq(s, k + 1, Len(s))
               c == a \o b
               d == RemovedAt(s, k)
    <3>1. a \in Seq(S) /\ Len(a) = k - 1 /\ \A i \in 1 .. k - 1 : a[i] = s[i]
      BY <2>1
    <3>2. b \in Seq(S) /\ Len(b) = Len(s) - k /\ \A i \in 1 .. Len(s) - k : b[i] = s[k + i]
      BY <2>1
    <3> HIDE DEF a, b
    <3>3. /\ c \in Seq(S) /\ Len(c) = Len(s) - 1
          /\ \A i \in 1 .. Len(s) - 1 : c[i] = IF i < k THEN a[i] ELSE b[i - (k - 1)]
      <4>1. /\ c \in Seq(S) /\ Len(c) = Len(a) + Len(b)
            /\ \A i \in 1 .. Len(a) + Len(b) : c[i] = IF i <= Len(a) THEN a[i] ELSE b[i - Len(a)]
        BY <3>1, <3>2, ConcatProperties
      <4> HIDE DEF c
      <4>2. Len(a) + Len(b) = Len(s) - 1 /\ \A i \in 1 .. Len(s) - 1 : i <= Len(a) <=> i < k
        BY <2>1, <3>1, <3>2
      <4> QED
        BY <3>1, <4>1, <4>2
    <3> HIDE DEF c
    <3>4. /\ d \in Seq(S) /\ Len(d) = Len(s) - 1
          /\ \A i \in 1 .. Len(s) - 1 : d[i] = IF i < k THEN s[i] ELSE s[i + 1]
      <4>1. d = [j \in 1 .. Len(s) - 1 |-> IF j < k THEN s[j] ELSE s[j + 1]]
        BY DEF RemovedAt
      <4> HIDE DEF d
      <4> QED
        BY <2>1, <4>1
    <3> HIDE DEF d
    <3>5. ASSUME NEW i \in 1 .. Len(s) - 1 PROVE c[i] = d[i]
      <4>1. CASE i < k
        BY <2>1, <3>1, <3>3, <3>4, <4>1
      <4>2. CASE ~(i < k)
        <5>1. i - (k - 1) \in 1 .. Len(s) - k /\ k + (i - (k - 1)) = i + 1
          BY <2>1, <4>2
        <5>2. b[i - (k - 1)] = s[i + 1]
          BY <3>2, <5>1
        <5> QED
          BY <3>3, <3>4, <4>2, <5>2
      <4> QED
        BY <4>1, <4>2
    <3>6. c = d
      BY <3>3, <3>4, <3>5, SeqEqual
    <3> QED
      BY <3>6 DEF RemoveAt, a, b, c, d
  <2> QED
    BY <2>1, <2>2, <2>3, RemovedEntry
<1> QED
  BY <1>2, <1>3

\* The last entry of a list.
LEMMA LastTaken ==
  ASSUME NEW S, NEW s \in Seq(S), IsInjective(s), s # <<>>
  PROVE  /\ Front(s) \in Seq(S) /\ IsInjective(Front(s))
         /\ Range(Front(s)) = Range(s) \ {Last(s)}
         /\ Last(s) \in Range(s) /\ Last(s) \in S
<1> DEFINE n == Len(s)
           d == RemovedAt(s, n)
           c == SubSeq(s, 1, n - 1)
<1>1. n \in 1 .. n /\ n \in Nat /\ Front(s) = c /\ Last(s) = s[n]
  BY DEF Front, Last
<1>2. c = d
  <2>1. c \in Seq(S) /\ Len(c) = n - 1 /\ \A i \in 1 .. n - 1 : c[i] = s[i]
    <3>1. 1 \in Int /\ n - 1 \in Int /\ \A i \in 1 .. n - 1 : s[i] \in S
      BY <1>1
    <3>2. /\ c \in Seq(S)
          /\ Len(c) = IF 1 <= n - 1 THEN (n - 1) - 1 + 1 ELSE 0
          /\ \A i \in 1 .. (n - 1) - 1 + 1 : c[i] = s[1 + i - 1]
      BY <3>1, SubSeqProperties
    <3> HIDE DEF c
    <3>3. \A i \in 1 .. n - 1 : i \in 1 .. (n - 1) - 1 + 1 /\ 1 + i - 1 = i
      BY <1>1
    <3> HIDE DEF n
    <3>4. \A i \in 1 .. n - 1 : c[i] = s[i]
      BY <3>2, <3>3
    <3>5. Len(c) = n - 1
      BY <1>1, <3>2
    <3> QED
      BY <3>2, <3>4, <3>5
  <2>2. d \in Seq(S) /\ Len(d) = n - 1 /\ \A i \in 1 .. n - 1 : d[i] = s[i]
    <3>1. d = [j \in 1 .. n - 1 |-> IF j < n THEN s[j] ELSE s[j + 1]]
      BY DEF RemovedAt
    <3> HIDE DEF d
    <3> QED
      BY <1>1, <3>1
  <2> HIDE DEF c, d
  <2> QED
    BY <2>1, <2>2, SeqEqual
<1> HIDE DEF c
<1> QED
  BY <1>1, <1>2, RemovedEntry

\* A new entry at the head.
LEMMA Pushed ==
  ASSUME NEW S, NEW q \in Seq(S), IsInjective(q), NEW t \in S, t \notin Range(q)
  PROVE  /\ <<t>> \o q \in Seq(S) /\ IsInjective(<<t>> \o q)
         /\ Range(<<t>> \o q) = Range(q) \cup {t}
<1> DEFINE r == <<t>> \o q
<1>1. r \in Seq(S) /\ Len(r) = Len(q) + 1 /\ Len(q) \in Nat
  OBVIOUS
<1>2. \A i \in 1 .. Len(r) : r[i] = IF i = 1 THEN t ELSE q[i - 1]
  OBVIOUS
<1> HIDE DEF r
<1>3. Range(q) = {q[i] : i \in 1 .. Len(q)} /\ Range(r) = {r[i] : i \in 1 .. Len(r)}
  BY <1>1, RangeSeq
<1>4. ASSUME NEW x \in Range(q) PROVE x \in Range(r)
  <2>1. PICK i \in 1 .. Len(q) : x = q[i]
    BY <1>3
  <2>2. i + 1 \in 1 .. Len(r) /\ r[i + 1] = x
    BY <1>1, <1>2, <2>1
  <2> QED
    BY <1>3, <2>2
<1>5. 1 \in 1 .. Len(r) /\ r[1] = t
  BY <1>1, <1>2
<1>6. \A i \in 1 .. Len(r) : i # 1 => i - 1 \in 1 .. Len(q)
  BY <1>1
<1>7. Range(r) = Range(q) \cup {t}
  <2>1. ASSUME NEW x \in Range(r), x # t PROVE x \in Range(q)
    <3>1. PICK i \in 1 .. Len(r) : x = r[i]
      BY <1>3
    <3>2. i - 1 \in 1 .. Len(q) /\ r[i] = q[i - 1]
      BY <1>2, <1>5, <1>6, <2>1, <3>1
    <3> QED
      BY <1>3, <3>1, <3>2
  <2>2. t \in Range(r)
    BY <1>3, <1>5
  <2> QED
    BY <1>4, <2>1, <2>2
<1>8. IsInjective(r)
  <2>1. \A i \in 1 .. Len(q) : q[i] # t
    BY <1>3
  <2>2. \A i, j \in 1 .. Len(q) : q[i] = q[j] => i = j
    BY RangeSeq
  <2>3. ASSUME NEW i \in 1 .. Len(r), NEW j \in 1 .. Len(r), r[i] = r[j] PROVE i = j
    <3>1. i # 1 => r[i] = q[i - 1] /\ i - 1 \in 1 .. Len(q)
      BY <1>2, <1>6
    <3>2. j # 1 => r[j] = q[j - 1] /\ j - 1 \in 1 .. Len(q)
      BY <1>2, <1>6
    <3>3. CASE i = 1 \/ j = 1
      BY <1>5, <2>1, <2>3, <3>1, <3>2, <3>3
    <3>4. CASE i # 1 /\ j # 1
      <4>1. i - 1 = j - 1
        BY <2>2, <2>3, <3>1, <3>2, <3>4
      <4> QED
        BY <4>1
    <3> QED
      BY <3>3, <3>4
  <2> QED
    BY <1>1, <2>3, RangeSeq
<1> QED
  BY <1>1, <1>7, <1>8 DEF r

\* The lists of s2q hold the frames of D, each once, and Am those with their bit set.
S2qLists(p, D, ref) ==
  /\ IsInjective(p.A1) /\ IsInjective(p.Am)
  /\ Range(p.A1) \cap Range(p.Am) = {} /\ Range(p.A1) \cup Range(p.Am) = D
  /\ \A f \in D : f \in Range(p.Am) <=> ref[f]

\* The two lists as one.
LEMMA ListsJoined ==
  ASSUME NEW S, NEW s \in Seq(S), NEW t \in Seq(S), IsInjective(s), IsInjective(t),
         Range(s) \cap Range(t) = {}
  PROVE  /\ s \o t \in Seq(S) /\ IsInjective(s \o t)
         /\ Range(s \o t) = Range(s) \cup Range(t)
<1> DEFINE r == s \o t
           m == Len(s)
           n == Len(t)
<1>1. /\ r \in Seq(S) /\ Len(r) = m + n /\ m \in Nat /\ n \in Nat
      /\ \A i \in 1 .. m + n : r[i] = IF i <= m THEN s[i] ELSE t[i - m]
  BY ConcatProperties
<1>2. /\ Range(s) = {s[i] : i \in 1 .. m} /\ Range(t) = {t[i] : i \in 1 .. n}
      /\ \A i, j \in 1 .. m : s[i] = s[j] => i = j
      /\ \A i, j \in 1 .. n : t[i] = t[j] => i = j
  BY RangeSeq
<1> HIDE DEF r, m, n
<1>3. Range(r) = {r[i] : i \in 1 .. m + n}
  BY <1>1, RangeSeq
<1>4. ASSUME NEW i \in 1 .. m + n
      PROVE  \/ i \in 1 .. m /\ r[i] = s[i]
             \/ i - m \in 1 .. n /\ r[i] = t[i - m]
  BY <1>1
<1>5. ASSUME NEW i \in 1 .. m PROVE i \in 1 .. m + n /\ r[i] = s[i]
  BY <1>1
<1>6. ASSUME NEW i \in 1 .. n PROVE i + m \in 1 .. m + n /\ r[i + m] = t[i]
  BY <1>1
<1>7. Range(r) = Range(s) \cup Range(t)
  <2>1. \A x \in Range(r) : x \in Range(s) \cup Range(t)
    BY <1>2, <1>3, <1>4
  <2>2. \A x \in Range(s) : x \in Range(r)
    BY <1>2, <1>3, <1>5
  <2>3. \A x \in Range(t) : x \in Range(r)
    BY <1>2, <1>3, <1>6
  <2> QED
    BY <2>1, <2>2, <2>3
<1>8. ASSUME NEW i \in 1 .. m + n, NEW j \in 1 .. m + n, r[i] = r[j] PROVE i = j
  <2>1. CASE i \in 1 .. m /\ r[i] = s[i] /\ j \in 1 .. m /\ r[j] = s[j]
    BY <1>2, <1>8, <2>1
  <2>2. CASE /\ i - m \in 1 .. n /\ r[i] = t[i - m]
             /\ j - m \in 1 .. n /\ r[j] = t[j - m]
    <3>1. i - m = j - m
      BY <1>2, <1>8, <2>2
    <3> QED
      BY <1>1, <3>1
  <2>3. ~(\/ i \in 1 .. m /\ r[i] = s[i] /\ j - m \in 1 .. n /\ r[j] = t[j - m]
          \/ j \in 1 .. m /\ r[j] = s[j] /\ i - m \in 1 .. n /\ r[i] = t[i - m])
    BY <1>2, <1>8
  <2>4. (i \in 1 .. m /\ r[i] = s[i]) \/ (i - m \in 1 .. n /\ r[i] = t[i - m])
    BY <1>4
  <2>5. (j \in 1 .. m /\ r[j] = s[j]) \/ (j - m \in 1 .. n /\ r[j] = t[j - m])
    BY <1>4
  <2> QED
    BY <2>1, <2>2, <2>3, <2>4, <2>5
<1>9. IsInjective(r)
  BY <1>1, <1>8, RangeSeq
<1> QED
  BY <1>1, <1>7, <1>9 DEF r

LEMMA LinkedIff ==
  ASSUME NEW m, NEW p \in Policies(m), NEW D, NEW ref, S2qLists(p, D, ref), NEW f
  PROVE  Linked(p, f) <=> f \in D
<1> DEFINE S == 0 .. m - 1
           a == p.A1
           b == p.Am
           r == a \o b
<1>1. a \in Seq(S) /\ b \in Seq(S)
  BY DEF Policies
<1>2. IsInjective(a) /\ IsInjective(b) /\ Range(a) \cap Range(b) = {}
      /\ Range(a) \cup Range(b) = D
  BY DEF S2qLists
<1>3. Linked(p, f) <=> \E i \in DOMAIN r : r[i] = f
  BY DEF Linked
<1> HIDE DEF S, a, b
<1>4. r \in Seq(S) /\ Range(r) = D
  BY <1>1, <1>2, ListsJoined
<1> HIDE DEF r
<1> QED
  BY <1>3, <1>4 DEF Range

\* A reference to the page in frame f, which is listed or has just come in, keeps
\* the lists and the bits together, and finds the frame listed if it is marked.
LEMMA S2qRefLists ==
  ASSUME NEW m, NEW p \in Policies(m), NEW E, NEW ref \in [E -> BOOLEAN],
         NEW f \in E, E \subseteq 0 .. m - 1,
         NEW D, D = E \/ (D = E \ {f} /\ ~ref[f]),
         S2qLists(p, D, ref)
  PROVE  LET r == s2q_ref(p, ref, f) IN r.ok /\ S2qLists(r.policy, E, r.ref)
<1> DEFINE S == 0 .. m - 1
           a == p.A1
           b == p.Am
           a2 == Without(a, f)
           b2 == Without(b, f)
           r == s2q_ref(p, ref, f)
<1>1. a \in Seq(S) /\ b \in Seq(S) /\ f \in S
  BY DEF Policies
<1>2. /\ IsInjective(a) /\ IsInjective(b)
      /\ Range(a) \cap Range(b) = {} /\ Range(a) \cup Range(b) = D
      /\ \A g \in D : g \in Range(b) <=> ref[g]
  BY DEF S2qLists
<1>3. Linked(p, f) <=> f \in D
  BY LinkedIff
<1>4. p \in [i : S, clock_handle : S, A1 : Seq(S), Am : Seq(S)]
  BY DEF Policies
<1> HIDE DEF S, a, b
<1>5. /\ a2 \in Seq(S) /\ IsInjective(a2) /\ Range(a2) = Range(a) \ {f}
      /\ b2 \in Seq(S) /\ IsInjective(b2) /\ Range(b2) = Range(b) \ {f}
  BY <1>1, <1>2, Unlinked
<1> HIDE DEF a2, b2
<1>6. CASE ref[f]
  <2> DEFINE q == [p EXCEPT !.A1 = a2, !.Am = <<f>> \o b2]
  <2>1. f \in D /\ D = E /\ f \in Range(b)
    BY <1>2, <1>6
  <2>2. r = Chosen(f, q, ref, Linked(p, f))
    BY <1>6 DEF s2q_ref, a, b, a2, b2
  <2>3. r.ok /\ r.policy = q /\ r.ref = ref
    BY <1>3, <2>1, <2>2 DEF Chosen
  <2>4. q.A1 = a2 /\ q.Am = <<f>> \o b2
    BY <1>4
  <2>5. IsInjective(<<f>> \o b2) /\ Range(<<f>> \o b2) = Range(b2) \cup {f}
    BY <1>1, <1>5, Pushed
  <2> HIDE DEF q, r
  <2>6. /\ \A g \in E : g \in Range(<<f>> \o b2) <=> ref[g]
        /\ Range(a2) \cap Range(<<f>> \o b2) = {} /\ Range(a2) \cup Range(<<f>> \o b2) = E
    BY <1>2, <1>5, <2>1, <2>5
  <2> QED
    BY <1>5, <2>3, <2>4, <2>5, <2>6 DEF S2qLists, r
<1>7. CASE ~ref[f] /\ f \in D
  <2> DEFINE q == [p EXCEPT !.A1 = a2, !.Am = <<f>> \o b]
             n == [ref EXCEPT ![f] = TRUE]
  <2>1. D = E /\ f \notin Range(b) /\ f \in Range(a)
    BY <1>2, <1>7
  <2>2. r = Chosen(f, q, n, TRUE)
    BY <1>3, <1>7 DEF s2q_ref, a, b, a2, b2
  <2>3. r.ok /\ r.policy = q /\ r.ref = n
    BY <2>2 DEF Chosen
  <2>4. q.A1 = a2 /\ q.Am = <<f>> \o b
    BY <1>4 DEF b
  <2>5. IsInjective(<<f>> \o b) /\ Range(<<f>> \o b) = Range(b) \cup {f}
    BY <1>1, <1>2, <2>1, Pushed
  <2>6. \A g \in E : n[g] <=> (g = f \/ ref[g])
    OBVIOUS
  <2> HIDE DEF q, r, n
  <2>7. /\ \A g \in E : g \in Range(<<f>> \o b) <=> n[g]
        /\ Range(a2) \cap Range(<<f>> \o b) = {} /\ Range(a2) \cup Range(<<f>> \o b) = E
    BY <1>2, <1>5, <2>1, <2>5, <2>6
  <2> QED
    BY <1>5, <2>3, <2>4, <2>5, <2>7 DEF S2qLists, r
<1>8. CASE ~ref[f] /\ f \notin D
  <2> DEFINE q == [p EXCEPT !.A1 = Append(a, f)]
  <2>1. D = E \ {f} /\ f \notin Range(a)
    BY <1>2, <1>8
  <2>2. r = Chosen(f, q, ref, TRUE)
    BY <1>3, <1>8 DEF s2q_ref, a
  <2>3. r.ok /\ r.policy = q /\ r.ref = ref
    BY <2>2 DEF Chosen
  <2>4. q.A1 = Append(a, f) /\ q.Am = b
    BY <1>4 DEF b
  <2>5. IsInjective(Append(a, f)) /\ Range(Append(a, f)) = Range(a) \cup {f}
    BY <1>1, <1>2, <2>1, AppendedNew
  <2> HIDE DEF q, r
  <2>6. /\ \A g \in E : g \in Range(b) <=> ref[g]
        /\ Range(Append(a, f)) \cap Range(b) = {} /\ Range(Append(a, f)) \cup Range(b) = E
    BY <1>2, <1>8, <2>1, <2>5
  <2> QED
    BY <1>2, <2>3, <2>4, <2>5, <2>6 DEF S2qLists, r
<1> QED
  BY <1>6, <1>7, <1>8

\* With memory full s2q_evict finds its victim: not all m frames are in A1, which
\* is at most threshold long, so Am has one.  The victim leaves its list unmarked.
LEMMA S2qEvictLists ==
  ASSUME NEW m \in Nat \ {0}, NEW p \in Policies(m), NEW ref \in [0 .. m - 1 -> BOOLEAN],
         NEW threshold \in Nat, threshold < m,
         S2qLists(p, 0 .. m - 1, ref)
  PROVE  LET r == s2q_evict(m, p, ref, threshold)
             E == (0 .. m - 1) \ {r.frame}
         IN /\ r.ok /\ r.frame \in 0 .. m - 1 /\ ~r.ref[r.frame]
            /\ S2qLists(r.policy, E, r.ref)
<1> DEFINE S == 0 .. m - 1
           a == p.A1
           b == p.Am
           r == s2q_evict(m, p, ref, threshold)
<1>1. a \in Seq(S) /\ b \in Seq(S) /\ p \in [i : S, clock_handle : S, A1 : Seq(S), Am : Seq(S)]
  BY DEF Policies
<1>2. /\ IsInjective(a) /\ IsInjective(b) /\ ref \in [S -> BOOLEAN]
      /\ Range(a) \cap Range(b) = {} /\ Range(a) \cup Range(b) = S
      /\ \A g \in S : g \in Range(b) <=> ref[g]
  BY DEF S2qLists
<1>3. Len(a) > threshold => a # <<>>
  BY <1>1
<1>4. Len(a) <= threshold => b # <<>>
  <2> SUFFICES ASSUME b = <<>>, Len(a) <= threshold PROVE FALSE
    OBVIOUS
  <2> HIDE DEF a, b
  <2>1. Range(a) = S
    BY <1>1, <1>2, RangeSeq
  <2>2. Len(a) \in Nat /\ DOMAIN a = 1 .. Len(a) /\ Range(a) = {a[i] : i \in 1 .. Len(a)}
    BY <1>1, RangeSeq
  <2>3. a \in Bijection(1 .. Len(a), S)
    <3>1. a \in [1 .. Len(a) -> S] /\ \A x \in S : \E i \in 1 .. Len(a) : a[i] = x
      BY <1>1, <2>1, <2>2
    <3> QED
      BY <1>2, <3>1 DEF Bijection, Injection, Surjection
  <2>4. IsFiniteSet(1 .. Len(a)) /\ Cardinality(1 .. Len(a)) = Len(a) /\ Cardinality(S) = m
    <3>1. IsFiniteSet(1 .. Len(a)) /\ Cardinality(1 .. Len(a)) = IF 1 > Len(a) THEN 0 ELSE Len(a) - 1 + 1
      <4>1. 1 \in Int /\ Len(a) \in Int
        BY <2>2
      <4> HIDE DEF r
      <4> QED
        BY ONLY <4>1, FS_Interval
    <3>2. Cardinality(0 .. m - 1) = IF 0 > m - 1 THEN 0 ELSE (m - 1) - 0 + 1
      BY FS_Interval
    <3> QED
      BY <2>2, <3>1, <3>2
  <2>5. ExistsBijection(1 .. Len(a), S)
    BY <2>3 DEF ExistsBijection
  <2>6. Cardinality(S) = Cardinality(1 .. Len(a))
    BY <2>4, <2>5, FS_Bijection
  <2> QED
    BY <2>2, <2>4, <2>6
<1> HIDE DEF S, a, b
<1>5. CASE Len(a) > threshold
  <2> DEFINE v == Head(a)
             q == [p EXCEPT !.A1 = Tail(a)]
             n == [ref EXCEPT ![v] = FALSE]
             E == S \ {v}
  <2>1. r = Chosen(v, q, n, TRUE)
    BY <1>5 DEF s2q_evict, a
  <2>2. r.ok /\ r.frame = v /\ r.policy = q /\ r.ref = n
    BY <2>1 DEF Chosen
  <2>3. /\ IsInjective(Tail(a)) /\ Range(Tail(a)) = Range(a) \ {v}
        /\ v \in Range(a) /\ v \in S
    BY <1>1, <1>2, <1>3, <1>5, HeadTaken
  <2>4. q.A1 = Tail(a) /\ q.Am = b
    BY <1>1 DEF b
  <2> HIDE DEF v
  <2>5. ~n[v] /\ \A g \in E : n[g] = ref[g]
    BY <1>2, <2>3
  <2> HIDE DEF q, n, r
  <2>6. /\ \A g \in E : g \in Range(b) <=> n[g]
        /\ Range(Tail(a)) \cap Range(b) = {} /\ Range(Tail(a)) \cup Range(b) = E
    BY <1>2, <2>3, <2>5
  <2>7. S2qLists(r.policy, E, r.ref)
    BY <1>2, <2>2, <2>3, <2>4, <2>6 DEF S2qLists
  <2> QED
    BY <2>2, <2>3, <2>5, <2>7 DEF r, S
<1>6. CASE ~(Len(a) > threshold)
  <2> DEFINE v == Last(b)
             q == [p EXCEPT !.Am = Front(b)]
             n == [ref EXCEPT ![v] = FALSE]
             E == S \ {v}
  <2>1. b # <<>>
    BY <1>1, <1>4, <1>6
  <2>2. r = Chosen(v, q, n, ref[v])
    BY <1>6, <2>1 DEF s2q_evict, a, b
  <2>3. /\ IsInjective(Front(b)) /\ Range(Front(b)) = Range(b) \ {v}
        /\ v \in Range(b) /\ v \in S
    BY <1>1, <1>2, <2>1, LastTaken
  <2>4. r.ok = ref[v] /\ r.frame = v /\ r.policy = q /\ r.ref = n
    BY <2>2 DEF Chosen
  <2>5. q.A1 = a /\ q.Am = Front(b)
    BY <1>1 DEF a
  <2> HIDE DEF v
  <2>6. ref[v] /\ ~n[v] /\ \A g \in E : n[g] = ref[g]
    BY <1>2, <2>3
  <2> HIDE DEF q, n, r
  <2>7. /\ \A g \in E : g \in Range(Front(b)) <=> n[g]
        /\ Range(a) \cap Range(Front(b)) = {} /\ Range(a) \cup Range(Front(b)) = E
    BY <1>2, <2>3, <2>6
  <2>8. S2qLists(r.policy, E, r.ref)
    BY <1>2, <2>3, <2>4, <2>5, <2>7 DEF S2qLists
  <2> QED
    BY <2>3, <2>4, <2>6, <2>8 DEF r, S
<1> QED
  BY <1>5, <1>6
=============================================================================
