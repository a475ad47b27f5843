----------------------- MODULE VirtualMemoryPolicyProofs -----------------------
(***************************************************************************)
(* The replacement algorithms at work in VirtualMemory: the victims of rr  *)
(* and clock, the lists of s2q.                                            *)
(***************************************************************************)
EXTENDS VirtualMemoryProofs

(***************************************************************************)
(* rr is FIFO.  The frames fill from 0 up; then the counter of rr_evict    *)
(* and the order of arrival go round together.                             *)
(***************************************************************************)
Filled(n, m, cm, p, arr) ==
  /\ n \in 0 .. m /\ DOMAIN cm = 0 .. n - 1
  /\ n < m => p.i = 0 /\ arr = [j \in 1 .. n |-> j - 1]
  /\ n = m => arr = Rotation(p.i, m)

FIFOInv ==
  VMInv /\ (opt.alg = "rr" /\ Running => \E n \in Nat : Filled(n, opt.memsize, coremap, policy, arrivals))

\* What allocate_frame returns under rr.
LEMMA AllocateRR ==
  ASSUME VMInv, Running, opt.alg = "rr", NEW q, NEW a \in allocate_frame(q)
  PROVE  IF Frames \ DOMAIN coremap # {}
         THEN a.frame = Min(Frames \ DOMAIN coremap) /\ a.policy = policy
         ELSE /\ a.frame = policy.i
              /\ a.policy = [policy EXCEPT !.i = (policy.i + 1) % opt.memsize]
<1>1. CASE Frames \ DOMAIN coremap # {}
  BY <1>1 DEF allocate_frame
<1>2. CASE Frames \ DOMAIN coremap = {}
  <2>1. PICK c \in evict_func : a.frame = c.frame /\ a.policy = c.policy
    BY <1>2 DEF allocate_frame
  <2>2. c = rr_evict(opt.memsize, policy, Referenced(pte, coremap))
    BY <2>1 DEF evict_func
  <2> QED
    BY <1>2, <2>1, <2>2 DEF rr_evict, Chosen
<1> QED
  BY <1>1, <1>2

LEMMA PlaceFIFO ==
  ASSUME FIFOInv, Running, opt.alg = "rr", NEW op, NEW q, NEW o,
         NEW a \in allocate_frame(q), NEW e, NEW bytes, Place(op, q, o, a, e, bytes)
  PROVE  \E n \in Nat : Filled(n, opt.memsize, coremap', policy', arrivals')
<1> DEFINE m == opt.memsize
<1>1. VMInv /\ VMTypeOK /\ m \in Nat \ {0} /\ Frames = 0 .. m - 1
  BY VMAssumption DEF FIFOInv, VMInv, VMTypeOK, Frames
<1>2. /\ coremap' = Put(coremap, a.frame, q) /\ policy' = a.policy
      /\ arrivals' = Append(Without(arrivals, a.frame), a.frame)
  BY DEF Place, access_mem, ref_func, Chosen
<1>3. PICK n \in Nat : Filled(n, m, coremap, policy, arrivals)
  BY DEF FIFOInv
<1>4. policy \in Policies(m)
  BY <1>1 DEF VMTypeOK, Policies
<1> HIDE DEF m
<1>5. n \in 0 .. m /\ DOMAIN coremap = 0 .. n - 1
  BY <1>3 DEF Filled
<1>6. CASE n < m
  <2>1. policy.i = 0 /\ arrivals = [j \in 1 .. n |-> j - 1]
    BY <1>3, <1>6 DEF Filled
  <2>2. n \in Frames \ DOMAIN coremap
    BY <1>1, <1>5, <1>6
  <2>3. Min(Frames \ DOMAIN coremap) = n
    BY <1>1, <1>5, <1>6, MinOfRest
  <2>4. a.frame = n /\ a.policy = policy
    BY <1>1, <2>2, <2>3, AllocateRR
  <2>5. arrivals' = [j \in 1 .. n + 1 |-> j - 1]
    <3>1. Without(arrivals, n) = arrivals
      BY <2>1 DEF Without
    <3>2. arrivals \in Seq(Int) /\ Len(arrivals) = n
      BY <2>1
    <3>3. arrivals' = Append(arrivals, n)
      BY <1>2, <2>4, <3>1
    <3> DEFINE t == Append(arrivals, n)
    <3>4. /\ t \in Seq(Int) /\ DOMAIN t = 1 .. n + 1 /\ t[n + 1] = n
          /\ \A j \in 1 .. n : t[j] = arrivals[j]
      BY <3>2
    <3> HIDE DEF t
    <3>5. t = [j \in DOMAIN t |-> t[j]]
      BY <3>4
    <3>6. ASSUME NEW j \in 1 .. n + 1 PROVE t[j] = j - 1
      <4>1. CASE j = n + 1
        BY <3>4, <4>1
      <4>2. CASE j # n + 1
        <5>1. j \in 1 .. n
          BY <4>2
        <5>2. arrivals[j] = j - 1
          BY <2>1, <5>1
        <5> QED
          BY <3>4, <5>1, <5>2
      <4> QED
        BY <4>1, <4>2
    <3>7. t = [j \in 1 .. n + 1 |-> j - 1]
      BY <3>4, <3>5, <3>6, Zenon
    <3> QED
      BY <3>3, <3>7 DEF t
  <2>6. DOMAIN coremap' = 0 .. (n + 1) - 1
    BY <1>2, <1>5, <2>4 DEF Put
  <2>7. policy'.i = 0
    BY <1>2, <2>1, <2>4
  <2>8. n + 1 = m => arrivals' = Rotation(policy'.i, m)
    BY <2>5, <2>7 DEF Rotation, Wrap
  <2>9. n + 1 \in 0 .. m
    BY <1>1, <1>6
  <2>10. Filled(n + 1, m, coremap', policy', arrivals')
    BY <2>5, <2>6, <2>7, <2>8, <2>9, Zenon DEF Filled
  <2> QED
    BY <2>10 DEF m
<1>7. CASE n = m
  <2>1. arrivals = Rotation(policy.i, m)
    BY <1>3, <1>7 DEF Filled
  <2>2. Frames \ DOMAIN coremap = {}
    BY <1>1, <1>5, <1>7
  <2>3. /\ a.frame = policy.i
        /\ a.policy = [policy EXCEPT !.i = (policy.i + 1) % m]
    BY <1>1, <2>2, AllocateRR DEF m
  <2>4. policy.i \in 0 .. m - 1
    BY <1>4 DEF Policies
  <2>5. arrivals' = Rotation((policy.i + 1) % m, m)
    BY <1>1, <1>2, <2>1, <2>3, <2>4, Rotate
  <2>6. policy'.i = (policy.i + 1) % m
    BY <1>2, <1>4, <2>3 DEF Policies
  <2>7. DOMAIN coremap' = 0 .. n - 1
    BY <1>2, <1>5, <1>7, <2>3, <2>4 DEF Put
  <2>8. Filled(n, m, coremap', policy', arrivals')
    BY <1>5, <1>7, <2>5, <2>6, <2>7 DEF Filled
  <2> QED
    BY <2>8 DEF m
<1> QED
  BY <1>1, <1>5, <1>6, <1>7

LEMMA NextFIFOInv == FIFOInv /\ [Next]_vars => FIFOInv'
<1> SUFFICES ASSUME FIFOInv, [Next]_vars PROVE FIFOInv'
  OBVIOUS
<1> DEFINE F == \E n \in Nat : Filled(n, opt.memsize, coremap, policy, arrivals)
           G == \E n \in Nat : Filled(n, opt.memsize, coremap', policy', arrivals')
<1>1. VMInv' /\ opt' = opt
  BY NextVMInv, OptionsFixed DEF FIFOInv
<1>2. SUFFICES ASSUME opt.alg = "rr", Running' PROVE G
  <2>1. (opt.alg = "rr" /\ Running)' => opt.alg = "rr" /\ Running'
    BY <1>1
  <2>2. G => (\E n \in Nat : Filled(n, opt.memsize, coremap, policy, arrivals))'
    BY <1>1 DEF Filled
  <2> QED
    BY <1>1, <1>2, <2>1, <2>2 DEF FIFOInv
<1>3. Running => F
  BY <1>2 DEF FIFOInv
<1>4. UNCHANGED <<coremap, policy, arrivals>> /\ Running => G
  BY <1>3
<1> HIDE DEF F, G
<1>5. ASSUME NEW q \in Pages, NEW o \in Offsets, NEW op \in Ops, Hit(q, o, op) PROVE G
  <2>1. UNCHANGED <<coremap, policy, arrivals>>
    BY <1>2, <1>5 DEF Hit, Stop, access_mem, ref_func, Chosen
  <2> QED
    BY <1>4, <1>5, <2>1 DEF Hit
<1>6. ASSUME NEW q \in Pages, NEW o \in Offsets, NEW op \in Ops, FirstReference(q, o, op)
      PROVE  G
  <2>1. PICK a \in allocate_frame(q) :
          IF a.ok THEN Place(op, q, o, a, NewEntry, [b \in Bytes |-> 0]) ELSE Stop("assert_policy")
    BY <1>6 DEF FirstReference
  <2>2. Place(op, q, o, a, NewEntry, [b \in Bytes |-> 0])
    BY <1>2, <2>1 DEF Stop, Running
  <2> QED
    BY <1>2, <1>6, <2>2, PlaceFIFO DEF FirstReference, G
<1>7. ASSUME NEW q \in Pages, NEW o \in Offsets, NEW op \in Ops, SwapIn(q, o, op)
      PROVE  G
  <2>1. PICK a \in allocate_frame(q) : \E e, bytes : Place(op, q, o, a, e, bytes)
    BY <1>2, <1>7 DEF SwapIn, Stop, Running
  <2> QED
    BY <1>2, <1>7, <2>1, PlaceFIFO DEF SwapIn, G
<1>8. ASSUME NEW q \in Pages, WildPointer(q) PROVE FALSE
  BY <1>2, <1>8 DEF WildPointer, Stop, Running
<1>9. ~free_pagetable
  BY <1>2 DEF free_pagetable, Running
<1>10. UNCHANGED vars => G
  BY <1>2, <1>4 DEF vars, Running
<1> QED
  BY <1>5, <1>6, <1>7, <1>8, <1>9, <1>10 DEF Next, Over

\* rr evicts the page that came in first, however many hits and evictions there
\* were before.
THEOREM VMRoundRobinIsFIFO == Spec => []RoundRobinIsFIFO
<1>1. Init => FIFOInv
  <2> SUFFICES ASSUME Init PROVE Filled(0, opt.memsize, coremap, policy, arrivals)
    BY InitVMInv DEF FIFOInv
  <2>1. opt.memsize \in Nat \ {0}
    BY VMAssumption DEF Init
  <2>2. DOMAIN coremap = 0 .. 0 - 1 /\ policy.i = 0 /\ arrivals = [j \in 1 .. 0 |-> j - 1]
    BY DEF Init, NoHistory
  <2> QED
    BY <2>1, <2>2 DEF Filled
<1>2. FIFOInv => RoundRobinIsFIFO
  <2> SUFFICES ASSUME FIFOInv, opt.alg = "rr", Full, NEW c \in evict_func
               PROVE  c.frame = Head(arrivals)
    BY DEF RoundRobinIsFIFO
  <2>1. /\ opt.memsize \in Nat \ {0} /\ policy.i \in 0 .. opt.memsize - 1
        /\ DOMAIN coremap = 0 .. opt.memsize - 1
    BY VMAssumption DEF FIFOInv, VMInv, VMTypeOK, Frames, Full
  <2>2. PICK n \in Nat : Filled(n, opt.memsize, coremap, policy, arrivals)
    BY DEF FIFOInv, Full
  <2>3. n = opt.memsize
    BY <2>1, <2>2 DEF Filled
  <2>4. arrivals = Rotation(policy.i, opt.memsize)
    BY <2>2, <2>3 DEF Filled
  <2>5. Head(arrivals) = policy.i
    BY <2>1, <2>4 DEF Rotation, Wrap
  <2>6. c = rr_evict(opt.memsize, policy, Referenced(pte, coremap))
    BY DEF evict_func
  <2> QED
    BY <2>5, <2>6 DEF rr_evict, Chosen
<1> QED
  BY <1>1, <1>2, NextFIFOInv, PTL DEF Spec

-----------------------------------------------------------------------------

\* With memory full, clock evicts as CLOCK does, unless its handle is at the
\* last frame and every page is referenced.
THEOREM VMClockIsCLOCK == Spec => []ClockExceptAtLastFrame
<1>1. VMInv => ClockExceptAtLastFrame
  <2> SUFFICES ASSUME VMInv, Full, ~AtLastFrame PROVE TextbookClock
    BY DEF ClockExceptAtLastFrame
  <2> DEFINE m   == opt.memsize
             ref == Referenced(pte, coremap)
  <2>1. /\ VMTypeOK /\ Agree(pte, coremap, swapmap) /\ EntriesOK(pte)
        /\ DOMAIN coremap = Frames
    BY DEF VMInv, VMTypeOK, EntriesOK, Full
  <2>2. m \in Nat \ {0} /\ Frames = 0 .. m - 1 /\ policy \in Policies(m)
    BY <2>1, VMAssumption DEF VMTypeOK, Frames, Policies
  <2>3. ref \in [Frames -> BOOLEAN]
    BY <2>1, ReferencedType DEF Agree
  <2>4. \A f \in Frames : ref[f] = pte[coremap[f]].referenced_bit
    BY <2>1 DEF Referenced
  <2>5. ~(policy.clock_handle = m - 1 /\ \A f \in 0 .. m - 1 : ref[f])
    BY <2>2, <2>4 DEF AtLastFrame
  <2> HIDE DEF m, ref
  <2>6. clock_evict(m, policy, ref) = SecondChance(m, policy, ref)
    BY <2>2, <2>3, <2>5, ClockIsSecondChance
  <2> QED
    BY <2>6 DEF TextbookClock, m, ref
<1> QED
  BY InitVMInv, NextVMInv, <1>1, PTL DEF Spec

-----------------------------------------------------------------------------
(***************************************************************************)
(* The lists of s2q.  s2q_ref goes by the referenced bit: what it needs is *)
(* that the bit is set for the pages in Am and no others, that every frame *)
(* is listed, and that a page comes back from swap with its bit clear.     *)
(***************************************************************************)
Unmarked(ptes) == \A q \in DOMAIN ptes : ~ptes[q].valid_bit => ~ptes[q].referenced_bit

ListsInv ==
  VMInv /\ (opt.alg = "s2q" /\ Running =>
              S2qLists(policy, DOMAIN coremap, Referenced(pte, coremap)) /\ Unmarked(pte))

\* The page of a frame has an entry, is valid, and is of that frame only.
LEMMA FramesApart ==
  ASSUME NEW ptes, NEW cm, NEW sm, Agree(ptes, cm, sm)
  PROVE  /\ \A f \in DOMAIN cm : cm[f] \in DOMAIN ptes /\ ptes[cm[f]].valid_bit
         /\ \A f, g \in DOMAIN cm : cm[f] = cm[g] => f = g
<1>1. \A f \in DOMAIN cm :
        cm[f] \in DOMAIN ptes /\ ptes[cm[f]].valid_bit /\ ptes[cm[f]].frame_number = f
  BY DEF Agree
<1>2. ASSUME NEW f \in DOMAIN cm, NEW g \in DOMAIN cm, cm[f] = cm[g] PROVE f = g
  <2>1. ptes[cm[f]].frame_number = f /\ ptes[cm[g]].frame_number = g
    BY <1>1
  <2> QED
    BY <1>2, <2>1
<1> QED
  BY <1>1, <1>2

\* set_referenced for every frame.
LEMMA RefBits ==
  ASSUME NEW ptes, EntriesOK(ptes), NEW cm, NEW sm, Agree(ptes, cm, sm),
         NEW ref \in [DOMAIN cm -> BOOLEAN]
  PROVE  LET n == SetReferenced(ptes, cm, ref) IN
         /\ \A f \in DOMAIN cm : n[cm[f]].referenced_bit = ref[f]
         /\ \A q \in DOMAIN ptes : ~ptes[q].valid_bit => n[q] = ptes[q]
<1> DEFINE n == SetReferenced(ptes, cm, ref)
<1>1. /\ \A f \in DOMAIN cm : cm[f] \in DOMAIN ptes /\ ptes[cm[f]].valid_bit
      /\ \A f, g \in DOMAIN cm : cm[f] = cm[g] => f = g
  BY FramesApart
<1>2. ASSUME NEW f \in DOMAIN cm PROVE n[cm[f]].referenced_bit = ref[f]
  <2> DEFINE u == cm[f]
             g == CHOOSE x \in DOMAIN cm : cm[x] = u
  <2>1. g = f
    BY <1>1
  <2>2. u \in DOMAIN ptes /\ ptes[u] \in PTE /\ ref[f] \in BOOLEAN
    BY <1>1 DEF EntriesOK
  <2>3. n[u] = [ptes[u] EXCEPT !.referenced_bit = ref[g]]
    BY <2>2 DEF SetReferenced
  <2> HIDE DEF u, g, n
  <2>4. n[u].referenced_bit = ref[f]
    BY <2>1, <2>2, <2>3 DEF PTE
  <2> QED
    BY <2>4 DEF u
<1>3. ASSUME NEW q \in DOMAIN ptes, ~ptes[q].valid_bit PROVE n[q] = ptes[q]
  BY <1>1, <1>3 DEF SetReferenced
<1> QED
  BY <1>2, <1>3

\* A reference under s2q: the page in frame f was listed, or has just come in.
LEMMA AccessLists ==
  ASSUME VMTypeOK, opt.alg = "s2q", NEW op, NEW q, NEW o, NEW f,
         NEW ptes, EntriesOK(ptes), NEW cm, DOMAIN cm \subseteq Frames, f \in DOMAIN cm,
         NEW mem, NEW p \in Policies(opt.memsize), NEW sm, Agree(ptes, cm, sm), Unmarked(ptes),
         NEW D, D = DOMAIN cm \/ (D = DOMAIN cm \ {f} /\ ~ptes[cm[f]].referenced_bit),
         S2qLists(p, D, Referenced(ptes, cm)),
         access_mem(op, q, o, f, ptes, cm, mem, p)
  PROVE  /\ ref_func(ptes, cm, p, f).ok
         /\ S2qLists(policy', DOMAIN coremap', Referenced(pte', coremap')) /\ Unmarked(pte')
<1> DEFINE ref == Referenced(ptes, cm)
           r == s2q_ref(p, ref, f)
           E == DOMAIN cm
           n == SetReferenced(ptes, cm, r.ref)
<1>1. ref_func(ptes, cm, p, f) = r /\ pte' = n /\ coremap' = cm /\ policy' = r.policy
  BY DEF access_mem, ref_func
<1>2. ref \in [E -> BOOLEAN] /\ \A g \in E : ref[g] = ptes[cm[g]].referenced_bit
  <2>1. \A g \in DOMAIN cm : cm[g] \in DOMAIN ptes
    BY DEF Agree
  <2> QED
    BY <2>1, ReferencedType DEF Referenced
<1>3. opt.memsize \in Nat \ {0} /\ Frames = 0 .. opt.memsize - 1
  BY VMAssumption DEF VMTypeOK, Frames
<1> HIDE DEF ref, r, n
<1>4. r.ok /\ S2qLists(r.policy, E, r.ref)
  <2> DEFINE m == opt.memsize
  <2>1. D = E \/ (D = E \ {f} /\ ~ref[f])
    BY <1>2
  <2>2. p \in Policies(m) /\ f \in E /\ E \subseteq 0 .. m - 1 /\ S2qLists(p, D, ref)
    BY <1>3 DEF ref
  <2> HIDE DEF m, E
  <2> QED
    BY <1>2, <2>1, <2>2, S2qRefLists DEF r
<1>5. r.ref \in [E -> BOOLEAN]
  <2>1. r \in Outcomes(opt.memsize, E)
    BY <1>2, <1>3, S2qRefType DEF r
  <2> QED
    BY <2>1 DEF Outcomes
<1>6. /\ \A g \in E : n[cm[g]].referenced_bit = r.ref[g]
      /\ \A x \in DOMAIN ptes : ~ptes[x].valid_bit => n[x] = ptes[x]
  BY <1>5, RefBits DEF n
<1>7. DOMAIN n = DOMAIN ptes /\ \A x \in DOMAIN ptes : n[x].valid_bit = ptes[x].valid_bit
  BY <1>5, RefSet DEF n, SameButRef
<1>8. Referenced(n, cm) = r.ref
  BY <1>5, <1>6 DEF Referenced
<1>9. Unmarked(n)
  BY <1>6, <1>7 DEF Unmarked
<1> QED
  BY <1>1, <1>4, <1>8, <1>9

\* allocate_frame under s2q: the frame it returns is in no list.
LEMMA AllocateLists ==
  ASSUME ListsInv, Running, opt.alg = "s2q", NEW q, NEW a \in allocate_frame(q)
  PROVE  LET E == DOMAIN coremap \ {a.frame} IN
         /\ a.ok /\ Unmarked(a.pte)
         /\ S2qLists(a.policy, E, Referenced(a.pte, coremap))
<1> DEFINE Free == Frames \ DOMAIN coremap
           m == opt.memsize
<1>1. /\ VMTypeOK /\ Agree(pte, coremap, swapmap) /\ EntriesOK(pte) /\ DOMAIN coremap \subseteq Frames
      /\ S2qLists(policy, DOMAIN coremap, Referenced(pte, coremap)) /\ Unmarked(pte)
  BY DEF ListsInv, VMInv, VMTypeOK, EntriesOK
<1>2. m \in Nat \ {0} /\ Frames = 0 .. m - 1 /\ policy \in Policies(m)
  BY <1>1, VMAssumption DEF VMTypeOK, Frames, Policies
<1>3. CASE Free # {}
  <2>1. a = [frame |-> Min(Free), pte |-> pte, policy |-> policy, written |-> {}, ok |-> TRUE]
    BY <1>3 DEF allocate_frame
  <2>2. Min(Free) \in Free
    <3>1. Free \in SUBSET (0 .. m - 1) /\ 0 \in Int /\ m - 1 \in Int
      BY <1>2
    <3> HIDE DEF m, Free
    <3> QED
      BY <1>3, <3>1, MinIn
  <2>3. DOMAIN coremap \ {a.frame} = DOMAIN coremap /\ a.ok /\ a.pte = pte /\ a.policy = policy
    BY <2>1, <2>2
  <2> QED
    BY <1>1, <2>3
<1>4. CASE Free = {}
  <2> DEFINE ref == Referenced(pte, coremap)
             t == m \div ThresholdPart
  <2>1. DOMAIN coremap = 0 .. m - 1
    BY <1>1, <1>2, <1>4
  <2>2. ref \in [0 .. m - 1 -> BOOLEAN] /\ \A f \in 0 .. m - 1 : ref[f] = pte[coremap[f]].referenced_bit
    <3>1. \A g \in DOMAIN coremap : coremap[g] \in DOMAIN pte
      BY <1>1 DEF Agree
    <3> QED
      BY <1>1, <2>1, <3>1, ReferencedType DEF Referenced
  <2>3. PICK c \in evict_func :
          LET ptes == SetReferenced(pte, coremap, c.ref)
              out  == handle_evict(ptes, c.frame)
          IN a = [frame |-> c.frame, policy |-> c.policy, written |-> out.written, ok |-> c.ok,
                  pte |-> [ptes EXCEPT ![coremap[c.frame]] = out.entry]]
    BY <1>4, Zenon DEF allocate_frame
  <2>4. c = s2q_evict(m, policy, ref, t)
    BY DEF evict_func
  <2>5. t \in Nat /\ t < m
    BY <1>2, VMAssumption
  <2>6. S2qLists(policy, 0 .. m - 1, ref)
    BY <1>1, <2>1
  <2> DEFINE v    == c.frame
             E    == DOMAIN coremap \ {v}
             ptes == SetReferenced(pte, coremap, c.ref)
             n    == [ptes EXCEPT ![coremap[v]] = handle_evict(ptes, v).entry]
  <2> HIDE DEF ref, t, m
  <2>7. /\ c.ok /\ v \in DOMAIN coremap /\ ~c.ref[v]
        /\ S2qLists(c.policy, E, c.ref)
    <3>2. m \in Nat \ {0} /\ policy \in Policies(m) /\ ref \in [0 .. m - 1 -> BOOLEAN]
      BY <1>2, <2>2
    <3> DEFINE F == (0 .. m - 1) \ {c.frame}
    <3>3. c.ok /\ c.frame \in 0 .. m - 1 /\ ~c.ref[c.frame]
          /\ S2qLists(c.policy, F, c.ref)
      BY ONLY <2>4, <2>5, <2>6, <3>2, S2qEvictLists
    <3>4. F = E
      BY <2>1
    <3> HIDE DEF F, E
    <3> QED
      BY <2>1, <3>3, <3>4
  <2>8. c.ref \in [DOMAIN coremap -> BOOLEAN]
    <3>1. c \in Outcomes(m, 0 .. m - 1)
      BY <1>2, <2>2, <2>4, <2>5, S2qEvictType
    <3> QED
      BY <2>1, <3>1 DEF Outcomes
  <2>9. a.frame = v /\ a.ok /\ a.policy = c.policy /\ a.pte = n
    BY <2>3, <2>7
  <2>10. /\ EntriesOK(ptes) /\ DOMAIN ptes = DOMAIN pte
         /\ \A r \in DOMAIN pte : ptes[r].valid_bit = pte[r].valid_bit
    BY <1>1, <2>8, RefSet DEF SameButRef
  <2>11. /\ \A g \in DOMAIN coremap : ptes[coremap[g]].referenced_bit = c.ref[g]
         /\ \A x \in DOMAIN pte : ~pte[x].valid_bit => ptes[x] = pte[x]
    BY <1>1, <2>8, RefBits
  <2>12. /\ coremap[v] \in DOMAIN pte
         /\ \A f, g \in DOMAIN coremap : coremap[f] = coremap[g] => f = g
         /\ \A f \in DOMAIN coremap : coremap[f] \in DOMAIN pte
    BY <1>1, <2>7, FramesApart
  <2> HIDE DEF ptes
  <2>13. handle_evict(ptes, v).entry.referenced_bit = ptes[coremap[v]].referenced_bit
    <3>1. ptes[coremap[v]] \in PTE
      BY <2>10, <2>12 DEF EntriesOK
    <3> QED
      BY <3>1 DEF handle_evict, PTE
  <2>14. /\ DOMAIN n = DOMAIN pte /\ ~n[coremap[v]].referenced_bit
         /\ \A r \in DOMAIN pte \ {coremap[v]} : n[r] = ptes[r]
    BY <2>7, <2>10, <2>11, <2>12, <2>13
  <2> HIDE DEF n, v
  <2>15. \A g \in E : n[coremap[g]].referenced_bit = c.ref[g]
    BY <2>7, <2>11, <2>12, <2>14
  <2>16. S2qLists(c.policy, E, Referenced(n, coremap))
    <3>1. \A g \in E : Referenced(n, coremap)[g] = c.ref[g]
      BY <2>15 DEF Referenced
    <3> QED
      BY <2>7, <3>1 DEF S2qLists
  <2>17. Unmarked(n)
    <3> SUFFICES ASSUME NEW r \in DOMAIN pte, r # coremap[v], ~n[r].valid_bit
                 PROVE  ~n[r].referenced_bit
      BY <2>14 DEF Unmarked
    <3>1. n[r] = ptes[r] /\ ~pte[r].valid_bit
      BY <2>10, <2>14
    <3> QED
      BY <1>1, <2>11, <3>1 DEF Unmarked
  <2> QED
    BY <2>7, <2>9, <2>16, <2>17
<1> QED
  BY <1>3, <1>4

\* The tables when page q has come into the frame of a, before it is accessed.
LEMMA PlaceTables ==
  ASSUME VMInv, Running, NEW q \in Pages, NEW a \in allocate_frame(q), NEW e \in PTE,
         e.valid_bit, ~e.dirty_bit => e.swap_offset \in swapmap,
         q \in DOMAIN pte => ~pte[q].valid_bit,
         e.swap_offset \in Slots => q \in DOMAIN pte /\ pte[q].swap_offset = e.swap_offset
  PROVE  LET x    == [e EXCEPT !.frame_number = a.frame]
             ptes == Put(a.pte, q, x)
             cm   == Put(coremap, a.frame, q)
         IN /\ x \in PTE /\ x.valid_bit /\ x.frame_number = a.frame
            /\ x.dirty_bit = e.dirty_bit /\ x.swap_on = e.swap_on
            /\ x.swap_offset = e.swap_offset /\ x.referenced_bit = e.referenced_bit
            /\ EntriesOK(ptes) /\ Agree(ptes, cm, swapmap \cup a.written)
            /\ DOMAIN cm \subseteq Frames /\ a.frame \in DOMAIN cm
<1> DEFINE x    == [e EXCEPT !.frame_number = a.frame]
           ptes == Put(a.pte, q, x)
           cm   == Put(coremap, a.frame, q)
           sm   == swapmap \cup a.written
<1>1. Allocation(a) /\ VMTypeOK
  BY AllocateFrame DEF VMInv
<1>2. /\ x \in PTE /\ x.frame_number = a.frame /\ x.valid_bit
      /\ x.dirty_bit = e.dirty_bit /\ x.swap_on = e.swap_on
      /\ x.swap_offset = e.swap_offset /\ x.referenced_bit = e.referenced_bit
  <2>1. a.frame \in Int
    BY <1>1, VMAssumption DEF Allocation, Frames, VMTypeOK
  <2> QED
    BY <2>1 DEF PTE
<1> HIDE DEF x
<1>3. EntriesOK(ptes)
  BY <1>1, <1>2 DEF Allocation, EntriesOK, Put
<1>4. Agree(ptes, cm, sm)
  <2>1. Agree(a.pte, Minus(coremap, a.frame), sm)
    BY <1>1 DEF Allocation
  <2>2. ~x.dirty_bit => x.swap_offset \in sm
    BY <1>2
  <2>3. q \in DOMAIN a.pte => ~a.pte[q].valid_bit
    BY <1>1 DEF Allocation
  <2>4. x.swap_offset \in Slots => q \in DOMAIN a.pte /\ a.pte[q].swap_offset = x.swap_offset
    BY <1>1, <1>2 DEF Allocation
  <2> HIDE DEF sm
  <2> QED
    BY <1>2, <2>1, <2>2, <2>3, <2>4, PlaceAgree
<1>5. DOMAIN cm \subseteq Frames /\ a.frame \in DOMAIN cm
  BY <1>1 DEF Allocation, VMTypeOK, Put
<1> QED
  BY <1>2, <1>3, <1>4, <1>5 DEF x

\* A page comes in under s2q.
LEMMA PlaceLists ==
  ASSUME ListsInv, Running, opt.alg = "s2q", NEW op \in Ops, NEW q \in Pages, NEW o \in Offsets,
         NEW a \in allocate_frame(q), NEW e \in PTE, NEW bytes \in [Bytes -> Vals],
         e.valid_bit, ~e.dirty_bit => e.swap_offset \in swapmap, ~e.referenced_bit,
         q \in DOMAIN pte => ~pte[q].valid_bit,
         e.swap_offset \in Slots => q \in DOMAIN pte /\ pte[q].swap_offset = e.swap_offset,
         Place(op, q, o, a, e, bytes)
  PROVE  /\ S2qLists(policy', DOMAIN coremap', Referenced(pte', coremap')) /\ Unmarked(pte')
         /\ status' # "assert_policy"
<1> DEFINE x    == [e EXCEPT !.frame_number = a.frame]
           ptes == Put(a.pte, q, x)
           cm   == Put(coremap, a.frame, q)
           sm   == swapmap \cup a.written
           D    == DOMAIN coremap \ {a.frame}
           mem  == [y \in DOMAIN physmem |-> IF y \div SIMPAGESIZE = a.frame
                                             THEN bytes[y % SIMPAGESIZE] ELSE physmem[y]]
<1>1. access_mem(op, q, o, a.frame, ptes, cm, mem, a.policy)
  BY DEF Place
<1>2. Allocation(a) /\ VMTypeOK
  BY AllocateFrame DEF ListsInv, VMInv
<1>3. a.ok /\ Unmarked(a.pte) /\ S2qLists(a.policy, D, Referenced(a.pte, coremap))
  BY AllocateLists
<1>4. /\ x \in PTE /\ x.valid_bit /\ ~x.referenced_bit
      /\ EntriesOK(ptes) /\ Agree(ptes, cm, sm) /\ DOMAIN cm \subseteq Frames /\ a.frame \in DOMAIN cm
  BY PlaceTables DEF ListsInv
<1> HIDE DEF x, mem
<1>5. D = DOMAIN cm \ {a.frame}
  BY DEF Put
<1>6. /\ \A g \in D : ptes[cm[g]] = a.pte[coremap[g]]
      /\ ptes[cm[a.frame]] = x
  <2>1. \A g \in D : coremap[g] \in DOMAIN a.pte /\ a.pte[coremap[g]].valid_bit
    <3>1. Agree(a.pte, Minus(coremap, a.frame), sm)
      BY <1>2 DEF Allocation
    <3>2. \A g \in D : g \in DOMAIN Minus(coremap, a.frame) /\ Minus(coremap, a.frame)[g] = coremap[g]
      BY DEF Minus
    <3> HIDE DEF D, sm
    <3> QED
      BY <3>1, <3>2, FramesApart
  <2>2. q \in DOMAIN a.pte => ~a.pte[q].valid_bit
    BY <1>2 DEF Allocation
  <2> QED
    BY <2>1, <2>2 DEF Put
<1>7. Unmarked(ptes)
  <2> SUFFICES ASSUME NEW r \in DOMAIN ptes, ~ptes[r].valid_bit PROVE ~ptes[r].referenced_bit
    BY DEF Unmarked
  <2>1. r # q /\ r \in DOMAIN a.pte /\ ptes[r] = a.pte[r]
    BY <1>4 DEF Put
  <2> QED
    BY <1>3, <2>1 DEF Unmarked
<1> HIDE DEF ptes, cm, D, sm
<1>8. S2qLists(a.policy, D, Referenced(ptes, cm))
  <2>1. \A g \in D : Referenced(ptes, cm)[g] = Referenced(a.pte, coremap)[g]
    BY <1>5, <1>6 DEF Referenced, D
  <2> QED
    BY <1>3, <2>1 DEF S2qLists
<1>9. /\ ref_func(ptes, cm, a.policy, a.frame).ok
       /\ S2qLists(policy', DOMAIN coremap', Referenced(pte', coremap')) /\ Unmarked(pte')
  <2>1. a.policy \in Policies(opt.memsize)
    BY <1>2 DEF Allocation
  <2> QED
    BY <1>1, <1>2, <1>4, <1>5, <1>6, <1>7, <1>8, <2>1, AccessLists
<1> QED
  BY <1>1, <1>9 DEF access_mem, Running

\* A hit under s2q.
LEMMA HitLists ==
  ASSUME ListsInv, Running, opt.alg = "s2q", NEW q \in DOMAIN pte, NEW o, NEW op,
         pte[q].valid_bit,
         access_mem(op, q, o, pte[q].frame_number,
                    [pte EXCEPT ![q].dirty_bit = @ \/ op.type = "S"], coremap, physmem, policy)
  PROVE  /\ S2qLists(policy', DOMAIN coremap', Referenced(pte', coremap')) /\ Unmarked(pte')
         /\ status' # "assert_policy"
<1> DEFINE e == pte[q]
           x == [e EXCEPT !.dirty_bit = @ \/ op.type = "S"]
           ptes == [pte EXCEPT ![q].dirty_bit = @ \/ op.type = "S"]
<1>1. /\ VMTypeOK /\ Running /\ Agree(pte, coremap, swapmap) /\ q \in DOMAIN pte /\ e.valid_bit
      /\ S2qLists(policy, DOMAIN coremap, Referenced(pte, coremap)) /\ Unmarked(pte)
  BY DEF ListsInv, VMInv
<1>2. access_mem(op, q, o, e.frame_number, ptes, coremap, physmem, policy)
  OBVIOUS
<1>3. e \in PTE /\ EntriesOK(pte) /\ DOMAIN coremap \subseteq Frames
  BY <1>1 DEF VMTypeOK, EntriesOK
<1>4. /\ x \in PTE /\ x.valid_bit = e.valid_bit /\ (e.dirty_bit => x.dirty_bit)
      /\ x.frame_number = e.frame_number /\ x.swap_offset = e.swap_offset
      /\ x.referenced_bit = e.referenced_bit
  BY <1>3 DEF PTE
<1>5. /\ DOMAIN ptes = DOMAIN pte /\ ptes[q] = x
      /\ \A r \in DOMAIN pte \ {q} : ptes[r] = pte[r]
  BY <1>1
<1> HIDE DEF ptes, x
<1>6. EntriesOK(ptes)
  BY <1>3, <1>4, <1>5 DEF EntriesOK
<1>7. \A r \in DOMAIN pte :
        /\ ptes[r].valid_bit = pte[r].valid_bit
        /\ pte[r].dirty_bit => ptes[r].dirty_bit
        /\ ptes[r].frame_number = pte[r].frame_number
        /\ ptes[r].swap_offset = pte[r].swap_offset
        /\ ptes[r].referenced_bit = pte[r].referenced_bit
  BY <1>4, <1>5
<1>8. Agree(ptes, coremap, swapmap)
  BY <1>1, <1>5, <1>7, Zenon DEF Agree
<1>9. e.frame_number \in DOMAIN coremap
  BY <1>1 DEF Agree
<1>10. Unmarked(ptes)
  BY <1>1, <1>5, <1>7 DEF Unmarked
<1>11. Referenced(ptes, coremap) = Referenced(pte, coremap)
  <2>1. \A f \in DOMAIN coremap : coremap[f] \in DOMAIN pte
    BY <1>1, FramesApart
  <2> QED
    BY <1>7, <2>1 DEF Referenced
<1>12. policy \in Policies(opt.memsize)
  BY <1>1 DEF VMTypeOK, Policies, Frames
<1> HIDE DEF e
<1>13. /\ ref_func(ptes, coremap, policy, e.frame_number).ok
       /\ S2qLists(policy', DOMAIN coremap', Referenced(pte', coremap')) /\ Unmarked(pte')
  BY <1>1, <1>2, <1>3, <1>6, <1>8, <1>9, <1>10, <1>11, <1>12, AccessLists
<1> QED
  BY <1>1, <1>2, <1>13 DEF access_mem, Running

LEMMA NextListsInv == ListsInv /\ [Next]_vars => ListsInv'
<1> SUFFICES ASSUME ListsInv, [Next]_vars PROVE ListsInv'
  OBVIOUS
<1> DEFINE G == S2qLists(policy', DOMAIN coremap', Referenced(pte', coremap')) /\ Unmarked(pte')
<1>1. VMInv' /\ opt' = opt
  BY NextVMInv, OptionsFixed DEF ListsInv
<1>2. SUFFICES ASSUME opt.alg = "s2q", Running' PROVE G
  <2>1. G <=> (S2qLists(policy, DOMAIN coremap, Referenced(pte, coremap)) /\ Unmarked(pte))'
    BY DEF S2qLists, Referenced, Unmarked
  <2>2. (opt.alg = "s2q" /\ Running)' => opt.alg = "s2q" /\ Running'
    BY <1>1
  <2> HIDE DEF G
  <2> QED
    BY <1>1, <1>2, <2>1, <2>2 DEF ListsInv
<1> HIDE DEF G
<1>3. ASSUME NEW q \in Pages, NEW o \in Offsets, NEW op \in Ops, Hit(q, o, op) PROVE G
  <2>1. /\ Running /\ q \in DOMAIN pte /\ pte[q].valid_bit
        /\ access_mem(op, q, o, pte[q].frame_number,
                      [pte EXCEPT ![q].dirty_bit = @ \/ op.type = "S"], coremap, physmem, policy)
    BY <1>2, <1>3 DEF Hit, Stop, Running
  <2> QED
    BY <1>2, <2>1, HitLists DEF G
<1>4. ASSUME NEW q \in Pages, NEW o \in Offsets, NEW op \in Ops, FirstReference(q, o, op)
      PROVE  G
  <2> DEFINE bytes == [b \in Bytes |-> 0]
  <2>1. PICK a \in allocate_frame(q) :
          IF a.ok THEN Place(op, q, o, a, NewEntry, bytes) ELSE Stop("assert_policy")
    BY <1>4 DEF FirstReference
  <2>2. Place(op, q, o, a, NewEntry, bytes)
    BY <1>2, <2>1 DEF Stop, Running
  <2>3. /\ NewEntry \in PTE /\ NewEntry.valid_bit /\ NewEntry.dirty_bit
        /\ ~NewEntry.referenced_bit /\ NewEntry.swap_offset = NoSlot /\ NoSlot \notin Slots
    BY VMAssumption DEF NewEntry, PTE, NoSlot, Slots
  <2>4. bytes \in [Bytes -> Vals]
    BY VMAssumption
  <2> HIDE DEF bytes
  <2>5. Running /\ q \notin DOMAIN pte
    BY <1>4 DEF FirstReference
  <2> QED
    BY <1>2, <2>2, <2>3, <2>4, <2>5, PlaceLists DEF G
<1>5. ASSUME NEW q \in Pages, NEW o \in Offsets, NEW op \in Ops, SwapIn(q, o, op)
      PROVE  G
  <2> DEFINE e == pte[q]
             x == [e EXCEPT !.valid_bit = TRUE, !.swap_on = FALSE, !.dirty_bit = op.type = "S"]
             bytes == swapfile[e.swap_offset]
  <2>1. PICK a \in allocate_frame(q) : e.swap_offset \in Slots /\ Place(op, q, o, a, x, bytes)
    BY <1>2, <1>5, Zenon DEF SwapIn, Stop, Running
  <2>2. /\ VMTypeOK /\ Running /\ Agree(pte, coremap, swapmap) /\ q \in DOMAIN pte /\ ~e.valid_bit
        /\ Unmarked(pte)
    BY <1>2, <1>5 DEF SwapIn, ListsInv, VMInv
  <2>3. e \in PTE /\ ~e.referenced_bit
    BY <2>2 DEF VMTypeOK, Unmarked
  <2>4. x \in PTE /\ x.valid_bit /\ ~x.referenced_bit /\ x.swap_offset = e.swap_offset
    BY <2>3 DEF PTE
  <2>5. x.swap_offset \in swapmap
    BY <2>1, <2>2, <2>4 DEF Agree
  <2>6. bytes \in [Bytes -> Vals]
    BY <2>1, <2>2 DEF VMTypeOK
  <2> HIDE DEF x, bytes
  <2>7. x.swap_offset \in Slots => q \in DOMAIN pte /\ pte[q].swap_offset = x.swap_offset
    BY <2>2, <2>4
  <2> QED
    BY <1>2, <2>1, <2>2, <2>4, <2>5, <2>6, <2>7, PlaceLists DEF G
<1>6. ASSUME NEW q \in Pages, WildPointer(q) PROVE FALSE
  BY <1>2, <1>6 DEF WildPointer, Stop, Running
<1>7. ~free_pagetable
  BY <1>2 DEF free_pagetable, Running
<1>8. UNCHANGED vars => G
  BY <1>2 DEF vars, Running, ListsInv, G
<1> QED
  BY <1>3, <1>4, <1>5, <1>6, <1>7, <1>8 DEF Next, Over

LEMMA InitListsInv == Init => ListsInv
<1> SUFFICES ASSUME Init
             PROVE  S2qLists(policy, DOMAIN coremap, Referenced(pte, coremap)) /\ Unmarked(pte)
  BY InitVMInv DEF ListsInv
<1>1. DOMAIN coremap = {} /\ DOMAIN pte = {} /\ policy.A1 = <<>> /\ policy.Am = <<>>
  BY DEF Init, NoHistory
<1>2. IsInjective(<<>>) /\ Range(<<>>) = {}
  BY DEF IsInjective, Range
<1> QED
  BY <1>1, <1>2 DEF S2qLists, Unmarked

\* Under s2q the lists hold the frames in use, each once, and Am is the frames
\* whose page has its referenced bit set, whatever was evicted and came back.
THEOREM VMS2QLists == Spec => []S2QLists
<1>1. ListsInv => S2QLists
  <2> SUFFICES ASSUME ListsInv, opt.alg = "s2q", Running PROVE S2QLists
    BY DEF S2QLists
  <2> DEFINE a == policy.A1
             b == policy.Am
             D == DOMAIN coremap
  <2>1. /\ a \in Seq(Frames) /\ b \in Seq(Frames)
        /\ S2qLists(policy, D, Referenced(pte, coremap))
    BY DEF ListsInv, VMInv, VMTypeOK
  <2>2. /\ IsInjective(a) /\ IsInjective(b)
        /\ Range(a) \cap Range(b) = {} /\ Range(a) \cup Range(b) = D
        /\ \A f \in D : f \in Range(b) <=> pte[coremap[f]].referenced_bit
    BY <2>1 DEF S2qLists, Referenced
  <2> HIDE DEF a, b, D
  <2>3. IsInjective(a \o b) /\ Range(a \o b) = D
    <3> DEFINE S == Frames
    <3>1. a \in Seq(S) /\ b \in Seq(S)
      BY <2>1
    <3>2. IsInjective(a) /\ IsInjective(b) /\ Range(a) \cap Range(b) = {}
          /\ Range(a) \cup Range(b) = D
      BY <2>2
    <3> HIDE DEF S
    <3> QED
      BY ONLY <3>1, <3>2, ListsJoined
  <2>4. Range(b) = {f \in D : pte[coremap[f]].referenced_bit}
    <3>1. Range(b) \subseteq D
      BY <2>2
    <3>2. \A f \in D : f \in Range(b) <=> pte[coremap[f]].referenced_bit
      BY <2>2
    <3> DEFINE E == Range(b)
    <3> HIDE DEF E
    <3>3. E = {f \in D : pte[coremap[f]].referenced_bit}
      BY <3>1, <3>2 DEF E
    <3> QED
      BY <3>3 DEF E
  <2>5. opt.alg = "s2q" /\ Running =>
          /\ IsInjective(a \o b) /\ Range(a \o b) = D
          /\ Range(b) = {f \in D : pte[coremap[f]].referenced_bit}
    BY <2>3, <2>4
  <2> QED
    BY <2>5, Zenon DEF S2QLists, a, b, D
<1> QED
  BY InitListsInv, NextListsInv, <1>1, PTL DEF Spec

-----------------------------------------------------------------------------
(***************************************************************************)
(* The assertions of pagetable.c, swap.c and s2q.c hold when the swap file *)
(* is as large as the trace has pages, for every algorithm and any memory. *)
(***************************************************************************)
Sized == opt.swapsize >= Cardinality(Pages)

\* A page is in memory or has its copy in a slot, and the slots that are taken
\* are those of the pages: none is lost.
Backed(ptes, sm) ==
  /\ \A q \in DOMAIN ptes : ptes[q].swap_on <=> ~ptes[q].valid_bit
  /\ \A q \in DOMAIN ptes : ~ptes[q].valid_bit => ~ptes[q].dirty_bit /\ ptes[q].swap_offset \in Slots
  /\ \A q \in DOMAIN ptes : ptes[q].swap_offset \in Slots \cup {NoSlot}
  /\ \A s \in sm : \E q \in DOMAIN ptes : ptes[q].swap_offset = s

Failed == {"assert_policy", "assert_entry", "assert_swap"}

FaultInv ==
  ListsInv /\ (Sized => status \notin Failed /\ (Running => Backed(pte, swapmap)))

\* A page without a slot finds one: the others cannot have taken them all.
LEMMA SlotLeft ==
  ASSUME VMTypeOK, Sized, NEW ptes, DOMAIN ptes \subseteq Pages, NEW u \in DOMAIN ptes,
         ptes[u].swap_offset \notin Slots,
         \A s \in swapmap : \E q \in DOMAIN ptes : ptes[q].swap_offset = s
  PROVE  ~(Slots \subseteq swapmap)
<1> SUFFICES ASSUME Slots \subseteq swapmap PROVE FALSE
  OBVIOUS
<1> DEFINE owner == [s \in Slots |-> CHOOSE q \in DOMAIN ptes : ptes[q].swap_offset = s]
           Others == Pages \ {u}
<1>1. \A s \in Slots : owner[s] \in DOMAIN ptes /\ ptes[owner[s]].swap_offset = s
  OBVIOUS
<1>2. DOMAIN owner = Slots /\ owner = [s \in Slots |-> owner[s]]
  OBVIOUS
<1> HIDE DEF owner
<1>3. owner \in [Slots -> Others]
  <2>1. \A s \in Slots : owner[s] \in Others
    BY <1>1
  <2> QED
    BY <1>2, <2>1
<1>4. IsFiniteSet(Pages)
  <2> DEFINE n == Radix * Radix * Radix - 1
  <2>1. n \in Int /\ Pages \subseteq 0 .. n
    BY VMAssumption
  <2> HIDE DEF n
  <2>2. IsFiniteSet(0 .. n)
    BY <2>1, FS_Interval
  <2> QED
    BY <2>1, <2>2, FS_Subset
<1>5. IsFiniteSet(Others) /\ Cardinality(Others) = Cardinality(Pages) - 1
  <2>1. u \in Pages
    OBVIOUS
  <2> QED
    BY <1>4, <2>1, FS_RemoveElement
<1>6. IsFiniteSet(Slots) /\ Cardinality(Slots) = opt.swapsize
  <2> DEFINE n == opt.swapsize - 1
  <2>1. opt.swapsize \in Nat \ {0}
    BY VMAssumption DEF VMTypeOK
  <2>2. n \in Int /\ 0 \in Int /\ n >= 0 /\ n + 1 = opt.swapsize
    BY <2>1
  <2> HIDE DEF n
  <2>3. IsFiniteSet(0 .. n) /\ Cardinality(0 .. n) = IF 0 > n THEN 0 ELSE n - 0 + 1
    BY ONLY <2>2, FS_Interval
  <2>4. Cardinality(0 .. n) = opt.swapsize
    BY <2>1, <2>2, <2>3
  <2> QED
    BY <2>3, <2>4 DEF Slots, n
<1>7. Cardinality(Others) < Cardinality(Slots)
  <2>1. Cardinality(Pages) \in Nat /\ opt.swapsize \in Nat
    BY <1>4, FS_CardinalityType, VMAssumption DEF VMTypeOK
  <2> QED
    BY <1>5, <1>6, <2>1 DEF Sized
<1>8. PICK x \in Slots, y \in Slots : x # y /\ owner[x] = owner[y]
  <2> DEFINE S == Slots
  <2> HIDE DEF S, Others
  <2>1. IsFiniteSet(S) /\ IsFiniteSet(Others) /\ Cardinality(Others) < Cardinality(S)
        /\ owner \in [S -> Others]
    BY <1>3, <1>5, <1>6, <1>7 DEF S
  <2>2. \E x, y \in S : x # y /\ owner[x] = owner[y]
    BY ONLY <2>1, FS_PigeonHole
  <2> QED
    BY <2>2 DEF S
<1> QED
  BY <1>1, <1>8

\* The page in frame v is evicted: it has a slot then.
LEMMA EvictBacked ==
  ASSUME VMTypeOK, Sized, NEW ptes, EntriesOK(ptes), NEW v \in DOMAIN coremap,
         Agree(ptes, coremap, swapmap), Backed(ptes, swapmap)
  PROVE  LET out == handle_evict(ptes, v)
             n   == [ptes EXCEPT ![coremap[v]] = out.entry]
         IN Backed(n, swapmap \cup out.written)
<1> DEFINE u == coremap[v]
           e == ptes[u]
           slot == IF ~e.dirty_bit THEN e.swap_offset
                   ELSE swap_pageout(IF e.swap_offset = NoSlot THEN INVALID_SWAP
                                     ELSE e.swap_offset)
           w == IF e.dirty_bit THEN {slot} \cap Slots ELSE {}
           x == [e EXCEPT !.valid_bit = FALSE, !.swap_on = TRUE, !.frame_number = -1,
                          !.dirty_bit = FALSE, !.swap_offset = slot]
           n == [ptes EXCEPT ![u] = x]
<1>1. handle_evict(ptes, v) = [entry |-> x, written |-> w]
  BY DEF handle_evict
<1>2. u \in DOMAIN ptes /\ e \in PTE /\ e.valid_bit
  BY FramesApart DEF EntriesOK
<1>3. e.swap_offset \in Slots \cup {NoSlot} /\ e.dirty_bit \in BOOLEAN
  BY <1>2 DEF Backed, PTE
<1>4. opt.swapsize \in Nat \ {0} /\ Slots = 0 .. opt.swapsize - 1
      /\ NoSlot \notin Slots /\ INVALID_SWAP \notin Slots /\ INVALID_SWAP # NoSlot
  <2>1. opt.swapsize \in Nat \ {0}
    BY VMAssumption DEF VMTypeOK
  <2> QED
    BY <2>1 DEF Slots, NoSlot, INVALID_SWAP
<1>5. slot \in Slots /\ (e.swap_offset \in Slots => slot = e.swap_offset)
  <2>1. CASE ~e.dirty_bit
    <3>1. e.swap_offset \in swapmap
      BY <1>2, <2>1 DEF Agree
    <3> QED
      BY <2>1, <3>1 DEF VMTypeOK
  <2>2. CASE e.dirty_bit /\ e.swap_offset \in Slots
    BY <1>4, <2>2 DEF swap_pageout
  <2>3. CASE e.dirty_bit /\ e.swap_offset \notin Slots
    <3> DEFINE T == Slots \ swapmap
    <3>1. e.swap_offset = NoSlot
      BY <1>3, <2>3
    <3>2. \A s \in swapmap : \E q \in DOMAIN ptes : ptes[q].swap_offset = s
      BY DEF Backed
    <3>3. ~(Slots \subseteq swapmap)
      BY <1>2, <2>3, <3>2, SlotLeft DEF EntriesOK
    <3>4. slot = Min(T)
      BY <2>3, <3>1, <3>3 DEF swap_pageout
    <3>5. 0 \in Int /\ opt.swapsize - 1 \in Int /\ T \in SUBSET (0 .. opt.swapsize - 1) /\ T # {}
      BY <1>4, <3>3
    <3> HIDE DEF slot, T
    <3>6. Min(T) \in T
      BY ONLY <3>5, MinIn
    <3>7. slot \in Slots
      BY <3>4, <3>6 DEF T
    <3> QED
      BY <2>3, <3>7
  <2> QED
    BY <2>1, <2>2, <2>3, <1>3
<1>6. e.dirty_bit => slot \in w
  BY <1>5
<1> HIDE DEF slot
<1>7. w \subseteq {slot}
  OBVIOUS
<1> HIDE DEF w
<1>8. ~x.valid_bit /\ x.swap_on /\ ~x.dirty_bit /\ x.swap_offset = slot
      /\ x.valid_bit \in BOOLEAN /\ x.swap_on \in BOOLEAN
  <2> HIDE DEF e
  <2> QED
    BY <1>2 DEF PTE
<1> HIDE DEF x
<1>9. /\ DOMAIN n = DOMAIN ptes /\ n[u] = x
      /\ \A q \in DOMAIN ptes \ {u} : n[q] = ptes[q]
  BY <1>2
<1> HIDE DEF n
<1>10. \A q \in DOMAIN n : n[q].swap_on <=> ~n[q].valid_bit
  BY <1>8, <1>9 DEF Backed
<1>11. \A q \in DOMAIN n : ~n[q].valid_bit => ~n[q].dirty_bit /\ n[q].swap_offset \in Slots
  BY <1>5, <1>8, <1>9 DEF Backed
<1>12. \A q \in DOMAIN n : n[q].swap_offset \in Slots \cup {NoSlot}
  BY <1>5, <1>8, <1>9 DEF Backed
<1>13. ASSUME NEW s \in swapmap \cup w PROVE \E q \in DOMAIN n : n[q].swap_offset = s
  <2>1. CASE s = slot
    BY <1>2, <1>8, <1>9, <2>1
  <2>2. CASE s # slot
    <3>1. s \in swapmap /\ s \in Slots
      BY <1>7, <2>2 DEF VMTypeOK
    <3>2. PICK q \in DOMAIN ptes : ptes[q].swap_offset = s
      BY <3>1 DEF Backed
    <3>3. q # u
      BY <1>5, <2>2, <3>1, <3>2
    <3> QED
      BY <1>9, <3>2, <3>3
  <2> QED
    BY <2>1, <2>2
<1>14. Backed(n, swapmap \cup w)
  BY <1>10, <1>11, <1>12, <1>13 DEF Backed
<1> QED
  BY <1>1, <1>14 DEF n, x, u

LEMMA BackedRef ==
  ASSUME NEW ptes, NEW n, DOMAIN n = DOMAIN ptes,
         \A q \in DOMAIN ptes : SameButRef(n[q], ptes[q]), NEW sm, Backed(ptes, sm)
  PROVE  Backed(n, sm)
<1>1. \A q \in DOMAIN ptes :
        /\ n[q].valid_bit = ptes[q].valid_bit /\ n[q].dirty_bit = ptes[q].dirty_bit
        /\ n[q].swap_on = ptes[q].swap_on /\ n[q].swap_offset = ptes[q].swap_offset
  BY DEF SameButRef
<1>2. \A q \in DOMAIN n : n[q].swap_on <=> ~n[q].valid_bit
  BY <1>1, Zenon DEF Backed
<1>3. \A q \in DOMAIN n : ~n[q].valid_bit => ~n[q].dirty_bit /\ n[q].swap_offset \in Slots
  BY <1>1, Zenon DEF Backed
<1>4. \A q \in DOMAIN n : n[q].swap_offset \in Slots \cup {NoSlot}
  BY <1>1 DEF Backed
<1>5. \A s \in sm : \E q \in DOMAIN n : n[q].swap_offset = s
  BY <1>1 DEF Backed
<1> QED
  BY <1>2, <1>3, <1>4, <1>5, Zenon DEF Backed

\* Only the assertions of s2q can fail in an eviction.
LEMMA EvictFuncOk ==
  ASSUME VMTypeOK, opt.alg # "s2q", NEW c \in evict_func
  PROVE  c.ok
<1>1. opt.alg \in {"rand", "rr", "clock"}
  BY VMAssumption DEF VMTypeOK
<1>2. CASE opt.alg = "rand"
  BY <1>2 DEF evict_func, rand_evict, Chosen
<1>3. CASE opt.alg = "rr"
  BY <1>3 DEF evict_func, rr_evict, Chosen
<1>4. CASE opt.alg = "clock"
  <2>1. c = clock_evict(opt.memsize, policy, Referenced(pte, coremap))
    BY <1>4 DEF evict_func
  <2> QED
    BY <2>1 DEF clock_evict, find_first_evict, Chosen
<1> QED
  BY <1>1, <1>2, <1>3, <1>4

\* What allocate_frame leaves, for every algorithm.
LEMMA AllocateBacked ==
  ASSUME ListsInv, Sized, Running, Backed(pte, swapmap), NEW q, NEW a \in allocate_frame(q)
  PROVE  a.ok /\ Backed(a.pte, swapmap \cup a.written)
<1>1. /\ VMTypeOK /\ Agree(pte, coremap, swapmap) /\ EntriesOK(pte)
      /\ DOMAIN coremap \subseteq Frames
  BY DEF ListsInv, VMInv, VMTypeOK, EntriesOK
<1>2. CASE Frames \ DOMAIN coremap # {}
  <2>1. a.ok /\ a.pte = pte /\ a.written = {}
    BY <1>2 DEF allocate_frame
  <2>2. swapmap \cup a.written = swapmap
    BY <2>1
  <2> QED
    BY <2>1, <2>2
<1>3. CASE Frames \ DOMAIN coremap = {}
  <2>1. DOMAIN coremap = Frames
    BY <1>1, <1>3
  <2>2. PICK c \in evict_func :
          LET ptes == SetReferenced(pte, coremap, c.ref)
              out  == handle_evict(ptes, c.frame)
          IN a = [frame |-> c.frame, policy |-> c.policy, written |-> out.written, ok |-> c.ok,
                  pte |-> [ptes EXCEPT ![coremap[c.frame]] = out.entry]]
    BY <1>3, Zenon DEF allocate_frame
  <2> DEFINE ptes == SetReferenced(pte, coremap, c.ref)
             out  == handle_evict(ptes, c.frame)
             n    == [ptes EXCEPT ![coremap[c.frame]] = out.entry]
  <2>3. a.ok = c.ok /\ a.written = out.written /\ a.pte = n
    BY <2>2
  <2>4. a.ok
    BY <1>1, <2>3, AllocateLists, EvictFuncOk
  <2>5. c.frame \in DOMAIN coremap /\ c.ref \in [DOMAIN coremap -> BOOLEAN]
    <3>1. Referenced(pte, coremap) \in [Frames -> BOOLEAN]
      BY <1>1, <2>1, FramesApart, ReferencedType
    <3>2. c \in Outcomes(opt.memsize, Frames)
      BY <1>1, <2>1, <3>1, EvictFuncType
    <3> QED
      BY <2>1, <3>2 DEF Outcomes, Frames
  <2>6. /\ EntriesOK(ptes) /\ DOMAIN ptes = DOMAIN pte
        /\ \A r \in DOMAIN pte : SameButRef(ptes[r], pte[r])
    BY <1>1, <2>5, RefSet
  <2>7. Agree(ptes, coremap, swapmap)
    BY <1>1, <2>6, AgreeRef
  <2>8. Backed(ptes, swapmap)
    BY <2>6, BackedRef
  <2> HIDE DEF ptes
  <2>9. Backed(n, swapmap \cup out.written)
    BY <1>1, <2>5, <2>6, <2>7, <2>8, EvictBacked
  <2> QED
    BY <2>3, <2>4, <2>9
<1> QED
  BY <1>2, <1>3

\* Only the assertions of s2q can fail in a reference.
LEMMA RefFuncOk ==
  ASSUME VMTypeOK, opt.alg # "s2q", NEW op, NEW q, NEW o, NEW f, NEW ptes, NEW cm, NEW mem, NEW p,
         Running, access_mem(op, q, o, f, ptes, cm, mem, p)
  PROVE  status' \notin Failed
<1>1. opt.alg \in {"rand", "rr", "clock"}
  BY VMAssumption DEF VMTypeOK
<1>2. ref_func(ptes, cm, p, f).ok
  BY <1>1 DEF ref_func, Chosen
<1> QED
  BY <1>2 DEF access_mem, Running, Failed

\* What access_mem leaves of the page table.
LEMMA AccessBacked ==
  ASSUME VMTypeOK, NEW op, NEW q, NEW o, NEW f, NEW ptes, EntriesOK(ptes), NEW cm,
         DOMAIN cm \subseteq Frames, f \in DOMAIN cm, NEW mem, NEW p \in Policies(opt.memsize),
         NEW sm, Agree(ptes, cm, sm), Backed(ptes, sm),
         access_mem(op, q, o, f, ptes, cm, mem, p)
  PROVE  Backed(pte', sm)
<1> DEFINE r == ref_func(ptes, cm, p, f)
<1>1. Referenced(ptes, cm) \in [DOMAIN cm -> BOOLEAN]
  BY FramesApart, ReferencedType
<1>2. r \in Outcomes(opt.memsize, DOMAIN cm)
  BY <1>1, RefFuncType
<1>3. pte' = SetReferenced(ptes, cm, r.ref)
  BY DEF access_mem
<1> HIDE DEF r
<1>4. r.ref \in [DOMAIN cm -> BOOLEAN]
  BY <1>2 DEF Outcomes
<1>5. DOMAIN pte' = DOMAIN ptes /\ \A x \in DOMAIN ptes : SameButRef(pte'[x], ptes[x])
  BY <1>3, <1>4, RefSet
<1> QED
  BY <1>5, BackedRef

\* A page comes in.
LEMMA PlaceBacked ==
  ASSUME ListsInv, Sized, Running, Backed(pte, swapmap),
         NEW op \in Ops, NEW q \in Pages, NEW o \in Offsets,
         NEW a \in allocate_frame(q), NEW e \in PTE, NEW bytes \in [Bytes -> Vals],
         e.valid_bit, ~e.swap_on, ~e.dirty_bit => e.swap_offset \in swapmap,
         opt.alg = "s2q" => ~e.referenced_bit,
         e.swap_offset \in Slots \cup {NoSlot},
         q \in DOMAIN pte => ~pte[q].valid_bit /\ pte[q].swap_offset = e.swap_offset,
         q \notin DOMAIN pte => e.swap_offset = NoSlot,
         Place(op, q, o, a, e, bytes)
  PROVE  status' \notin Failed /\ Backed(pte', swapmap')
<1> DEFINE x    == [e EXCEPT !.frame_number = a.frame]
           ptes == Put(a.pte, q, x)
           cm   == Put(coremap, a.frame, q)
           sm   == swapmap \cup a.written
           mem  == [y \in DOMAIN physmem |-> IF y \div SIMPAGESIZE = a.frame
                                             THEN bytes[y % SIMPAGESIZE] ELSE physmem[y]]
<1>1. access_mem(op, q, o, a.frame, ptes, cm, mem, a.policy) /\ swapmap' = sm
  BY DEF Place
<1>2. VMInv /\ VMTypeOK /\ Allocation(a)
  BY AllocateFrame DEF ListsInv, VMInv
<1>3. e.swap_offset \in Slots => q \in DOMAIN pte /\ pte[q].swap_offset = e.swap_offset
  <2>1. NoSlot \notin Slots
    <3>1. opt.swapsize \in Nat \ {0}
      BY <1>2, VMAssumption DEF VMTypeOK
    <3> QED
      BY <3>1 DEF NoSlot, Slots
  <2> QED
    BY <2>1
<1>4. /\ x.valid_bit /\ ~x.swap_on /\ x.swap_offset = e.swap_offset
      /\ EntriesOK(ptes) /\ Agree(ptes, cm, sm) /\ DOMAIN cm \subseteq Frames /\ a.frame \in DOMAIN cm
  <2>1. VMInv /\ (q \in DOMAIN pte => ~pte[q].valid_bit)
    BY <1>2
  <2>2. EntriesOK(ptes) /\ Agree(ptes, cm, sm) /\ DOMAIN cm \subseteq Frames /\ a.frame \in DOMAIN cm
    BY <1>3, <2>1, PlaceTables
  <2>3. x.valid_bit /\ ~x.swap_on /\ x.swap_offset = e.swap_offset
    BY DEF PTE
  <2> QED
    BY <2>2, <2>3
<1>5. Backed(a.pte, sm)
  BY AllocateBacked
<1> HIDE DEF x, cm, mem, sm
<1>6. Backed(ptes, sm)
  <2>1. /\ DOMAIN ptes = DOMAIN a.pte \cup {q} /\ ptes[q] = x
        /\ \A r \in DOMAIN a.pte \ {q} : ptes[r] = a.pte[r]
    BY DEF Put
  <2> HIDE DEF ptes
  <2>2. DOMAIN a.pte = DOMAIN pte
    BY <1>2 DEF Allocation
  <2>3. ~x.swap_on /\ x.valid_bit
    BY <1>4
  <2>4. \A r \in DOMAIN ptes : ptes[r].swap_on <=> ~ptes[r].valid_bit
    BY <1>5, <2>1, <2>3 DEF Backed
  <2>5. \A r \in DOMAIN ptes : ~ptes[r].valid_bit => ~ptes[r].dirty_bit /\ ptes[r].swap_offset \in Slots
    BY <1>5, <2>1, <2>3 DEF Backed
  <2>6. \A r \in DOMAIN ptes : ptes[r].swap_offset \in Slots \cup {NoSlot}
    BY <1>4, <1>5, <2>1 DEF Backed
  <2>7. ASSUME NEW s \in sm PROVE \E r \in DOMAIN ptes : ptes[r].swap_offset = s
    <3>1. PICK r \in DOMAIN a.pte : a.pte[r].swap_offset = s
      BY <1>5 DEF Backed
    <3>2. CASE r # q
      BY <2>1, <3>1, <3>2
    <3>3. CASE r = q
      <4>1. a.pte[q].swap_offset = pte[q].swap_offset
        BY <1>2, <2>2, <3>1, <3>3 DEF Allocation
      <4>2. ptes[q].swap_offset = s
        BY <1>4, <2>1, <2>2, <3>1, <3>3, <4>1
      <4> QED
        BY <2>1, <4>2
    <3> QED
      BY <3>2, <3>3
  <2> QED
    BY <2>4, <2>5, <2>6, <2>7 DEF Backed
<1>7. Backed(pte', swapmap')
  <2>1. a.policy \in Policies(opt.memsize)
    BY <1>2 DEF Allocation
  <2> HIDE DEF ptes
  <2>2. Backed(pte', sm)
    BY <1>1, <1>2, <1>4, <1>6, <2>1, AccessBacked
  <2> QED
    BY <1>1, <2>2
<1>8. status' \notin Failed
  <2>1. CASE opt.alg = "s2q"
    <3>1. status' # "assert_policy"
      BY <1>3, <2>1, PlaceLists
    <3>2. status' \in {"assert_policy", "out_of_bounds", "run"}
      BY <1>1 DEF access_mem, Running
    <3> QED
      BY <3>1, <3>2 DEF Failed
  <2>2. CASE opt.alg # "s2q"
    BY <1>1, <1>2, <2>2, RefFuncOk
  <2> QED
    BY <2>1, <2>2
<1> QED
  BY <1>7, <1>8

\* A hit.
LEMMA HitBacked ==
  ASSUME ListsInv, Sized, Backed(pte, swapmap),
         NEW q \in Pages, NEW o \in Offsets, NEW op \in Ops, Hit(q, o, op)
  PROVE  status' \notin Failed /\ (Running' => Backed(pte', swapmap'))
<1> DEFINE e == pte[q]
           x == [e EXCEPT !.dirty_bit = @ \/ op.type = "S"]
           ptes == [pte EXCEPT ![q].dirty_bit = @ \/ op.type = "S"]
<1>1. VMTypeOK /\ Running /\ Agree(pte, coremap, swapmap) /\ q \in DOMAIN pte /\ e.valid_bit
  BY DEF Hit, ListsInv, VMInv
<1>2. e \in PTE /\ EntriesOK(pte) /\ DOMAIN coremap \subseteq Frames
  BY <1>1 DEF VMTypeOK, EntriesOK
<1>3. e.frame_number \in DOMAIN coremap /\ e.frame_number # -1
  <2>1. e.frame_number \in DOMAIN coremap
    BY <1>1 DEF Agree
  <2>2. opt.memsize \in Nat \ {0}
    BY <1>1, VMAssumption DEF VMTypeOK
  <2> QED
    BY <1>2, <2>1, <2>2 DEF Frames
<1>4. ~e.swap_on
  BY <1>1 DEF Backed
<1>5. access_mem(op, q, o, e.frame_number, ptes, coremap, physmem, policy) /\ swapmap' = swapmap
  BY <1>3, <1>4 DEF Hit
<1>6. /\ x \in PTE /\ x.valid_bit /\ (e.dirty_bit => x.dirty_bit) /\ x.swap_on = e.swap_on
      /\ x.frame_number = e.frame_number /\ x.swap_offset = e.swap_offset
  BY <1>1, <1>2 DEF PTE
<1>7. /\ DOMAIN ptes = DOMAIN pte /\ ptes[q] = x
      /\ \A r \in DOMAIN pte \ {q} : ptes[r] = pte[r]
  BY <1>1
<1>8. status' \notin Failed
  <2>1. CASE opt.alg = "s2q"
    <3>1. status' # "assert_policy"
      BY <1>1, <1>5, <2>1, HitLists
    <3> HIDE DEF ptes
    <3>2. status' \in {"assert_policy", "out_of_bounds", "run"}
      BY <1>1, <1>5 DEF access_mem, Running
    <3> QED
      BY <3>1, <3>2 DEF Failed
  <2> HIDE DEF ptes
  <2>2. CASE opt.alg # "s2q"
    BY <1>1, <1>5, <2>2, RefFuncOk
  <2> QED
    BY <2>1, <2>2
<1> HIDE DEF ptes, x, e
<1>9. EntriesOK(ptes)
  BY <1>2, <1>6, <1>7 DEF EntriesOK
<1>10. \A r \in DOMAIN pte :
         /\ ptes[r].valid_bit <=> pte[r].valid_bit
         /\ pte[r].dirty_bit => ptes[r].dirty_bit
         /\ ptes[r].swap_on = pte[r].swap_on
         /\ ptes[r].frame_number = pte[r].frame_number
         /\ ptes[r].swap_offset = pte[r].swap_offset
  BY <1>1, <1>6, <1>7 DEF e
<1>11. Agree(ptes, coremap, swapmap)
  BY <1>1, <1>7, <1>10, Zenon DEF Agree
<1>12. Backed(ptes, swapmap)
  <2>1. \A r \in DOMAIN ptes : ptes[r].swap_on <=> ~ptes[r].valid_bit
    BY <1>7, <1>10, Zenon DEF Backed
  <2>2. \A r \in DOMAIN ptes : ~ptes[r].valid_bit => ~ptes[r].dirty_bit /\ ptes[r].swap_offset \in Slots
    BY <1>6, <1>7 DEF Backed
  <2>3. \A r \in DOMAIN ptes : ptes[r].swap_offset \in Slots \cup {NoSlot}
    BY <1>7, <1>10 DEF Backed
  <2>4. \A s \in swapmap : \E r \in DOMAIN ptes : ptes[r].swap_offset = s
    BY <1>7, <1>10 DEF Backed
  <2> QED
    BY <2>1, <2>2, <2>3, <2>4, Zenon DEF Backed
<1>13. policy \in Policies(opt.memsize)
  BY <1>1 DEF VMTypeOK, Policies, Frames
<1>14. Backed(pte', swapmap)
  BY <1>1, <1>2, <1>3, <1>5, <1>9, <1>11, <1>12, <1>13, AccessBacked
<1> QED
  BY <1>5, <1>8, <1>14

LEMMA NextFaultInv == FaultInv /\ [Next]_vars => FaultInv'
<1> SUFFICES ASSUME FaultInv, [Next]_vars PROVE FaultInv'
  OBVIOUS
<1> DEFINE G == status' \notin Failed /\ (Running' => Backed(pte', swapmap'))
<1>1. ListsInv /\ ListsInv' /\ opt' = opt
  BY NextListsInv, OptionsFixed DEF FaultInv
<1>2. SUFFICES ASSUME Sized PROVE G
  <2>1. Sized' => Sized
    BY <1>1 DEF Sized
  <2>2. G => (status \notin Failed /\ (Running => Backed(pte, swapmap)))'
    BY <1>1 DEF Backed, Running, Failed, Slots, NoSlot
  <2> HIDE DEF G
  <2> QED
    BY <1>1, <1>2, <2>1, <2>2 DEF FaultInv
<1> HIDE DEF G
<1>3. status \notin Failed /\ (Running => Backed(pte, swapmap))
  BY <1>2 DEF FaultInv
<1>4. ASSUME NEW q \in Pages, NEW o \in Offsets, NEW op \in Ops, Hit(q, o, op) PROVE G
  BY <1>1, <1>2, <1>3, <1>4, HitBacked DEF G, Hit
<1>5. ASSUME NEW q \in Pages, NEW o \in Offsets, NEW op \in Ops, FirstReference(q, o, op)
      PROVE  G
  <2> DEFINE bytes == [b \in Bytes |-> 0]
  <2>1. Running /\ q \notin DOMAIN pte
    BY <1>5 DEF FirstReference
  <2>2. PICK a \in allocate_frame(q) :
          IF a.ok THEN Place(op, q, o, a, NewEntry, bytes) ELSE Stop("assert_policy")
    BY <1>5 DEF FirstReference
  <2>3. Place(op, q, o, a, NewEntry, bytes)
    BY <1>1, <1>2, <1>3, <2>1, <2>2, AllocateBacked
  <2>4. /\ NewEntry \in PTE /\ NewEntry.valid_bit /\ NewEntry.dirty_bit /\ ~NewEntry.swap_on
        /\ ~NewEntry.referenced_bit /\ NewEntry.swap_offset = NoSlot
    BY DEF NewEntry, PTE, NoSlot
  <2>5. bytes \in [Bytes -> Vals]
    BY VMAssumption
  <2> HIDE DEF bytes
  <2> QED
    BY <1>1, <1>2, <1>3, <2>1, <2>3, <2>4, <2>5, PlaceBacked DEF G
<1>6. ASSUME NEW q \in Pages, NEW o \in Offsets, NEW op \in Ops, SwapIn(q, o, op)
      PROVE  G
  <2> DEFINE e == pte[q]
             x == [e EXCEPT !.valid_bit = TRUE, !.swap_on = FALSE, !.dirty_bit = op.type = "S"]
             bytes == swapfile[e.swap_offset]
  <2>1. Running /\ q \in DOMAIN pte /\ ~e.valid_bit
    BY <1>6 DEF SwapIn
  <2>2. e.swap_on /\ ~e.dirty_bit /\ e.swap_offset \in Slots
    BY <1>3, <2>1 DEF Backed
  <2>3. PICK a \in allocate_frame(q) : a.ok => Place(op, q, o, a, x, bytes)
    BY <1>6, <2>2, Zenon DEF SwapIn
  <2>4. Place(op, q, o, a, x, bytes)
    BY <1>1, <1>2, <1>3, <2>1, <2>3, AllocateBacked
  <2>5. /\ VMTypeOK /\ Agree(pte, coremap, swapmap) /\ (opt.alg = "s2q" => Unmarked(pte))
    BY <1>1, <2>1 DEF ListsInv, VMInv
  <2>6. e \in PTE /\ (opt.alg = "s2q" => ~e.referenced_bit)
    BY <2>1, <2>5 DEF VMTypeOK, Unmarked
  <2>7. /\ x \in PTE /\ x.valid_bit /\ ~x.swap_on /\ x.swap_offset = e.swap_offset
        /\ x.referenced_bit = e.referenced_bit
    BY <2>6 DEF PTE
  <2>8. x.swap_offset \in swapmap /\ x.swap_offset \in Slots \cup {NoSlot}
    BY <2>1, <2>2, <2>5, <2>7 DEF Agree
  <2>9. bytes \in [Bytes -> Vals]
    BY <2>2, <2>5 DEF VMTypeOK
  <2>10. /\ q \in DOMAIN pte => ~pte[q].valid_bit /\ pte[q].swap_offset = x.swap_offset
         /\ opt.alg = "s2q" => ~x.referenced_bit
    BY <2>1, <2>6, <2>7
  <2> HIDE DEF x, bytes
  <2> QED
    BY <1>1, <1>2, <1>3, <2>1, <2>4, <2>7, <2>8, <2>9, <2>10, PlaceBacked DEF G
<1>7. ASSUME NEW q \in Pages, WildPointer(q) PROVE G
  BY <1>7 DEF WildPointer, Stop, Running, Failed, G
<1>8. CASE free_pagetable
  BY <1>8 DEF free_pagetable, Running, Failed, G
<1>9. CASE UNCHANGED vars
  BY <1>3, <1>9 DEF vars, Running, G
<1> QED
  BY <1>4, <1>5, <1>6, <1>7, <1>8, <1>9 DEF Next, Over

\* With a slot for every page no assertion of pagetable.c, swap.c or s2q.c fails:
\* a page that is evicted finds its slot, comes back clean from it, and s2q finds
\* its victims and the frames it unlinks.
THEOREM VMNoFaultWhenSized == Spec => []NoFaultWhenSized
<1>1. Init => FaultInv
  <2> SUFFICES ASSUME Init PROVE FaultInv
    OBVIOUS
  <2>1. DOMAIN pte = {} /\ swapmap = {} /\ status = "run"
    BY DEF Init
  <2> QED
    BY <2>1, InitListsInv DEF FaultInv, Backed, Failed
<1>2. FaultInv => NoFaultWhenSized
  BY DEF FaultInv, NoFaultWhenSized, Sized, Failed
<1> QED
  BY <1>1, <1>2, NextFaultInv, PTL DEF Spec
=============================================================================
