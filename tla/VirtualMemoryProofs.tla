-------------------------- MODULE VirtualMemoryProofs --------------------------
(***************************************************************************)
(* The page table, coremap, memory and the swap file of VirtualMemory, for *)
(* any number of pages, any memory and swap size and every algorithm.      *)
(***************************************************************************)
EXTENDS VirtualMemory, ReplacementLemmas

LEMMA RefFuncType ==
  ASSUME VMTypeOK, NEW ptes, NEW cm, Referenced(ptes, cm) \in [DOMAIN cm -> BOOLEAN],
         NEW p \in Policies(opt.memsize), NEW f \in Frames, f \in DOMAIN cm
  PROVE  ref_func(ptes, cm, p, f) \in Outcomes(opt.memsize, DOMAIN cm)
<1> DEFINE m == opt.memsize
           ref == Referenced(ptes, cm)
<1>1. m \in Nat \ {0} /\ f \in 0 .. m - 1 /\ opt.alg \in {"rand", "rr", "clock", "s2q"}
  BY VMAssumption DEF VMTypeOK, Frames
<1> HIDE DEF m, ref
<1>2. [ref EXCEPT ![f] = TRUE] \in [DOMAIN cm -> BOOLEAN]
  BY DEF ref
<1>3. s2q_ref(p, ref, f) \in Outcomes(m, DOMAIN cm)
  BY <1>1, S2qRefType DEF ref, m
<1>4. /\ Chosen(f, p, ref, TRUE) \in Outcomes(m, DOMAIN cm)
      /\ Chosen(f, p, [ref EXCEPT ![f] = TRUE], TRUE) \in Outcomes(m, DOMAIN cm)
  BY <1>1, <1>2, ChosenType DEF ref, m
<1>5. ref_func(ptes, cm, p, f) \in {Chosen(f, p, ref, TRUE),
        Chosen(f, p, [ref EXCEPT ![f] = TRUE], TRUE), s2q_ref(p, ref, f)}
  BY <1>1 DEF ref_func, ref
<1> QED
  BY <1>3, <1>4, <1>5 DEF m

LEMMA EvictFuncType ==
  ASSUME VMTypeOK, DOMAIN coremap = Frames, Referenced(pte, coremap) \in [Frames -> BOOLEAN],
         NEW c \in evict_func
  PROVE  c \in Outcomes(opt.memsize, Frames)
<1> DEFINE m == opt.memsize
           ref == Referenced(pte, coremap)
           t == m \div ThresholdPart
<1>1. /\ m \in Nat \ {0} /\ Frames = 0 .. m - 1 /\ policy \in Policies(m)
      /\ opt.alg \in {"rand", "rr", "clock", "s2q"}
  BY VMAssumption DEF VMTypeOK, Frames, Policies
<1>2. t \in Nat
  BY <1>1, VMAssumption
<1> HIDE DEF m, ref, t
<1>3. CASE opt.alg = "rand"
  <2>1. c \in rand_evict(m, policy, ref)
    BY <1>3 DEF evict_func, m, ref
  <2>2. PICK f \in 0 .. m - 1 : c = Chosen(f, policy, ref, TRUE)
    BY <2>1 DEF rand_evict
  <2>3. ref \in [Frames -> BOOLEAN]
    BY DEF ref
  <2>4. c \in Outcomes(m, Frames)
    BY <2>2, <2>3, <1>1, ChosenType
  <2> QED
    BY <2>4 DEF m
<1>4. CASE opt.alg = "rr"
  <2>1. c = rr_evict(m, policy, ref)
    BY <1>4 DEF evict_func, m, ref
  <2>2. policy.i \in 0 .. m - 1 /\ (policy.i + 1) % m \in 0 .. m - 1
    BY <1>1 DEF Policies
  <2>3. [policy EXCEPT !.i = (policy.i + 1) % m] \in Policies(m)
    BY <1>1, <2>2, HandleUpdate
  <2>4. c = Chosen(policy.i, [policy EXCEPT !.i = (policy.i + 1) % m], ref, TRUE)
    BY <2>1 DEF rr_evict
  <2> QED
    BY <2>2, <2>3, <2>4, <1>1, ChosenType DEF ref, m
<1>5. CASE opt.alg = "clock"
  <2>1. c = clock_evict(m, policy, ref)
    BY <1>5 DEF evict_func, m, ref
  <2> QED
    BY <2>1, <1>1, ClockEvictType DEF ref, m
<1>6. CASE opt.alg = "s2q"
  <2>1. c = s2q_evict(m, policy, ref, t)
    BY <1>6 DEF evict_func, m, ref, t
  <2> QED
    BY <2>1, <1>1, <1>2, S2qEvictType DEF ref, m
<1> QED
  BY <1>1, <1>3, <1>4, <1>5, <1>6

-----------------------------------------------------------------------------
(***************************************************************************)
(* The page table, coremap and the swap map.  Agree is TablesAgree of any  *)
(* three of them, and that a slot in a page table entry is taken, without  *)
(* which a new slot could be the one of another page.                      *)
(***************************************************************************)
EntriesOK(ptes) == DOMAIN ptes \subseteq Pages /\ \A q \in DOMAIN ptes : ptes[q] \in PTE

Agree(ptes, cm, sm) ==
  /\ \A f \in DOMAIN cm :
       cm[f] \in DOMAIN ptes /\ ptes[cm[f]].valid_bit /\ ptes[cm[f]].frame_number = f
  /\ \A q \in DOMAIN ptes : ptes[q].valid_bit =>
       ptes[q].frame_number \in DOMAIN cm /\ cm[ptes[q].frame_number] = q
  /\ \A q \in DOMAIN ptes :
       ptes[q].valid_bit /\ ~ptes[q].dirty_bit => ptes[q].swap_offset \in sm
  /\ \A q \in DOMAIN ptes : ptes[q].swap_offset \in Slots => ptes[q].swap_offset \in sm
  /\ \A q, r \in DOMAIN ptes :
       ptes[q].swap_offset \in Slots /\ ptes[q].swap_offset = ptes[r].swap_offset => q = r

VMInv == VMTypeOK /\ (Running => Agree(pte, coremap, swapmap))

\* All fields but the one the replacement algorithms set.
SameButRef(e, f) ==
  /\ e.valid_bit = f.valid_bit /\ e.dirty_bit = f.dirty_bit /\ e.swap_on = f.swap_on
  /\ e.frame_number = f.frame_number /\ e.swap_offset = f.swap_offset

LEMMA RefSet ==
  ASSUME NEW ptes, EntriesOK(ptes), NEW cm, NEW ref \in [DOMAIN cm -> BOOLEAN]
  PROVE  LET n == SetReferenced(ptes, cm, ref) IN
         /\ EntriesOK(n) /\ DOMAIN n = DOMAIN ptes
         /\ \A q \in DOMAIN ptes : SameButRef(n[q], ptes[q])
<1> DEFINE n == SetReferenced(ptes, cm, ref)
<1>1. DOMAIN n = DOMAIN ptes
  BY DEF SetReferenced
<1>2. ASSUME NEW q \in DOMAIN ptes PROVE n[q] \in PTE /\ SameButRef(n[q], ptes[q])
  <2> DEFINE g == CHOOSE f \in DOMAIN cm : cm[f] = q
  <2>1. ptes[q] \in PTE
    BY DEF EntriesOK
  <2>2. CASE \E f \in DOMAIN cm : cm[f] = q
    <3>1. g \in DOMAIN cm
      BY <2>2
    <3>2. n[q] = [ptes[q] EXCEPT !.referenced_bit = ref[g]]
      BY <2>2 DEF SetReferenced
    <3> HIDE DEF g, n
    <3>3. ref[g] \in BOOLEAN
      BY <3>1
    <3> QED
      BY <2>1, <3>2, <3>3 DEF PTE, SameButRef
  <2>3. CASE ~ \E f \in DOMAIN cm : cm[f] = q
    <3>1. n[q] = ptes[q]
      BY <2>3 DEF SetReferenced
    <3> QED
      BY <2>1, <3>1 DEF SameButRef
  <2> QED
    BY <2>2, <2>3
<1> QED
  BY <1>1, <1>2 DEF EntriesOK

LEMMA AgreeRef ==
  ASSUME NEW ptes, NEW n, DOMAIN n = DOMAIN ptes,
         \A q \in DOMAIN ptes : SameButRef(n[q], ptes[q]),
         NEW cm, NEW sm, Agree(ptes, cm, sm)
  PROVE  Agree(n, cm, sm)
<1>1. \A q \in DOMAIN ptes :
        /\ n[q].valid_bit = ptes[q].valid_bit /\ n[q].dirty_bit = ptes[q].dirty_bit
        /\ n[q].frame_number = ptes[q].frame_number
        /\ n[q].swap_offset = ptes[q].swap_offset
  BY DEF SameButRef
<1> QED
  BY <1>1 DEF Agree

\* The bits of the pages in memory.
LEMMA ReferencedType ==
  ASSUME NEW ptes, EntriesOK(ptes), NEW cm, \A f \in DOMAIN cm : cm[f] \in DOMAIN ptes
  PROVE  Referenced(ptes, cm) \in [DOMAIN cm -> BOOLEAN]
  BY DEF Referenced, EntriesOK, PTE

Minus(cm, f) == [g \in DOMAIN cm \ {f} |-> cm[g]]

\* The slot of a page that is paged out is its own, or a free one.
LEMMA PageoutSlot ==
  ASSUME VMTypeOK, NEW offset \in Int
  PROVE  LET slot == swap_pageout(IF offset = NoSlot THEN INVALID_SWAP ELSE offset) IN
         slot \in Int /\ (slot \in Slots => slot = offset \/ slot \notin swapmap)
<1> DEFINE slot == swap_pageout(IF offset = NoSlot THEN INVALID_SWAP ELSE offset)
<1> SUFFICES slot \in Int /\ (slot \in Slots => slot = offset \/ slot \notin swapmap)
  OBVIOUS
<1> HIDE DEF slot
<1>1. opt.swapsize \in Nat \ {0}
  BY VMAssumption DEF VMTypeOK
<1>2. Slots = 0 .. opt.swapsize - 1 /\ INVALID_SWAP \in Int
  BY DEF Slots, INVALID_SWAP
<1>3. INVALID_SWAP \notin Slots
  BY <1>1 DEF Slots, INVALID_SWAP
<1>4. CASE offset \notin {NoSlot, INVALID_SWAP}
  BY <1>4 DEF swap_pageout, slot
<1>5. CASE offset \in {NoSlot, INVALID_SWAP} /\ Slots \subseteq swapmap
  <2>1. slot = INVALID_SWAP
    BY <1>5 DEF swap_pageout, slot
  <2> QED
    BY <2>1, <1>2, <1>3
<1>6. CASE offset \in {NoSlot, INVALID_SWAP} /\ ~(Slots \subseteq swapmap)
  <2> DEFINE T == Slots \ swapmap
  <2>1. slot = Min(T)
    BY <1>6 DEF swap_pageout, slot
  <2>2. T \in SUBSET (0 .. opt.swapsize - 1) /\ T # {} /\ 0 \in Int /\ opt.swapsize - 1 \in Int
    BY <1>1, <1>2, <1>6
  <2>3. Min(T) \in T
    <3> HIDE DEF T
    <3> QED
      BY ONLY <2>2, MinIn
  <2>4. slot \in Slots \ swapmap
    BY <2>1, <2>3
  <2> QED
    BY <2>4, <1>1, <1>2
<1> QED
  BY <1>4, <1>5, <1>6

LEMMA EvictStep ==
  ASSUME VMTypeOK, NEW ptes, EntriesOK(ptes), NEW v \in DOMAIN coremap,
         Agree(ptes, coremap, swapmap)
  PROVE  LET out == handle_evict(ptes, v)
             n   == [ptes EXCEPT ![coremap[v]] = out.entry]
         IN /\ out.written \subseteq Slots
            /\ EntriesOK(n) /\ DOMAIN n = DOMAIN ptes
            /\ \A r \in DOMAIN ptes \ {coremap[v]} : n[r] = ptes[r]
            /\ Agree(n, Minus(coremap, v), swapmap \cup out.written)
<1> DEFINE u == coremap[v]
           e == ptes[u]
           slot == IF ~e.dirty_bit THEN e.swap_offset
                   ELSE swap_pageout(IF e.swap_offset = NoSlot THEN INVALID_SWAP
                                     ELSE e.swap_offset)
           w == IF e.dirty_bit THEN {slot} \cap Slots ELSE {}
           x == [e EXCEPT !.valid_bit = FALSE, !.swap_on = TRUE, !.frame_number = -1,
                          !.dirty_bit = FALSE, !.swap_offset = slot]
           n == [ptes EXCEPT ![u] = x]
           cm == Minus(coremap, v)
<1>1. handle_evict(ptes, v) = [entry |-> x, written |-> w]
  BY DEF handle_evict
<1>2. u \in DOMAIN ptes /\ e \in PTE /\ e.valid_bit /\ e.frame_number = v
  BY DEF Agree, EntriesOK
<1>3. e.swap_offset \in Int /\ e.dirty_bit \in BOOLEAN
  BY <1>2 DEF PTE
<1>4. slot \in Int /\ (slot \in Slots => slot = e.swap_offset \/ slot \notin swapmap)
  BY <1>3, PageoutSlot
<1>5. /\ w \subseteq Slots /\ (slot \in Slots => slot \in swapmap \cup w)
  BY <1>2, <1>3 DEF Agree
<1> HIDE DEF slot, w
<1>6. /\ x \in PTE /\ ~x.valid_bit /\ x.swap_offset = slot
  <2> HIDE DEF e, u
  <2>1. e \in PTE /\ slot \in Int /\ -1 \in Int
    BY <1>2, <1>4
  <2> QED
    BY <2>1 DEF PTE
<1> HIDE DEF x, e
<1>7. /\ DOMAIN n = DOMAIN ptes /\ n[u] = x
      /\ \A q \in DOMAIN ptes \ {u} : n[q] = ptes[q]
  BY <1>2
<1>8. EntriesOK(n)
  BY <1>6, <1>7 DEF EntriesOK
<1>9. /\ DOMAIN cm = DOMAIN coremap \ {v}
      /\ \A f \in DOMAIN cm : cm[f] = coremap[f]
  BY DEF Minus
<1> HIDE DEF n, cm
<1>10. \A f \in DOMAIN cm : cm[f] # u
  BY <1>2, <1>9 DEF Agree, e
<1>11. \A q \in DOMAIN ptes \ {u} : ptes[q].valid_bit => ptes[q].frame_number # v
  BY DEF Agree, u
<1>12. \A q \in DOMAIN ptes \ {u} : ptes[q].swap_offset \in Slots => ptes[q].swap_offset # slot
  BY <1>2, <1>4 DEF Agree, e
<1>13. Agree(n, cm, swapmap \cup w)
  <2> HIDE DEF u
  <2>1. \A f \in DOMAIN cm :
          cm[f] \in DOMAIN n /\ n[cm[f]].valid_bit /\ n[cm[f]].frame_number = f
    BY <1>7, <1>9, <1>10 DEF Agree
  <2>2. \A q \in DOMAIN n : n[q].valid_bit =>
          n[q].frame_number \in DOMAIN cm /\ cm[n[q].frame_number] = q
    BY <1>6, <1>7, <1>9, <1>11 DEF Agree
  <2>3. \A q \in DOMAIN n :
          n[q].valid_bit /\ ~n[q].dirty_bit => n[q].swap_offset \in swapmap \cup w
    BY <1>6, <1>7 DEF Agree
  <2>4. \A q \in DOMAIN n : n[q].swap_offset \in Slots => n[q].swap_offset \in swapmap \cup w
    BY <1>5, <1>6, <1>7 DEF Agree
  <2>5. \A q, r \in DOMAIN n :
          n[q].swap_offset \in Slots /\ n[q].swap_offset = n[r].swap_offset => q = r
    BY <1>6, <1>7, <1>12 DEF Agree
  <2> QED
    BY <2>1, <2>2, <2>3, <2>4, <2>5 DEF Agree
<1> QED
  BY <1>1, <1>5, <1>7, <1>8, <1>13 DEF n, cm, u

-----------------------------------------------------------------------------
(***************************************************************************)
(* One line of the trace.                                                  *)
(***************************************************************************)
\* What allocate_frame returns.
Allocation(a) ==
  /\ a.frame \in Frames /\ a.policy \in Policies(opt.memsize) /\ a.written \subseteq Slots
  /\ EntriesOK(a.pte) /\ DOMAIN a.pte = DOMAIN pte
  /\ \A r \in DOMAIN pte : ~pte[r].valid_bit =>
       ~a.pte[r].valid_bit /\ a.pte[r].swap_offset = pte[r].swap_offset
  /\ Agree(a.pte, Minus(coremap, a.frame), swapmap \cup a.written)

LEMMA AllocateFrame ==
  ASSUME VMInv, Running, NEW q, NEW a \in allocate_frame(q)
  PROVE  Allocation(a)
<1> DEFINE Free == Frames \ DOMAIN coremap
<1>1. VMTypeOK /\ Agree(pte, coremap, swapmap) /\ EntriesOK(pte) /\ DOMAIN coremap \subseteq Frames
  BY DEF VMInv, VMTypeOK, EntriesOK
<1>2. opt.memsize \in Nat \ {0} /\ policy \in Policies(opt.memsize)
  BY <1>1, VMAssumption DEF VMTypeOK, Policies, Frames
<1>3. CASE Free # {}
  <2>1. a = [frame |-> Min(Free), pte |-> pte, policy |-> policy, written |-> {}, ok |-> TRUE]
    BY <1>3 DEF allocate_frame
  <2>2. Free \in SUBSET (0 .. opt.memsize - 1) /\ Free # {} /\ 0 \in Int /\ opt.memsize - 1 \in Int
    BY <1>2, <1>3 DEF Frames
  <2>3. Min(Free) \in Free
    <3> HIDE DEF Free
    <3> QED
      BY ONLY <2>2, MinIn
  <2>4. a.frame \in Frames /\ a.frame \notin DOMAIN coremap
    BY <2>1, <2>3
  <2>5. a.pte = pte /\ a.policy = policy /\ a.written = {}
    BY <2>1
  <2>6. DOMAIN Minus(coremap, a.frame) = DOMAIN coremap
        /\ \A g \in DOMAIN coremap : Minus(coremap, a.frame)[g] = coremap[g]
    BY <2>4 DEF Minus
  <2>7. Agree(pte, Minus(coremap, a.frame), swapmap)
    BY <2>6, <1>1 DEF Agree
  <2>8. swapmap \cup a.written = swapmap
    BY <2>5
  <2> QED
    BY <2>4, <2>5, <2>7, <2>8, <1>1, <1>2 DEF Allocation
<1>4. CASE Free = {}
  <2>1. DOMAIN coremap = Frames
    BY <1>1, <1>4
  <2>2. Referenced(pte, coremap) \in [Frames -> BOOLEAN]
    BY <1>1, <2>1, ReferencedType DEF Agree
  <2>3. PICK c \in evict_func :
          LET ptes == SetReferenced(pte, coremap, c.ref)
              out  == handle_evict(ptes, c.frame)
          IN a = [frame |-> c.frame, policy |-> c.policy, written |-> out.written, ok |-> c.ok,
                  pte |-> [ptes EXCEPT ![coremap[c.frame]] = out.entry]]
    BY <1>4 DEF allocate_frame
  <2>4. c \in Outcomes(opt.memsize, Frames)
    BY <1>1, <2>1, <2>2, EvictFuncType
  <2>5. /\ c.frame \in Frames /\ c.policy \in Policies(opt.memsize)
        /\ c.ref \in [DOMAIN coremap -> BOOLEAN]
    BY <2>4, <2>1 DEF Outcomes, Frames
  <2> DEFINE ptes == SetReferenced(pte, coremap, c.ref)
             out  == handle_evict(ptes, c.frame)
             n    == [ptes EXCEPT ![coremap[c.frame]] = out.entry]
  <2>6. /\ a.frame = c.frame /\ a.policy = c.policy /\ a.written = out.written /\ a.pte = n
    BY <2>3
  <2>7. /\ EntriesOK(ptes) /\ DOMAIN ptes = DOMAIN pte
        /\ \A r \in DOMAIN pte : SameButRef(ptes[r], pte[r])
    BY <1>1, <2>5, RefSet
  <2>8. c.frame \in DOMAIN coremap
    BY <2>1, <2>5
  <2> HIDE DEF ptes
  <2>9. Agree(ptes, coremap, swapmap)
    BY <1>1, <2>7, AgreeRef
  <2>10. /\ out.written \subseteq Slots
         /\ EntriesOK(n) /\ DOMAIN n = DOMAIN ptes
         /\ \A r \in DOMAIN ptes \ {coremap[c.frame]} : n[r] = ptes[r]
         /\ Agree(n, Minus(coremap, c.frame), swapmap \cup out.written)
    BY <1>1, <2>7, <2>8, <2>9, EvictStep
  <2> HIDE DEF out, n
  <2>11. ASSUME NEW r \in DOMAIN pte, ~pte[r].valid_bit
         PROVE  ~n[r].valid_bit /\ n[r].swap_offset = pte[r].swap_offset
    <3>1. r # coremap[c.frame]
      BY <1>1, <2>8, <2>11 DEF Agree
    <3>2. n[r] = ptes[r] /\ SameButRef(ptes[r], pte[r])
      BY <2>7, <2>10, <3>1
    <3> QED
      BY <2>11, <3>2 DEF SameButRef
  <2> QED
    BY <2>5, <2>6, <2>7, <2>10, <2>11 DEF Allocation
<1> QED
  BY <1>3, <1>4

\* Page q, which was not in memory, is put in frame fr, which was free.
LEMMA PlaceAgree ==
  ASSUME NEW ptes, NEW cm, NEW sm, NEW fr, NEW q, NEW e,
         Agree(ptes, Minus(cm, fr), sm),
         e.valid_bit, e.frame_number = fr, ~e.dirty_bit => e.swap_offset \in sm,
         q \in DOMAIN ptes => ~ptes[q].valid_bit,
         e.swap_offset \in Slots => q \in DOMAIN ptes /\ ptes[q].swap_offset = e.swap_offset
  PROVE  Agree(Put(ptes, q, e), Put(cm, fr, q), sm)
<1> DEFINE n == Put(ptes, q, e)
           c == Put(cm, fr, q)
           k == Minus(cm, fr)
<1>1. /\ DOMAIN n = DOMAIN ptes \cup {q} /\ n[q] = e
      /\ \A r \in DOMAIN n \ {q} : r \in DOMAIN ptes /\ n[r] = ptes[r]
  BY DEF Put
<1>2. /\ DOMAIN c = DOMAIN cm \cup {fr} /\ c[fr] = q
      /\ \A f \in DOMAIN c \ {fr} : f \in DOMAIN k /\ c[f] = k[f]
      /\ \A f \in DOMAIN k : f \in DOMAIN c /\ f # fr
  BY DEF Put, Minus
<1> HIDE DEF n, c, k
<1>3. Agree(ptes, k, sm)
  BY DEF k
<1>4. \A f \in DOMAIN k : k[f] # q
  BY <1>3 DEF Agree
<1>5. \A f \in DOMAIN c : c[f] \in DOMAIN n /\ n[c[f]].valid_bit /\ n[c[f]].frame_number = f
  BY <1>1, <1>2, <1>3, <1>4 DEF Agree
<1>6. \A r \in DOMAIN n : n[r].valid_bit =>
        n[r].frame_number \in DOMAIN c /\ c[n[r].frame_number] = r
  BY <1>1, <1>2, <1>3 DEF Agree
<1>7. \A r \in DOMAIN n : n[r].valid_bit /\ ~n[r].dirty_bit => n[r].swap_offset \in sm
  BY <1>1, <1>3 DEF Agree
<1>8. \A r \in DOMAIN n : n[r].swap_offset \in Slots => n[r].swap_offset \in sm
  BY <1>1, <1>3 DEF Agree
<1>9. \A r, t \in DOMAIN n :
        n[r].swap_offset \in Slots /\ n[r].swap_offset = n[t].swap_offset => r = t
  BY <1>1, <1>3 DEF Agree
<1>10. Agree(n, c, sm)
  BY <1>5, <1>6, <1>7, <1>8, <1>9 DEF Agree
<1> QED
  BY <1>10 DEF n, c

\* The access to a page that is in frame f.
LEMMA AccessStep ==
  ASSUME VMTypeOK, Running, NEW op \in Ops, NEW q \in Pages, NEW o \in Offsets, NEW f,
         NEW ptes, EntriesOK(ptes), NEW cm, DOMAIN cm \subseteq Frames, f \in DOMAIN cm,
         NEW mem \in [0 .. opt.memsize * SIMPAGESIZE - 1 -> Vals],
         NEW p \in Policies(opt.memsize), opt' = opt, swapmap' \subseteq Slots,
         swapfile' \in [Slots -> [Bytes -> Vals]], Agree(ptes, cm, swapmap'),
         access_mem(op, q, o, f, ptes, cm, mem, p)
  PROVE  VMInv'
<1> DEFINE r == ref_func(ptes, cm, p, f)
           address == f * SIMPAGESIZE + o
<1>1. \A g \in DOMAIN cm : cm[g] \in DOMAIN ptes
  BY DEF Agree
<1>2. Referenced(ptes, cm) \in [DOMAIN cm -> BOOLEAN]
  BY <1>1, ReferencedType
<1>3. r \in Outcomes(opt.memsize, DOMAIN cm)
  BY <1>2, RefFuncType
<1>4. /\ pte' = SetReferenced(ptes, cm, r.ref) /\ coremap' = cm /\ policy' = r.policy
      /\ physmem' = IF op.type = "S" THEN [mem EXCEPT ![address] = op.val] ELSE mem
      /\ last' = IF op.type = "S" THEN [last EXCEPT ![q][o] = op.val] ELSE last
      /\ status' \in {"assert_policy", "out_of_bounds", status}
  BY DEF access_mem
<1> HIDE DEF r, address
<1>5. r.policy \in Policies(opt.memsize) /\ r.ref \in [DOMAIN cm -> BOOLEAN]
  BY <1>3 DEF Outcomes
<1>6. /\ EntriesOK(pte') /\ DOMAIN pte' = DOMAIN ptes
      /\ \A x \in DOMAIN ptes : SameButRef(pte'[x], ptes[x])
  BY <1>4, <1>5, RefSet
<1>7. Agree(pte', cm, swapmap')
  BY <1>6, AgreeRef
<1>8. /\ Slots' = Slots /\ Frames' = Frames
      /\ Policies(opt.memsize)'
           = [i : Frames, clock_handle : Frames, A1 : Seq(Frames), Am : Seq(Frames)]
  BY DEF Slots, Frames, Policies
<1>9. Agree(pte, coremap, swapmap)'
  BY <1>4, <1>7, <1>8 DEF Agree
<1>10. op.val \in Vals
  BY VMAssumption DEF Ops
<1>11. VMTypeOK'
  <2>1. (opt \in [alg : Algs, memsize : MemSizes, swapsize : SwapSizes])'
    BY DEF VMTypeOK
  <2>2. (DOMAIN pte \subseteq Pages /\ \A x \in DOMAIN pte : pte[x] \in PTE)'
    BY <1>6 DEF EntriesOK
  <2>3. (DOMAIN coremap \subseteq Frames /\ Range(coremap) \subseteq Pages)'
    BY <1>1, <1>4, <1>8 DEF EntriesOK, Range
  <2>4. (physmem \in [0 .. opt.memsize * SIMPAGESIZE - 1 -> Vals])'
    BY <1>4, <1>10
  <2>5. (policy \in [i : Frames, clock_handle : Frames, A1 : Seq(Frames), Am : Seq(Frames)])'
    BY <1>4, <1>5, <1>8 DEF Policies, Frames
  <2>6. (last \in [Pages -> [0 .. SIMPAGESIZE -> Vals]])'
    BY <1>4, <1>10 DEF VMTypeOK
  <2>7. (swapmap \subseteq Slots /\ swapfile \in [Slots -> [Bytes -> Vals]])'
    BY <1>8
  <2>8. (status \in {"run", "done", "assert_policy", "assert_entry", "assert_swap",
                     "out_of_bounds", "wild_pointer"})'
    BY <1>4 DEF VMTypeOK
  <2> QED
    BY <2>1, <2>2, <2>3, <2>4, <2>5, <2>6, <2>7, <2>8 DEF VMTypeOK
<1> QED
  BY <1>9, <1>11 DEF VMInv

LEMMA StopStep ==
  ASSUME VMTypeOK, NEW s \in {"assert_policy", "assert_entry", "assert_swap", "wild_pointer"},
         Stop(s)
  PROVE  VMInv'
<1>1. VMTypeOK'
  <2>1. opt' = opt /\ status' = s
    BY DEF Stop
  <2>2. Slots' = Slots /\ Frames' = Frames
    BY <2>1 DEF Slots, Frames
  <2> QED
    BY <2>1, <2>2 DEF VMTypeOK, Stop
<1>2. ~Running'
  BY DEF Stop, Running
<1> QED
  BY <1>1, <1>2 DEF VMInv

LEMMA PlaceStep ==
  ASSUME VMInv, Running, NEW op \in Ops, NEW q \in Pages, NEW o \in Offsets,
         NEW a \in allocate_frame(q), NEW e \in PTE, NEW bytes \in [Bytes -> Vals],
         e.valid_bit, ~e.dirty_bit => e.swap_offset \in swapmap,
         q \in DOMAIN pte => ~pte[q].valid_bit,
         e.swap_offset \in Slots => q \in DOMAIN pte /\ pte[q].swap_offset = e.swap_offset,
         Place(op, q, o, a, e, bytes)
  PROVE  VMInv'
<1> DEFINE x    == [e EXCEPT !.frame_number = a.frame]
           ptes == Put(a.pte, q, x)
           cm   == Put(coremap, a.frame, q)
           mem  == [y \in DOMAIN physmem |-> IF y \div SIMPAGESIZE = a.frame
                                             THEN bytes[y % SIMPAGESIZE] ELSE physmem[y]]
<1>1. /\ opt' = opt /\ swapmap' = swapmap \cup a.written
      /\ swapfile' = [s \in Slots |-> IF s \in a.written THEN PageIn(a.frame) ELSE swapfile[s]]
      /\ access_mem(op, q, o, a.frame, ptes, cm, mem, a.policy)
  BY DEF Place
<1>2. Allocation(a) /\ VMTypeOK
  BY AllocateFrame DEF VMInv
<1>3. x \in PTE /\ x.frame_number = a.frame
      /\ x.valid_bit /\ x.dirty_bit = e.dirty_bit /\ x.swap_offset = e.swap_offset
  <2>1. a.frame \in Int
    BY <1>2 DEF Allocation, Frames
  <2> QED
    BY <2>1 DEF PTE
<1> HIDE DEF x
<1>4. EntriesOK(ptes)
  BY <1>2, <1>3 DEF Put, EntriesOK, Allocation
<1>5. Agree(ptes, cm, swapmap')
  <2>1. Agree(a.pte, Minus(coremap, a.frame), swapmap')
    BY <1>1, <1>2 DEF Allocation
  <2>2. ~x.dirty_bit => x.swap_offset \in swapmap'
    BY <1>1, <1>3
  <2>3. q \in DOMAIN a.pte => ~a.pte[q].valid_bit
    BY <1>2 DEF Allocation
  <2>4. x.swap_offset \in Slots => q \in DOMAIN a.pte /\ a.pte[q].swap_offset = x.swap_offset
    BY <1>2, <1>3 DEF Allocation
  <2> QED
    BY <1>3, <2>1, <2>2, <2>3, <2>4, PlaceAgree
<1>6. DOMAIN cm \subseteq Frames /\ a.frame \in DOMAIN cm
  BY <1>2 DEF Put, Allocation, VMTypeOK
<1>7. mem \in [0 .. opt.memsize * SIMPAGESIZE - 1 -> Vals]
  <2>1. \A y \in 0 .. opt.memsize * SIMPAGESIZE - 1 : y % SIMPAGESIZE \in Bytes
    BY VMAssumption DEF Bytes
  <2> QED
    BY <1>2, <2>1 DEF VMTypeOK
<1>8. swapmap' \subseteq Slots
  BY <1>1, <1>2 DEF Allocation, VMTypeOK
<1>9. PageIn(a.frame) \in [Bytes -> Vals]
  <2>1. ASSUME NEW b \in Bytes
        PROVE  a.frame * SIMPAGESIZE + b \in 0 .. opt.memsize * SIMPAGESIZE - 1
    <3>1. /\ a.frame \in Nat /\ opt.memsize \in Nat /\ a.frame < opt.memsize
          /\ b \in Nat /\ SIMPAGESIZE \in Nat /\ b < SIMPAGESIZE
      <4>1. opt.memsize \in Nat /\ SIMPAGESIZE \in Nat
        BY <1>2, VMAssumption DEF VMTypeOK
      <4>2. a.frame \in 0 .. opt.memsize - 1
        BY <1>2 DEF Allocation, Frames
      <4> QED
        BY <4>1, <4>2 DEF Bytes
    <3> QED
      BY <3>1, AddressInRange, Zenon
  <2> QED
    BY <1>2, <2>1 DEF PageIn, VMTypeOK
<1>10. swapfile' \in [Slots -> [Bytes -> Vals]]
  BY <1>1, <1>2, <1>9 DEF VMTypeOK
<1>11. a.policy \in Policies(opt.memsize)
  BY <1>2 DEF Allocation
<1> HIDE DEF ptes, cm, mem
<1> QED
  BY <1>1, <1>2, <1>4, <1>5, <1>6, <1>7, <1>8, <1>10, <1>11, AccessStep

LEMMA InitVMInv == Init => VMInv
<1> SUFFICES ASSUME Init PROVE VMInv
  OBVIOUS
<1>1. /\ opt \in [alg : Algs, memsize : MemSizes, swapsize : SwapSizes]
      /\ opt.memsize \in Nat \ {0}
  BY VMAssumption DEF Init
<1>2. DOMAIN pte = {} /\ DOMAIN coremap = {}
  BY DEF Init
<1>3. policy \in [i : Frames, clock_handle : Frames, A1 : Seq(Frames), Am : Seq(Frames)]
  <2>1. 0 \in Frames
    BY <1>1 DEF Frames
  <2>2. policy = [i |-> 0, clock_handle |-> 0, A1 |-> <<>>, Am |-> <<>>]
    BY DEF Init, NoHistory
  <2>3. <<>> \in Seq(Frames)
    OBVIOUS
  <2> HIDE DEF Frames
  <2> QED
    BY <2>1, <2>2, <2>3
<1>4. VMTypeOK
  <2>1. physmem \in [0 .. opt.memsize * SIMPAGESIZE - 1 -> Vals]
    BY VMAssumption DEF Init
  <2>2. last \in [Pages -> [0 .. SIMPAGESIZE -> Vals]]
    BY VMAssumption DEF Init
  <2>3. swapmap \subseteq Slots /\ swapfile \in [Slots -> [Bytes -> Vals]]
    BY VMAssumption DEF Init
  <2>4. status = "run"
    BY DEF Init
  <2> QED
    BY <1>1, <1>2, <1>3, <2>1, <2>2, <2>3, <2>4 DEF VMTypeOK, Range
<1>5. Agree(pte, coremap, swapmap)
  BY <1>2 DEF Agree
<1> QED
  BY <1>4, <1>5 DEF VMInv

LEMMA HitStep ==
  ASSUME VMInv, NEW q \in Pages, NEW o \in Offsets, NEW op \in Ops, Hit(q, o, op)
  PROVE  VMInv'
<1> DEFINE e == pte[q]
           x == [e EXCEPT !.dirty_bit = @ \/ op.type = "S"]
           ptes == [pte EXCEPT ![q].dirty_bit = @ \/ op.type = "S"]
<1>1. VMTypeOK /\ Running /\ Agree(pte, coremap, swapmap) /\ q \in DOMAIN pte /\ e.valid_bit
  BY DEF Hit, VMInv
<1>2. CASE e.swap_on \/ e.frame_number = -1
  BY <1>1, <1>2, StopStep DEF Hit
<1>3. CASE ~(e.swap_on \/ e.frame_number = -1)
  <2>1. /\ access_mem(op, q, o, e.frame_number, ptes, coremap, physmem, policy)
        /\ opt' = opt /\ swapmap' = swapmap /\ swapfile' = swapfile
    BY <1>3 DEF Hit
  <2>2. e \in PTE /\ EntriesOK(pte) /\ DOMAIN coremap \subseteq Frames
    BY <1>1 DEF VMTypeOK, EntriesOK
  <2>3. /\ x \in PTE /\ x.valid_bit = e.valid_bit /\ (e.dirty_bit => x.dirty_bit)
        /\ x.frame_number = e.frame_number /\ x.swap_offset = e.swap_offset
    <3> HIDE DEF e
    <3> QED
      BY <2>2 DEF PTE
  <2>4. /\ DOMAIN ptes = DOMAIN pte /\ ptes[q] = x
        /\ \A r \in DOMAIN pte \ {q} : ptes[r] = pte[r]
    BY <1>1
  <2> HIDE DEF ptes, x
  <2>5. EntriesOK(ptes)
    BY <2>2, <2>3, <2>4 DEF EntriesOK
  <2>6. Agree(ptes, coremap, swapmap)
    <3>1. \A r \in DOMAIN pte :
            /\ ptes[r].valid_bit = pte[r].valid_bit
            /\ pte[r].dirty_bit => ptes[r].dirty_bit
            /\ ptes[r].frame_number = pte[r].frame_number
            /\ ptes[r].swap_offset = pte[r].swap_offset
      BY <2>3, <2>4
    <3> QED
      BY <1>1, <2>4, <3>1 DEF Agree
  <2>7. e.frame_number \in DOMAIN coremap
    BY <1>1 DEF Agree
  <2>8. /\ physmem \in [0 .. opt.memsize * SIMPAGESIZE - 1 -> Vals]
        /\ swapmap' \subseteq Slots /\ swapfile' \in [Slots -> [Bytes -> Vals]]
    BY <1>1, <2>1 DEF VMTypeOK
  <2>9. policy \in Policies(opt.memsize)
    BY <1>1 DEF VMTypeOK, Policies, Frames
  <2>10. Agree(ptes, coremap, swapmap')
    BY <2>1, <2>6
  <2> HIDE DEF e
  <2> QED
    BY <1>1, <2>1, <2>2, <2>5, <2>7, <2>8, <2>9, <2>10, AccessStep
<1> QED
  BY <1>2, <1>3

LEMMA FirstReferenceStep ==
  ASSUME VMInv, NEW q \in Pages, NEW o \in Offsets, NEW op \in Ops, FirstReference(q, o, op)
  PROVE  VMInv'
<1> DEFINE bytes == [b \in Bytes |-> 0]
<1>1. VMTypeOK /\ Running /\ q \notin DOMAIN pte
  BY DEF FirstReference, VMInv
<1>2. PICK a \in allocate_frame(q) :
        IF a.ok THEN Place(op, q, o, a, NewEntry, bytes) ELSE Stop("assert_policy")
  BY DEF FirstReference
<1>3. CASE ~a.ok
  BY <1>1, <1>2, <1>3, StopStep
<1>4. CASE a.ok
  <2>1. /\ NewEntry \in PTE /\ NewEntry.valid_bit /\ NewEntry.dirty_bit
        /\ NewEntry.swap_offset = NoSlot
    BY DEF NewEntry, PTE, NoSlot
  <2>2. NoSlot \notin Slots
    BY <1>1 DEF NoSlot, Slots
  <2>3. bytes \in [Bytes -> Vals]
    BY VMAssumption
  <2>4. Place(op, q, o, a, NewEntry, bytes)
    BY <1>2, <1>4
  <2> HIDE DEF bytes
  <2> QED
    BY <1>1, <2>1, <2>2, <2>3, <2>4, PlaceStep
<1> QED
  BY <1>3, <1>4

LEMMA SwapInStep ==
  ASSUME VMInv, NEW q \in Pages, NEW o \in Offsets, NEW op \in Ops, SwapIn(q, o, op)
  PROVE  VMInv'
<1> DEFINE e == pte[q]
           x == [e EXCEPT !.valid_bit = TRUE, !.swap_on = FALSE, !.dirty_bit = op.type = "S"]
           bytes == swapfile[e.swap_offset]
<1>1. VMTypeOK /\ Running /\ Agree(pte, coremap, swapmap) /\ q \in DOMAIN pte /\ ~e.valid_bit
  BY DEF SwapIn, VMInv
<1>2. PICK a \in allocate_frame(q) :
        IF ~a.ok THEN Stop("assert_policy")
        ELSE IF ~e.swap_on \/ e.dirty_bit THEN Stop("assert_entry")
        ELSE IF e.swap_offset \notin Slots THEN Stop("assert_swap")
        ELSE Place(op, q, o, a, x, bytes)
  BY DEF SwapIn
<1>3. CASE ~a.ok \/ ~e.swap_on \/ e.dirty_bit \/ e.swap_offset \notin Slots
  <2>1. PICK s \in {"assert_policy", "assert_entry", "assert_swap", "wild_pointer"} : Stop(s)
    BY <1>2, <1>3
  <2> QED
    BY <1>1, <2>1, StopStep
<1>4. CASE ~(~a.ok \/ ~e.swap_on \/ e.dirty_bit \/ e.swap_offset \notin Slots)
  <2>1. Place(op, q, o, a, x, bytes) /\ e.swap_offset \in Slots
    BY <1>2, <1>4
  <2>2. e \in PTE
    BY <1>1 DEF VMTypeOK
  <2>3. x \in PTE /\ x.valid_bit /\ x.swap_offset = e.swap_offset
    <3> HIDE DEF e
    <3> QED
      BY <2>2 DEF PTE
  <2>4. e.swap_offset \in swapmap
    BY <1>1, <2>1 DEF Agree
  <2>5. bytes \in [Bytes -> Vals]
    BY <1>1, <2>1 DEF VMTypeOK
  <2> HIDE DEF x, bytes
  <2> QED
    BY <1>1, <2>1, <2>3, <2>4, <2>5, PlaceStep
<1> QED
  BY <1>3, <1>4

LEMMA EndStep ==
  ASSUME VMInv, free_pagetable
  PROVE  VMInv'
<1>1. VMTypeOK
  BY DEF VMInv
<1>2. /\ status' \in {"done", "wild_pointer"} /\ pte' = <<>> /\ opt' = opt
      /\ UNCHANGED <<coremap, physmem, policy, swapmap, swapfile, last>>
  BY DEF free_pagetable
<1>3. VMTypeOK'
  <2>1. Slots' = Slots /\ Frames' = Frames
    BY <1>2 DEF Slots, Frames
  <2>2. DOMAIN pte' = {}
    BY <1>2
  <2> QED
    BY <1>1, <1>2, <2>1, <2>2 DEF VMTypeOK
<1>4. ~Running'
  BY <1>2 DEF Running
<1> QED
  BY <1>3, <1>4 DEF VMInv

LEMMA StutterStep ==
  ASSUME VMInv, UNCHANGED vars
  PROVE  VMInv'
  BY DEF VMInv, vars, VMTypeOK, Running, Agree, Slots, Frames

LEMMA NextVMInv == VMInv /\ [Next]_vars => VMInv'
<1> SUFFICES ASSUME VMInv, [Next]_vars PROVE VMInv'
  OBVIOUS
<1>1. ASSUME NEW q \in Pages, NEW o \in Offsets, NEW op \in Ops,
             Hit(q, o, op) \/ FirstReference(q, o, op) \/ SwapIn(q, o, op)
      PROVE  VMInv'
  BY <1>1, HitStep, FirstReferenceStep, SwapInStep
<1>2. ASSUME NEW q \in Pages, WildPointer(q) PROVE VMInv'
  BY <1>2, StopStep DEF WildPointer, VMInv
<1>3. CASE free_pagetable
  BY <1>3, EndStep
<1>4. CASE Over
  BY <1>4, StutterStep DEF Over
<1>5. CASE UNCHANGED vars
  BY <1>5, StutterStep
<1> QED
  BY <1>1, <1>2, <1>3, <1>4, <1>5 DEF Next

-----------------------------------------------------------------------------
(***************************************************************************)
(* The bytes.  Coh is Coherent of a page table, memory, swap file and last *)
(* values, and of what an eviction or a first reference relies on: the     *)
(* copy of a clean page is right, and nothing was stored in a page without *)
(* an entry.                                                               *)
(***************************************************************************)
At(f, b) == f * SIMPAGESIZE + b

Coh(ptes, mem, sf, lst) ==
  /\ \A q \in DOMAIN ptes : ptes[q].valid_bit =>
       \A b \in Bytes : mem[At(ptes[q].frame_number, b)] = lst[q][b]
  /\ \A q \in DOMAIN ptes :
       ptes[q].swap_offset \in Slots /\ ~(ptes[q].valid_bit /\ ptes[q].dirty_bit) =>
         \A b \in Bytes : sf[ptes[q].swap_offset][b] = lst[q][b]
  /\ \A q \in Pages \ DOMAIN ptes : \A b \in Bytes : lst[q][b] = 0

CohInv == VMInv /\ (Running => Coh(pte, physmem, swapfile, last))

\* The address of a byte gives its frame and its offset.
LEMMA AtFrame ==
  ASSUME NEW f \in Nat, NEW b \in Bytes
  PROVE  At(f, b) \div SIMPAGESIZE = f /\ At(f, b) % SIMPAGESIZE = b
<1>1. SIMPAGESIZE \in Nat \ {0} /\ b \in Nat /\ b < SIMPAGESIZE
  BY VMAssumption DEF Bytes
<1> QED
  BY <1>1, DivMod DEF At

LEMMA AtDistinct ==
  ASSUME NEW f \in Nat, NEW g \in Nat, NEW b \in Bytes, NEW c \in Bytes, At(f, b) = At(g, c)
  PROVE  f = g /\ b = c
  BY AtFrame

LEMMA AtInMemory ==
  ASSUME VMTypeOK, NEW f \in Frames, NEW b \in Bytes
  PROVE  f \in Nat /\ At(f, b) \in 0 .. opt.memsize * SIMPAGESIZE - 1
<1>1. opt.memsize \in Nat /\ SIMPAGESIZE \in Nat
  BY VMAssumption DEF VMTypeOK
<1>2. f \in Nat /\ f < opt.memsize /\ b \in Nat /\ b < SIMPAGESIZE
  BY <1>1 DEF Frames, Bytes
<1> QED
  BY <1>1, <1>2, AddressInRange, Zenon DEF At

LEMMA CohRef ==
  ASSUME NEW ptes, NEW n, DOMAIN n = DOMAIN ptes,
         \A q \in DOMAIN ptes : SameButRef(n[q], ptes[q]),
         NEW mem, NEW sf, NEW lst, Coh(ptes, mem, sf, lst)
  PROVE  Coh(n, mem, sf, lst)
<1>1. \A q \in DOMAIN ptes :
        /\ n[q].valid_bit = ptes[q].valid_bit /\ n[q].dirty_bit = ptes[q].dirty_bit
        /\ n[q].frame_number = ptes[q].frame_number
        /\ n[q].swap_offset = ptes[q].swap_offset
  BY DEF SameButRef
<1> QED
  BY <1>1 DEF Coh

\* What a store changes: the byte of one page, which is dirty.
LEMMA StoreCoh ==
  ASSUME NEW ptes, NEW cm, NEW sm, Agree(ptes, cm, sm), DOMAIN cm \subseteq Frames,
         VMTypeOK, NEW mem \in [0 .. opt.memsize * SIMPAGESIZE - 1 -> Vals], NEW sf,
         EntriesOK(ptes), Coh(ptes, mem, sf, last), NEW q \in DOMAIN ptes, NEW o \in Bytes,
         NEW val, ptes[q].valid_bit, ptes[q].dirty_bit
  PROVE  Coh(ptes, [mem EXCEPT ![At(ptes[q].frame_number, o)] = val], sf,
             [last EXCEPT ![q][o] = val])
<1> DEFINE f == ptes[q].frame_number
           m == [mem EXCEPT ![At(f, o)] = val]
           l == [last EXCEPT ![q][o] = val]
<1>1. \A r \in DOMAIN ptes : ptes[r].valid_bit =>
        /\ ptes[r].frame_number \in Frames
        /\ cm[ptes[r].frame_number] = r
  BY DEF Agree
<1>2. \A g \in Frames, b \in Bytes :
        g \in Nat /\ At(g, b) \in 0 .. opt.memsize * SIMPAGESIZE - 1
  BY AtInMemory
<1>3. /\ l[q][o] = val /\ \A b \in Bytes \ {o} : l[q][b] = last[q][b]
      /\ \A r \in Pages \ {q} : l[r] = last[r]
  <2>1. last \in [Pages -> [0 .. SIMPAGESIZE -> Vals]] /\ o \in 0 .. SIMPAGESIZE
        /\ Bytes \subseteq 0 .. SIMPAGESIZE /\ q \in Pages
    BY VMAssumption DEF VMTypeOK, Bytes, EntriesOK
  <2> QED
    BY <2>1
<1>4. DOMAIN ptes \subseteq Pages
  BY DEF EntriesOK
<1>5. ASSUME NEW r \in DOMAIN ptes, ptes[r].valid_bit, NEW b \in Bytes
      PROVE  m[At(ptes[r].frame_number, b)] = l[r][b]
  <2> DEFINE g == ptes[r].frame_number
  <2>1. f \in Frames /\ g \in Frames /\ (r # q => g # f)
    BY <1>1, <1>5
  <2>2. /\ f \in Nat /\ g \in Nat
        /\ At(g, b) \in 0 .. opt.memsize * SIMPAGESIZE - 1
    BY <1>2, <2>1
  <2>3. mem[At(g, b)] = last[r][b]
    BY <1>5 DEF Coh
  <2> HIDE DEF f, g
  <2>4. CASE r = q /\ b = o
    BY <1>3, <2>2, <2>4 DEF f, g
  <2>5. CASE ~(r = q /\ b = o)
    <3>1. At(g, b) # At(f, o)
      BY <2>1, <2>2, <2>5, AtDistinct DEF f, g
    <3>2. m[At(g, b)] = mem[At(g, b)]
      BY <2>2, <3>1
    <3>3. l[r][b] = last[r][b]
      BY <1>3, <1>4, <1>5, <2>5
    <3> QED
      BY <2>3, <3>2, <3>3 DEF g
  <2> QED
    BY <2>4, <2>5 DEF g
<1> HIDE DEF m, l
<1>6. ASSUME NEW r \in DOMAIN ptes, ptes[r].swap_offset \in Slots,
             ~(ptes[r].valid_bit /\ ptes[r].dirty_bit), NEW b \in Bytes
      PROVE  sf[ptes[r].swap_offset][b] = l[r][b]
  <2>1. r # q /\ r \in Pages
    BY <1>4, <1>6
  <2> QED
    BY <1>3, <1>6, <2>1 DEF Coh
<1>7. ASSUME NEW r \in Pages \ DOMAIN ptes, NEW b \in Bytes PROVE l[r][b] = 0
  <2>1. r # q
    OBVIOUS
  <2> QED
    BY <1>3, <1>7, <2>1 DEF Coh
<1>8. Coh(ptes, m, sf, l)
  BY <1>5, <1>6, <1>7 DEF Coh
<1> QED
  BY <1>8 DEF m, l, f

\* The access to page q, which is in memory, and dirty if it is a store.
LEMMA AccessCoh ==
  ASSUME Offsets \subseteq Bytes, VMTypeOK,
         NEW op \in Ops, NEW q \in Pages, NEW o \in Offsets, NEW ptes, EntriesOK(ptes),
         NEW cm, DOMAIN cm \subseteq Frames, NEW sm, Agree(ptes, cm, sm),
         NEW mem \in [0 .. opt.memsize * SIMPAGESIZE - 1 -> Vals],
         NEW p \in Policies(opt.memsize), NEW sf, Coh(ptes, mem, sf, last),
         q \in DOMAIN ptes, ptes[q].valid_bit, op.type = "S" => ptes[q].dirty_bit,
         access_mem(op, q, o, ptes[q].frame_number, ptes, cm, mem, p)
  PROVE  Coh(pte', physmem', sf, last')
<1> DEFINE f == ptes[q].frame_number
           r == ref_func(ptes, cm, p, f)
<1>1. f \in DOMAIN cm /\ f \in Frames /\ \A g \in DOMAIN cm : cm[g] \in DOMAIN ptes
  BY DEF Agree
<1>2. Referenced(ptes, cm) \in [DOMAIN cm -> BOOLEAN]
  BY <1>1, ReferencedType
<1>3. r \in Outcomes(opt.memsize, DOMAIN cm)
  BY <1>1, <1>2, RefFuncType
<1>4. /\ pte' = SetReferenced(ptes, cm, r.ref)
      /\ op.type = "S" => /\ physmem' = [mem EXCEPT ![At(f, o)] = op.val]
                          /\ last' = [last EXCEPT ![q][o] = op.val]
      /\ op.type # "S" => physmem' = mem /\ last' = last
  BY DEF access_mem, At
<1> HIDE DEF r
<1>5. r.ref \in [DOMAIN cm -> BOOLEAN]
  BY <1>3 DEF Outcomes
<1>6. /\ DOMAIN pte' = DOMAIN ptes
      /\ \A x \in DOMAIN ptes : SameButRef(pte'[x], ptes[x])
  BY <1>4, <1>5, RefSet
<1>7. Coh(ptes, physmem', sf, last')
  <2>1. CASE op.type = "S"
    <3>1. o \in Bytes
      OBVIOUS
    <3>2. Coh(ptes, [mem EXCEPT ![At(ptes[q].frame_number, o)] = op.val], sf,
              [last EXCEPT ![q][o] = op.val])
      BY <2>1, <3>1, StoreCoh
    <3> QED
      BY <1>4, <2>1, <3>2
  <2>2. CASE op.type # "S"
    BY <1>4, <2>2
  <2> QED
    BY <2>1, <2>2
<1> QED
  BY <1>6, <1>7, CohRef

\* What allocate_frame does to the page that was in the frame.
Evicted(a) ==
  LET u == coremap[a.frame] IN
  /\ a.frame \in DOMAIN coremap /\ ~a.pte[u].valid_bit
  /\ a.written = IF pte[u].dirty_bit THEN {a.pte[u].swap_offset} \cap Slots ELSE {}
  /\ ~pte[u].dirty_bit => a.pte[u].swap_offset = pte[u].swap_offset
  /\ \A r \in DOMAIN pte \ {u} : SameButRef(a.pte[r], pte[r])

LEMMA AllocateEvicted ==
  ASSUME VMInv, Running, NEW q, NEW a \in allocate_frame(q)
  PROVE  (a.pte = pte /\ a.written = {}) \/ Evicted(a)
<1> DEFINE Free == Frames \ DOMAIN coremap
<1>1. /\ VMTypeOK /\ Agree(pte, coremap, swapmap) /\ EntriesOK(pte)
      /\ DOMAIN coremap \subseteq Frames
  BY DEF VMInv, VMTypeOK, EntriesOK
<1>2. CASE Free # {}
  BY <1>2 DEF allocate_frame
<1>3. CASE Free = {}
  <2>1. DOMAIN coremap = Frames
    BY <1>1, <1>3
  <2>2. Referenced(pte, coremap) \in [Frames -> BOOLEAN]
    BY <1>1, <2>1, ReferencedType DEF Agree
  <2>3. PICK c \in evict_func :
          LET ptes == SetReferenced(pte, coremap, c.ref)
              out  == handle_evict(ptes, c.frame)
          IN a = [frame |-> c.frame, policy |-> c.policy, written |-> out.written, ok |-> c.ok,
                  pte |-> [ptes EXCEPT ![coremap[c.frame]] = out.entry]]
    BY <1>3 DEF allocate_frame
  <2>4. c \in Outcomes(opt.memsize, Frames)
    BY <1>1, <2>1, <2>2, EvictFuncType
  <2>5. c.frame \in DOMAIN coremap /\ c.ref \in [DOMAIN coremap -> BOOLEAN]
    BY <2>4, <2>1 DEF Outcomes, Frames
  <2> DEFINE ptes == SetReferenced(pte, coremap, c.ref)
             u    == coremap[c.frame]
             out  == handle_evict(ptes, c.frame)
             n    == [ptes EXCEPT ![u] = out.entry]
  <2>6. a.frame = c.frame /\ a.written = out.written /\ a.pte = n
    BY <2>3
  <2>7. /\ EntriesOK(ptes) /\ DOMAIN ptes = DOMAIN pte
        /\ \A r \in DOMAIN pte : SameButRef(ptes[r], pte[r])
    BY <1>1, <2>5, RefSet
  <2>8. u \in DOMAIN pte
    BY <1>1, <2>5 DEF Agree
  <2> HIDE DEF ptes
  <2>9. ptes[u] \in PTE /\ SameButRef(ptes[u], pte[u])
    BY <2>7, <2>8 DEF EntriesOK
  <2> DEFINE e == ptes[u]
             slot == IF ~e.dirty_bit THEN e.swap_offset
                     ELSE swap_pageout(IF e.swap_offset = NoSlot THEN INVALID_SWAP
                                       ELSE e.swap_offset)
             x == [e EXCEPT !.valid_bit = FALSE, !.swap_on = TRUE, !.frame_number = -1,
                            !.dirty_bit = FALSE, !.swap_offset = slot]
  <2>10. out = [entry |-> x, written |-> IF e.dirty_bit THEN {slot} \cap Slots ELSE {}]
    BY DEF handle_evict
  <2>11. ~e.dirty_bit => slot = e.swap_offset
    OBVIOUS
  <2> HIDE DEF slot, e, u
  <2>12. ~x.valid_bit /\ x.swap_offset = slot
    BY <2>9 DEF PTE, e
  <2> HIDE DEF x
  <2>13. out.entry = x /\ out.written = IF e.dirty_bit THEN {slot} \cap Slots ELSE {}
    BY <2>10
  <2> HIDE DEF out
  <2>14. n[u] = x /\ \A r \in DOMAIN pte \ {u} : n[r] = ptes[r]
    BY <2>7, <2>8, <2>13
  <2> HIDE DEF n
  <2>15. e.dirty_bit = pte[u].dirty_bit /\ e.swap_offset = pte[u].swap_offset
    BY <2>9 DEF SameButRef, e
  <2>16. coremap[a.frame] = u /\ a.frame \in DOMAIN coremap
    BY <2>5, <2>6 DEF u
  <2>17. \A r \in DOMAIN pte \ {u} : SameButRef(a.pte[r], pte[r])
    BY <2>6, <2>7, <2>14
  <2>18. /\ ~a.pte[u].valid_bit /\ a.pte[u].swap_offset = slot
         /\ a.written = IF pte[u].dirty_bit THEN {slot} \cap Slots ELSE {}
         /\ ~pte[u].dirty_bit => slot = pte[u].swap_offset
    BY <2>6, <2>11, <2>12, <2>13, <2>14, <2>15
  <2> QED
    BY <2>16, <2>17, <2>18 DEF Evicted
<1> QED
  BY <1>2, <1>3

\* An eviction loses nothing that has a slot.
LEMMA AllocateCoh ==
  ASSUME VMInv, Running, Coh(pte, physmem, swapfile, last),
         NEW q, NEW a \in allocate_frame(q)
  PROVE  Coh(a.pte, physmem,
             [s \in Slots |-> IF s \in a.written THEN PageIn(a.frame) ELSE swapfile[s]], last)
<1> DEFINE sf == [s \in Slots |-> IF s \in a.written THEN PageIn(a.frame) ELSE swapfile[s]]
<1>1. Allocation(a) /\ VMTypeOK /\ Agree(pte, coremap, swapmap)
  BY AllocateFrame DEF VMInv
<1>2. CASE a.pte = pte /\ a.written = {}
  <2>1. \A s \in Slots : sf[s] = swapfile[s]
    BY <1>2
  <2> HIDE DEF sf
  <2>2. Coh(a.pte, physmem, sf, last)
    BY <1>2, <2>1 DEF Coh
  <2> QED
    BY <2>2 DEF sf
<1>3. CASE Evicted(a)
  <2> DEFINE u == coremap[a.frame]
             n == a.pte
  <2>1. /\ a.frame \in DOMAIN coremap /\ ~n[u].valid_bit
        /\ a.written = IF pte[u].dirty_bit THEN {n[u].swap_offset} \cap Slots ELSE {}
        /\ ~pte[u].dirty_bit => n[u].swap_offset = pte[u].swap_offset
        /\ \A r \in DOMAIN pte \ {u} : SameButRef(n[r], pte[r])
    BY <1>3 DEF Evicted
  <2>2. u \in DOMAIN pte /\ pte[u].valid_bit /\ pte[u].frame_number = a.frame
    BY <1>1, <2>1 DEF Agree
  <2>3. DOMAIN n = DOMAIN pte
    BY <1>1 DEF Allocation
  <2>4. \A b \in Bytes : PageIn(a.frame)[b] = last[u][b]
    BY <2>2 DEF PageIn, Coh, At
  <2>5. \A s \in Slots :
          /\ s \in a.written => sf[s] = PageIn(a.frame)
          /\ s \notin a.written => sf[s] = swapfile[s]
    OBVIOUS
  <2>6. \A r \in DOMAIN n \ {u} :
          n[r].swap_offset \in Slots => n[r].swap_offset # n[u].swap_offset
    BY <1>1, <2>2, <2>3 DEF Allocation, Agree
  <2> HIDE DEF u, n, sf
  <2>7. \A r \in DOMAIN pte \ {u} :
          /\ n[r].valid_bit = pte[r].valid_bit /\ n[r].dirty_bit = pte[r].dirty_bit
          /\ n[r].frame_number = pte[r].frame_number
          /\ n[r].swap_offset = pte[r].swap_offset
    BY <2>1 DEF SameButRef
  <2>8. \A r \in DOMAIN n : n[r].valid_bit =>
          \A b \in Bytes : physmem[At(n[r].frame_number, b)] = last[r][b]
    BY <2>1, <2>3, <2>7 DEF Coh
  <2>9. ASSUME NEW r \in DOMAIN n, n[r].swap_offset \in Slots,
               ~(n[r].valid_bit /\ n[r].dirty_bit), NEW b \in Bytes
        PROVE  sf[n[r].swap_offset][b] = last[r][b]
    <3>1. CASE r = u /\ pte[u].dirty_bit
      <4>1. n[r].swap_offset \in a.written
        BY <2>1, <2>9, <3>1
      <4>2. sf[n[r].swap_offset] = PageIn(a.frame)
        BY <2>5, <2>9, <4>1
      <4> QED
        BY <2>4, <3>1, <4>2
    <3>2. CASE r = u /\ ~pte[u].dirty_bit
      <4>1. a.written = {} /\ n[r].swap_offset = pte[u].swap_offset
        BY <2>1, <3>2
      <4>2. sf[n[r].swap_offset] = swapfile[pte[u].swap_offset]
        BY <2>5, <2>9, <4>1
      <4> QED
        BY <2>2, <2>9, <3>2, <4>1, <4>2 DEF Coh
    <3>3. CASE r # u
      <4>1. n[r].swap_offset \notin a.written
        BY <2>1, <2>6, <2>9, <3>3
      <4>2. sf[n[r].swap_offset] = swapfile[pte[r].swap_offset]
        BY <2>3, <2>5, <2>7, <2>9, <3>3, <4>1
      <4>3. r \in DOMAIN pte /\ pte[r].swap_offset \in Slots
            /\ ~(pte[r].valid_bit /\ pte[r].dirty_bit)
        BY <2>3, <2>7, <2>9, <3>3
      <4> QED
        BY <4>2, <4>3 DEF Coh
    <3> QED
      BY <3>1, <3>2, <3>3
  <2>10. Coh(n, physmem, sf, last)
    BY <2>3, <2>8, <2>9 DEF Coh
  <2> QED
    BY <2>10 DEF n, sf
<1> QED
  BY <1>2, <1>3, AllocateEvicted

\* A page gets its bytes back.
LEMMA PlaceCoh ==
  ASSUME Offsets \subseteq Bytes, VMInv, Running, Coh(pte, physmem, swapfile, last),
         NEW op \in Ops, NEW q \in Pages, NEW o \in Offsets,
         NEW a \in allocate_frame(q), NEW e \in PTE, NEW bytes \in [Bytes -> Vals],
         e.valid_bit, ~e.dirty_bit => e.swap_offset \in swapmap,
         q \in DOMAIN pte => ~pte[q].valid_bit,
         e.swap_offset \in Slots => q \in DOMAIN pte /\ pte[q].swap_offset = e.swap_offset,
         \A b \in Bytes : bytes[b] = last[q][b], op.type = "S" => e.dirty_bit,
         Place(op, q, o, a, e, bytes)
  PROVE  Coh(pte', physmem', swapfile', last')
<1> DEFINE x    == [e EXCEPT !.frame_number = a.frame]
           ptes == Put(a.pte, q, x)
           cm   == Put(coremap, a.frame, q)
           mem  == [y \in DOMAIN physmem |-> IF y \div SIMPAGESIZE = a.frame
                                             THEN bytes[y % SIMPAGESIZE] ELSE physmem[y]]
           k    == Minus(coremap, a.frame)
           sm   == swapmap \cup a.written
           sf   == [s \in Slots |-> IF s \in a.written THEN PageIn(a.frame) ELSE swapfile[s]]
<1>1. swapfile' = sf /\ access_mem(op, q, o, a.frame, ptes, cm, mem, a.policy)
  BY DEF Place
<1>2. Allocation(a) /\ VMTypeOK
  BY AllocateFrame DEF VMInv
<1>3. x \in PTE /\ x.frame_number = a.frame
      /\ x.valid_bit /\ x.dirty_bit = e.dirty_bit /\ x.swap_offset = e.swap_offset
  <2>1. a.frame \in Int
    BY <1>2 DEF Allocation, Frames
  <2> QED
    BY <2>1 DEF PTE
<1> HIDE DEF x
<1>4. /\ EntriesOK(a.pte) /\ DOMAIN a.pte = DOMAIN pte /\ Agree(a.pte, k, sm)
      /\ a.frame \in Frames /\ a.policy \in Policies(opt.memsize)
  BY <1>2 DEF Allocation
<1>5. Coh(a.pte, physmem, sf, last)
  BY AllocateCoh
<1> HIDE DEF sm
<1>6. /\ DOMAIN ptes = DOMAIN pte \cup {q} /\ ptes[q] = x
      /\ \A r \in DOMAIN ptes \ {q} : r \in DOMAIN a.pte /\ ptes[r] = a.pte[r]
  BY <1>4 DEF Put
<1>7. EntriesOK(ptes)
  BY <1>3, <1>4 DEF Put, EntriesOK
<1>8. q \in DOMAIN pte => ~a.pte[q].valid_bit /\ a.pte[q].swap_offset = pte[q].swap_offset
  BY <1>2 DEF Allocation
<1>9. Agree(ptes, cm, sm)
  <2>1. ~x.dirty_bit => x.swap_offset \in sm
    BY <1>3 DEF sm
  <2>2. q \in DOMAIN a.pte => ~a.pte[q].valid_bit
    BY <1>4, <1>8
  <2>3. x.swap_offset \in Slots => q \in DOMAIN a.pte /\ a.pte[q].swap_offset = x.swap_offset
    BY <1>3, <1>4, <1>8
  <2> QED
    BY <1>3, <1>4, <2>1, <2>2, <2>3, PlaceAgree
<1>10. DOMAIN cm \subseteq Frames
  BY <1>4, <1>2 DEF Put, VMTypeOK
<1>11. physmem \in [0 .. opt.memsize * SIMPAGESIZE - 1 -> Vals]
  BY <1>2 DEF VMTypeOK
<1>12. mem \in [0 .. opt.memsize * SIMPAGESIZE - 1 -> Vals]
  <2>1. \A y \in 0 .. opt.memsize * SIMPAGESIZE - 1 : y % SIMPAGESIZE \in Bytes
    BY VMAssumption DEF Bytes
  <2> QED
    BY <1>11, <2>1
<1>13. \A f \in Frames, b \in Bytes :
         mem[At(f, b)] = IF f = a.frame THEN bytes[b] ELSE physmem[At(f, b)]
  <2>1. ASSUME NEW f \in Frames, NEW b \in Bytes
        PROVE  mem[At(f, b)] = IF f = a.frame THEN bytes[b] ELSE physmem[At(f, b)]
    <3>1. At(f, b) \in DOMAIN physmem
      BY <1>2, <1>11, AtInMemory
    <3>2. f \in Nat
      BY <1>2, AtInMemory
    <3>3. At(f, b) \div SIMPAGESIZE = f /\ At(f, b) % SIMPAGESIZE = b
      BY <3>2, AtFrame
    <3> QED
      BY <3>1, <3>3
  <2> QED
    BY <2>1
<1> HIDE DEF ptes, mem, sf
<1>14. Coh(ptes, mem, sf, last)
  <2>1. ASSUME NEW r \in DOMAIN ptes, ptes[r].valid_bit, NEW b \in Bytes
        PROVE  mem[At(ptes[r].frame_number, b)] = last[r][b]
    <3>1. CASE r = q
      BY <1>3, <1>4, <1>6, <1>13, <3>1
    <3>2. CASE r # q
      <4>1. r \in DOMAIN a.pte /\ ptes[r] = a.pte[r]
        BY <1>6, <3>2
      <4>2. ptes[r].frame_number \in DOMAIN k
        BY <1>4, <2>1, <4>1 DEF Agree
      <4>3. ptes[r].frame_number \in Frames /\ ptes[r].frame_number # a.frame
        BY <1>2, <4>2 DEF Minus, VMTypeOK
      <4> QED
        BY <1>5, <1>13, <2>1, <4>1, <4>3 DEF Coh
    <3> QED
      BY <3>1, <3>2
  <2>2. ASSUME NEW r \in DOMAIN ptes, ptes[r].swap_offset \in Slots,
               ~(ptes[r].valid_bit /\ ptes[r].dirty_bit), NEW b \in Bytes
        PROVE  sf[ptes[r].swap_offset][b] = last[r][b]
    <3>1. CASE r = q
      <4>1. /\ q \in DOMAIN a.pte /\ a.pte[q].swap_offset = ptes[q].swap_offset
            /\ ~a.pte[q].valid_bit
        BY <1>3, <1>4, <1>6, <1>8, <2>2, <3>1
      <4> QED
        BY <1>5, <2>2, <3>1, <4>1 DEF Coh
    <3>2. CASE r # q
      <4>1. r \in DOMAIN a.pte /\ ptes[r] = a.pte[r]
        BY <1>6, <3>2
      <4> QED
        BY <1>5, <2>2, <4>1 DEF Coh
    <3> QED
      BY <3>1, <3>2
  <2>3. \A r \in Pages \ DOMAIN ptes : \A b \in Bytes : last[r][b] = 0
    BY <1>4, <1>5, <1>6 DEF Coh
  <2> QED
    BY <2>1, <2>2, <2>3 DEF Coh
<1>15. /\ q \in DOMAIN ptes /\ ptes[q].valid_bit /\ (op.type = "S" => ptes[q].dirty_bit)
       /\ ptes[q].frame_number = a.frame
  BY <1>3, <1>6
<1>16. access_mem(op, q, o, ptes[q].frame_number, ptes, cm, mem, a.policy)
  BY <1>1, <1>15
<1>17. Coh(pte', physmem', sf, last')
  <2> HIDE DEF cm
  <2> QED
    BY <1>2, <1>4, <1>7, <1>9, <1>10, <1>12, <1>14, <1>15, <1>16, AccessCoh
<1> QED
  BY <1>1, <1>17

LEMMA HitCoh ==
  ASSUME Offsets \subseteq Bytes, CohInv,
         NEW q \in Pages, NEW o \in Offsets, NEW op \in Ops, Hit(q, o, op)
  PROVE  Running' => Coh(pte', physmem', swapfile', last')
<1> DEFINE e == pte[q]
           x == [e EXCEPT !.dirty_bit = @ \/ op.type = "S"]
           ptes == [pte EXCEPT ![q].dirty_bit = @ \/ op.type = "S"]
<1>1. /\ VMTypeOK /\ Agree(pte, coremap, swapmap) /\ q \in DOMAIN pte /\ e.valid_bit
      /\ Coh(pte, physmem, swapfile, last)
  BY DEF Hit, VMInv, CohInv
<1>2. CASE e.swap_on \/ e.frame_number = -1
  BY <1>2 DEF Hit, Stop, Running
<1>3. CASE ~(e.swap_on \/ e.frame_number = -1)
  <2>1. /\ access_mem(op, q, o, e.frame_number, ptes, coremap, physmem, policy)
        /\ swapfile' = swapfile
    BY <1>3 DEF Hit
  <2>2. e \in PTE /\ EntriesOK(pte) /\ DOMAIN coremap \subseteq Frames
    BY <1>1 DEF VMTypeOK, EntriesOK
  <2>3. /\ x \in PTE /\ x.valid_bit = e.valid_bit /\ (e.dirty_bit => x.dirty_bit)
        /\ x.frame_number = e.frame_number /\ x.swap_offset = e.swap_offset
        /\ op.type = "S" => x.dirty_bit
    <3> HIDE DEF e
    <3> QED
      BY <2>2 DEF PTE
  <2>4. /\ DOMAIN ptes = DOMAIN pte /\ ptes[q] = x
        /\ \A r \in DOMAIN pte \ {q} : ptes[r] = pte[r]
    BY <1>1
  <2> HIDE DEF ptes, x
  <2>5. EntriesOK(ptes)
    BY <2>2, <2>3, <2>4 DEF EntriesOK
  <2>6. \A r \in DOMAIN pte :
          /\ ptes[r].valid_bit = pte[r].valid_bit
          /\ pte[r].dirty_bit => ptes[r].dirty_bit
          /\ ptes[r].frame_number = pte[r].frame_number
          /\ ptes[r].swap_offset = pte[r].swap_offset
    BY <2>3, <2>4
  <2>7. Agree(ptes, coremap, swapmap)
    BY <1>1, <2>4, <2>6 DEF Agree
  <2>8. Coh(ptes, physmem, swapfile, last)
    BY <1>1, <2>4, <2>6 DEF Coh
  <2>9. /\ physmem \in [0 .. opt.memsize * SIMPAGESIZE - 1 -> Vals]
        /\ policy \in Policies(opt.memsize)
    BY <1>1 DEF VMTypeOK, Policies, Frames
  <2>10. /\ q \in DOMAIN ptes /\ ptes[q].valid_bit /\ (op.type = "S" => ptes[q].dirty_bit)
         /\ ptes[q].frame_number = e.frame_number
    BY <1>1, <2>3, <2>4
  <2>11. access_mem(op, q, o, ptes[q].frame_number, ptes, coremap, physmem, policy)
    BY <2>1, <2>10
  <2>12. Coh(pte', physmem', swapfile, last')
    <3> HIDE DEF e
    <3> QED
      BY <1>1, <2>2, <2>5, <2>7, <2>8, <2>9, <2>10, <2>11, AccessCoh
  <2> QED
    BY <2>1, <2>12
<1> QED
  BY <1>2, <1>3

LEMMA FirstReferenceCoh ==
  ASSUME Offsets \subseteq Bytes, CohInv,
         NEW q \in Pages, NEW o \in Offsets, NEW op \in Ops, FirstReference(q, o, op)
  PROVE  Running' => Coh(pte', physmem', swapfile', last')
<1> DEFINE bytes == [b \in Bytes |-> 0]
<1>1. /\ VMInv /\ VMTypeOK /\ Running /\ q \notin DOMAIN pte
      /\ Coh(pte, physmem, swapfile, last)
  BY DEF FirstReference, VMInv, CohInv
<1>2. PICK a \in allocate_frame(q) :
        IF a.ok THEN Place(op, q, o, a, NewEntry, bytes) ELSE Stop("assert_policy")
  BY DEF FirstReference
<1>3. CASE ~a.ok
  BY <1>2, <1>3 DEF Stop, Running
<1>4. CASE a.ok
  <2>1. /\ NewEntry \in PTE /\ NewEntry.valid_bit /\ NewEntry.dirty_bit
        /\ NewEntry.swap_offset = NoSlot
    BY DEF NewEntry, PTE, NoSlot
  <2>2. NoSlot \notin Slots
    BY <1>1 DEF NoSlot, Slots
  <2>3. bytes \in [Bytes -> Vals] /\ \A b \in Bytes : bytes[b] = last[q][b]
    BY <1>1, VMAssumption DEF Coh
  <2>4. Place(op, q, o, a, NewEntry, bytes)
    BY <1>2, <1>4
  <2> HIDE DEF bytes
  <2> QED
    BY <1>1, <2>1, <2>2, <2>3, <2>4, PlaceCoh
<1> QED
  BY <1>3, <1>4

LEMMA SwapInCoh ==
  ASSUME Offsets \subseteq Bytes, CohInv,
         NEW q \in Pages, NEW o \in Offsets, NEW op \in Ops, SwapIn(q, o, op)
  PROVE  Running' => Coh(pte', physmem', swapfile', last')
<1> DEFINE e == pte[q]
           x == [e EXCEPT !.valid_bit = TRUE, !.swap_on = FALSE, !.dirty_bit = op.type = "S"]
           bytes == swapfile[e.swap_offset]
<1>1. /\ VMInv /\ VMTypeOK /\ Running /\ Agree(pte, coremap, swapmap)
      /\ q \in DOMAIN pte /\ ~e.valid_bit /\ Coh(pte, physmem, swapfile, last)
  BY DEF SwapIn, VMInv, CohInv
<1>2. PICK a \in allocate_frame(q) :
        IF ~a.ok THEN Stop("assert_policy")
        ELSE IF ~e.swap_on \/ e.dirty_bit THEN Stop("assert_entry")
        ELSE IF e.swap_offset \notin Slots THEN Stop("assert_swap")
        ELSE Place(op, q, o, a, x, bytes)
  BY DEF SwapIn
<1>3. CASE ~a.ok \/ ~e.swap_on \/ e.dirty_bit \/ e.swap_offset \notin Slots
  BY <1>2, <1>3 DEF Stop, Running
<1>4. CASE ~(~a.ok \/ ~e.swap_on \/ e.dirty_bit \/ e.swap_offset \notin Slots)
  <2>1. Place(op, q, o, a, x, bytes) /\ e.swap_offset \in Slots
    BY <1>2, <1>4
  <2>2. e \in PTE
    BY <1>1 DEF VMTypeOK
  <2>3. /\ x \in PTE /\ x.valid_bit /\ x.swap_offset = e.swap_offset
        /\ op.type = "S" => x.dirty_bit
    <3> HIDE DEF e
    <3> QED
      BY <2>2 DEF PTE
  <2>4. e.swap_offset \in swapmap
    BY <1>1, <2>1 DEF Agree
  <2>5. bytes \in [Bytes -> Vals]
    BY <1>1, <2>1 DEF VMTypeOK
  <2>6. \A b \in Bytes : bytes[b] = last[q][b]
    BY <1>1, <2>1 DEF Coh
  <2> HIDE DEF x, bytes
  <2> QED
    BY <1>1, <2>1, <2>3, <2>4, <2>5, <2>6, PlaceCoh
<1> QED
  BY <1>3, <1>4

LEMMA InitCohInv == Init => CohInv
<1> SUFFICES ASSUME Init PROVE CohInv
  OBVIOUS
<1>1. DOMAIN pte = {} /\ \A q \in Pages, b \in Bytes : last[q][b] = 0
  BY VMAssumption DEF Init, Bytes
<1>2. Coh(pte, physmem, swapfile, last)
  BY <1>1 DEF Coh
<1> QED
  BY <1>2, InitVMInv DEF CohInv

\* The command line does not change.
LEMMA OptionsFixed == [Next]_vars => opt' = opt
<1> SUFFICES ASSUME [Next]_vars PROVE opt' = opt
  OBVIOUS
<1>1. ASSUME NEW q \in Pages, NEW o \in Offsets, NEW op \in Ops, Hit(q, o, op)
      PROVE  opt' = opt
  BY <1>1 DEF Hit, Stop
<1>2. ASSUME NEW q \in Pages, NEW o \in Offsets, NEW op \in Ops, FirstReference(q, o, op)
      PROVE  opt' = opt
  BY <1>2 DEF FirstReference, Place, Stop
<1>3. ASSUME NEW q \in Pages, NEW o \in Offsets, NEW op \in Ops, SwapIn(q, o, op)
      PROVE  opt' = opt
  BY <1>3 DEF SwapIn, Place, Stop
<1>4. ASSUME NEW q \in Pages, WildPointer(q) PROVE opt' = opt
  BY <1>4 DEF WildPointer, Stop
<1>5. free_pagetable \/ Over \/ UNCHANGED vars => opt' = opt
  BY DEF free_pagetable, Over, vars
<1> QED
  BY <1>1, <1>2, <1>3, <1>4, <1>5 DEF Next

LEMMA NextCohInv ==
  ASSUME Offsets \subseteq Bytes
  PROVE  CohInv /\ [Next]_vars => CohInv'
<1> SUFFICES ASSUME CohInv, [Next]_vars PROVE CohInv'
  OBVIOUS
<1>1. VMInv'
  BY NextVMInv DEF CohInv
<1>2. opt' = opt
  BY OptionsFixed
<1>3. Running' => Coh(pte', physmem', swapfile', last')
  <2>1. ASSUME NEW q \in Pages, NEW o \in Offsets, NEW op \in Ops,
               Hit(q, o, op) \/ FirstReference(q, o, op) \/ SwapIn(q, o, op)
        PROVE  Running' => Coh(pte', physmem', swapfile', last')
    BY <2>1, HitCoh, FirstReferenceCoh, SwapInCoh
  <2>2. ASSUME NEW q \in Pages, WildPointer(q) PROVE ~Running'
    BY <2>2 DEF WildPointer, Stop, Running
  <2>3. CASE free_pagetable
    BY <2>3 DEF free_pagetable, Running
  <2>4. CASE UNCHANGED vars
    BY <2>4 DEF vars, CohInv, Running
  <2>5. Over => UNCHANGED vars
    BY DEF Over
  <2> QED
    BY <2>1, <2>2, <2>3, <2>4, <2>5 DEF Next
<1>4. Slots' = Slots
  BY <1>2 DEF Slots
<1>5. Running' => Coh(pte, physmem, swapfile, last)'
  BY <1>3, <1>4 DEF Coh
<1> QED
  BY <1>1, <1>5 DEF CohInv

-----------------------------------------------------------------------------
\* Whatever the trace, the sizes and the algorithm, every variable keeps its
\* type: no frame outside memory is used, and no slot outside the swap file.
THEOREM VMTypeCorrect == Spec => []VMTypeOK
<1>1. VMInv => VMTypeOK
  BY DEF VMInv
<1> QED
  BY InitVMInv, NextVMInv, <1>1, PTL DEF Spec

\* Whatever is evicted and in whatever order, coremap and the page table agree,
\* a clean page has its copy and no slot is the copy of two pages.
THEOREM VMTablesAgree == Spec => []TablesAgree
<1>1. VMInv => TablesAgree
  BY DEF VMInv, TablesAgree, Agree
<1> QED
  BY InitVMInv, NextVMInv, <1>1, PTL DEF Spec

\* A page holds what was last stored in it, in memory or in swap, when no
\* access has an offset beyond its page.
THEOREM VMCoherent == Offsets \subseteq Bytes => (Spec => []Coherent)
<1> SUFFICES ASSUME Offsets \subseteq Bytes PROVE Spec => []Coherent
  OBVIOUS
<1>1. CohInv => Coherent
  <2> SUFFICES ASSUME CohInv, Running, NEW q \in DOMAIN pte,
                      pte[q].valid_bit \/ pte[q].swap_offset \in Slots, NEW b \in Bytes
               PROVE  Content(q)[b] = last[q][b]
    BY DEF Coherent
  <2>1. Coh(pte, physmem, swapfile, last)
    BY DEF CohInv
  <2>2. CASE pte[q].valid_bit
    BY <2>1, <2>2 DEF Content, PageIn, Coh, At
  <2>3. CASE ~pte[q].valid_bit
    BY <2>1, <2>3 DEF Content, Coh
  <2> QED
    BY <2>2, <2>3
<1> QED
  BY InitCohInv, NextCohInv, <1>1, PTL DEF Spec
=============================================================================
