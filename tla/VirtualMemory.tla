----------------------------- MODULE VirtualMemory -----------------------------
(***************************************************************************)
(* The simulator of A3-Virtual-Memory: sim.c replays a trace of memory     *)
(* accesses; pagetable.c and coremap.c find the frame of a page, evicting  *)
(* another one to the swap file (swap.c) when memory is full, as the       *)
(* algorithm of Replacement chosen on the command line says.               *)
(*                                                                         *)
(* One line of the trace is one step.  A load line carries the value the   *)
(* address should hold, that is the last one stored: last keeps it.  A     *)
(* failed assert, an access outside physmem and the use of an              *)
(* uninitialised page table slot end the run; status names the place.      *)
(***************************************************************************)
EXTENDS Replacement, FiniteSets, FiniteSetsExt

CONSTANTS Pages,          \* virtual page numbers in the trace
          Vals,           \* byte values
          SIMPAGESIZE,    \* bytes in a simulated page
          Offsets,        \* page offsets in the trace
          Radix,          \* entries in a table of the page table (4096)
          Algs,           \* algorithms, memory and swap sizes that the
          MemSizes,       \*   command line may name
          SwapSizes,
          ThresholdPart   \* s2q keeps 1/ThresholdPart of memory for A1 (10)

\* replay_trace lets offset SIMPAGESIZE pass.
ASSUME VMAssumption ==
  /\ Pages \subseteq 0 .. Radix * Radix * Radix - 1
  /\ 0 \in Vals
  /\ SIMPAGESIZE \in Nat \ {0} /\ Radix \in Nat \ {0} /\ ThresholdPart \in Nat \ {0, 1}
  /\ Offsets \subseteq 0 .. SIMPAGESIZE
  /\ Algs \subseteq {"rand", "rr", "clock", "s2q"}
  /\ MemSizes \subseteq Nat \ {0} /\ SwapSizes \subseteq Nat \ {0}

VARIABLES
  opt,         \* the command line: alg, memsize, swapsize
  pte,         \* the page table: its domain is the pages that have an entry
  coremap,     \* the page in each frame that is in use
  physmem,     \* bytes
  policy,      \* the variables of the replacement algorithms
  swapmap,     \* the slots of the swap file that are in use
  swapfile,    \* the page in each slot
  last,        \* the value last stored at each address
  arrivals,    \* under rr, the frames in the order their pages came in
  status

vars == <<opt, pte, coremap, physmem, policy, swapmap, swapfile, last, arrivals, status>>

INVALID_SWAP == -1
NoSlot == -300           \* swap_offset of a page that was never paged out

Frames == 0 .. opt.memsize - 1
Slots == 0 .. opt.swapsize - 1
Bytes == 0 .. SIMPAGESIZE - 1

PTE == [valid_bit : BOOLEAN, dirty_bit : BOOLEAN, referenced_bit : BOOLEAN,
        swap_on : BOOLEAN, frame_number : Int, swap_offset : Int]

Init ==
  /\ opt \in [alg : Algs, memsize : MemSizes, swapsize : SwapSizes]
  /\ pte = <<>>
  /\ coremap = <<>>
  /\ physmem = [a \in 0 .. opt.memsize * SIMPAGESIZE - 1 |-> 0]
  /\ policy = NoHistory
  /\ swapmap = {}
  /\ swapfile = [s \in Slots |-> [b \in Bytes |-> 0]]
  /\ last = [q \in Pages |-> [o \in 0 .. SIMPAGESIZE |-> 0]]
  /\ arrivals = <<>>
  /\ status = "run"

-----------------------------------------------------------------------------
(***************************************************************************)
(* Eviction.                                                               *)
(***************************************************************************)
Referenced(ptes, cm) == [f \in DOMAIN cm |-> ptes[cm[f]].referenced_bit]

\* The entries with the referenced bits of the pages in memory as in ref.
SetReferenced(ptes, cm, ref) ==
  [q \in DOMAIN ptes |->
     IF \E f \in DOMAIN cm : cm[f] = q
     THEN [ptes[q] EXCEPT !.referenced_bit = ref[CHOOSE f \in DOMAIN cm : cm[f] = q]]
     ELSE ptes[q]]

\* What evict_func may choose.
evict_func ==
  LET m == opt.memsize  ref == Referenced(pte, coremap) IN
  CASE opt.alg = "rand"  -> rand_evict(m, policy, ref)
    [] opt.alg = "rr"    -> {rr_evict(m, policy, ref)}
    [] opt.alg = "clock" -> {clock_evict(m, policy, ref)}
    [] opt.alg = "s2q"   -> {s2q_evict(m, policy, ref, m \div ThresholdPart)}

PageIn(f) == [b \in Bytes |-> physmem[f * SIMPAGESIZE + b]]

\* swap_pageout: the slot written, a new one for a page that has none.
swap_pageout(offset) ==
  IF offset # INVALID_SWAP THEN offset
  ELSE IF Slots \subseteq swapmap THEN INVALID_SWAP
  ELSE Min(Slots \ swapmap)

\* Mutant of handle_evict: a page that has a copy in swap is not written again.
EvictKeepsOldCopy(ptes, f) ==
  LET e == ptes[coremap[f]]
      slot == IF ~e.dirty_bit \/ e.swap_offset # NoSlot THEN e.swap_offset
              ELSE swap_pageout(INVALID_SWAP)
  IN [entry |-> [e EXCEPT !.valid_bit = FALSE, !.swap_on = TRUE, !.frame_number = -1,
                          !.dirty_bit = FALSE, !.swap_offset = slot],
      written |-> IF e.dirty_bit /\ e.swap_offset = NoSlot THEN {slot} \cap Slots ELSE {}]

\* Mutant of handle_evict: the entry stays valid.
EvictStaysValid(ptes, f) ==
  [entry |-> [ptes[coremap[f]] EXCEPT !.swap_on = TRUE, !.frame_number = -1],
   written |-> {}]

\* Mutant of handle_evict: swap_on is left as it was.
EvictForgetsSwap(ptes, f) ==
  LET e == ptes[coremap[f]]
      slot == IF ~e.dirty_bit THEN e.swap_offset
              ELSE swap_pageout(IF e.swap_offset = NoSlot THEN INVALID_SWAP ELSE e.swap_offset)
  IN [entry |-> [e EXCEPT !.valid_bit = FALSE, !.frame_number = -1,
                          !.dirty_bit = FALSE, !.swap_offset = slot],
      written |-> IF e.dirty_bit THEN {slot} \cap Slots ELSE {}]

\* handle_evict of the page in frame f: its entry after it, and the slot that
\* is written, if one is.
handle_evict(ptes, f) ==
  LET e == ptes[coremap[f]]
      slot == IF ~e.dirty_bit THEN e.swap_offset
              ELSE swap_pageout(IF e.swap_offset = NoSlot THEN INVALID_SWAP ELSE e.swap_offset)
  IN [entry |-> [e EXCEPT !.valid_bit = FALSE, !.swap_on = TRUE, !.frame_number = -1,
                          !.dirty_bit = FALSE, !.swap_offset = slot],
      written |-> IF e.dirty_bit THEN {slot} \cap Slots ELSE {}]

\* allocate_frame for page q: the lowest free frame, or one that is evicted.
\* What it may return, with the state it leaves.
allocate_frame(q) ==
  LET Free == Frames \ DOMAIN coremap IN
  IF Free # {}
  THEN {[frame |-> Min(Free), pte |-> pte, policy |-> policy, written |-> {}, ok |-> TRUE]}
  ELSE {LET ptes == SetReferenced(pte, coremap, c.ref)
            out  == handle_evict(ptes, c.frame)
        IN [frame |-> c.frame, policy |-> c.policy, written |-> out.written, ok |-> c.ok,
            pte |-> [ptes EXCEPT ![coremap[c.frame]] = out.entry]] : c \in evict_func}

-----------------------------------------------------------------------------
(***************************************************************************)
(* The access proper, once the page is in frame f: ref_func, then the load *)
(* or store of access_mem at the page's address plus the offset.           *)
(***************************************************************************)
ref_func(ptes, cm, p, f) ==
  LET ref == Referenced(ptes, cm) IN
  CASE opt.alg \in {"rand", "rr"} -> Chosen(f, p, ref, TRUE)
    [] opt.alg = "clock"          -> Chosen(f, p, [ref EXCEPT ![f] = TRUE], TRUE)
    [] opt.alg = "s2q"            -> s2q_ref(p, ref, f)

\* What access_mem does with page q in frame f: status tells a load or store
\* within physmem from one beyond it.
access_mem(op, q, o, f, ptes, cm, mem, p) ==
  LET r == ref_func(ptes, cm, p, f)
      address == f * SIMPAGESIZE + o
      stored == op.type = "S"
  IN /\ pte' = SetReferenced(ptes, cm, r.ref)
     /\ coremap' = cm
     /\ policy' = r.policy
     /\ physmem' = IF stored THEN [mem EXCEPT ![address] = op.val] ELSE mem
     /\ last' = IF stored THEN [last EXCEPT ![q][o] = op.val] ELSE last
     /\ status' = IF ~r.ok THEN "assert_policy"
                  ELSE IF address \notin DOMAIN mem THEN "out_of_bounds" ELSE status

\* The function f with x mapped to v.
Put(f, x, v) == [y \in DOMAIN f \cup {x} |-> IF y = x THEN v ELSE f[y]]

\* What find_frame_number does with the frame a it was given: it gets the entry
\* e of the page and the bytes of the page.
Place(op, q, o, a, e, bytes) ==
  LET ptes == Put(a.pte, q, [e EXCEPT !.frame_number = a.frame])
      cm   == Put(coremap, a.frame, q)
      mem  == [x \in DOMAIN physmem |-> IF x \div SIMPAGESIZE = a.frame
                                        THEN bytes[x % SIMPAGESIZE] ELSE physmem[x]]
  IN /\ swapmap' = swapmap \cup a.written
     /\ swapfile' = [s \in Slots |-> IF s \in a.written THEN PageIn(a.frame) ELSE swapfile[s]]
     /\ arrivals' = IF opt.alg = "rr" THEN Append(Without(arrivals, a.frame), a.frame)
                    ELSE arrivals
     /\ access_mem(op, q, o, a.frame, ptes, cm, mem, a.policy)
     /\ UNCHANGED opt

\* The run ends at a failed assertion or where its behaviour is undefined.
Stop(s) == /\ status' = s
           /\ UNCHANGED <<opt, pte, coremap, physmem, policy, swapmap, swapfile, last, arrivals>>

-----------------------------------------------------------------------------
(***************************************************************************)
(* One line of the trace: an access of page q at offset o.  A load stands  *)
(* for the types L and I, a store for S and M.                             *)
(***************************************************************************)
Ops == [type : {"L"}, val : {0}] \cup [type : {"S"}, val : Vals]

NewEntry == [valid_bit |-> TRUE, dirty_bit |-> TRUE, referenced_bit |-> FALSE,
             swap_on |-> FALSE, frame_number |-> -1, swap_offset |-> NoSlot]

\* The tables below the top level come from malloc and are not cleared: the
\* slot of a page without an entry is garbage if its top-level slot is taken.
vpn1(q) == q \div (Radix * Radix)
Garbage(q) == q \notin DOMAIN pte /\ \E r \in DOMAIN pte : vpn1(r) = vpn1(q)

Running == status = "run"

Hit(q, o, op) ==
  LET e == pte[q]
      ptes == [pte EXCEPT ![q].dirty_bit = @ \/ op.type = "S"] IN
  /\ Running
  /\ q \in DOMAIN pte
  /\ e.valid_bit
  /\ IF e.swap_on \/ e.frame_number = -1 THEN Stop("assert_entry")
     ELSE /\ access_mem(op, q, o, e.frame_number, ptes, coremap, physmem, policy)
          /\ UNCHANGED <<opt, swapmap, swapfile, arrivals>>

\* Garbage happens to be zero.
FirstReference(q, o, op) ==
  /\ Running
  /\ q \notin DOMAIN pte
  /\ \E a \in allocate_frame(q) :
       IF a.ok THEN Place(op, q, o, a, NewEntry, [b \in Bytes |-> 0])
       ELSE Stop("assert_policy")

\* Garbage is taken for a table or an entry.
WildPointer(q) ==
  /\ Running
  /\ Garbage(q)
  /\ Stop("wild_pointer")

SwapIn(q, o, op) ==
  LET e == pte[q] IN
  /\ Running
  /\ q \in DOMAIN pte
  /\ ~e.valid_bit
  /\ \E a \in allocate_frame(q) :
       IF ~a.ok THEN Stop("assert_policy")
       ELSE IF ~e.swap_on \/ e.dirty_bit THEN Stop("assert_entry")
       ELSE IF e.swap_offset \notin Slots THEN Stop("assert_swap")
       ELSE Place(op, q, o, a,
                  [e EXCEPT !.valid_bit = TRUE, !.swap_on = FALSE, !.dirty_bit = op.type = "S"],
                  swapfile[e.swap_offset])

\* main after the trace; free_pagetable looks at every slot of every table.
free_pagetable ==
  /\ Running
  /\ pte' = <<>>
  /\ status' \in {"done"} \cup
       {"wild_pointer" : q \in {n \in 0 .. Radix * Radix * Radix - 1 : Garbage(n)}}
  /\ UNCHANGED <<opt, coremap, physmem, policy, swapmap, swapfile, last, arrivals>>

Over == ~Running /\ UNCHANGED vars

Next ==
  \/ \E q \in Pages, o \in Offsets, op \in Ops :
       Hit(q, o, op) \/ FirstReference(q, o, op) \/ SwapIn(q, o, op)
  \/ \E q \in Pages : WildPointer(q)
  \/ free_pagetable
  \/ Over

Spec == Init /\ [][Next]_vars

-----------------------------------------------------------------------------
(***************************************************************************)
(* Properties.                                                             *)
(***************************************************************************)
\* Every variable has its type.
VMTypeOK ==
  /\ opt \in [alg : Algs, memsize : MemSizes, swapsize : SwapSizes]
  /\ DOMAIN pte \subseteq Pages /\ \A q \in DOMAIN pte : pte[q] \in PTE
  /\ DOMAIN coremap \subseteq Frames /\ Range(coremap) \subseteq Pages
  /\ physmem \in [0 .. opt.memsize * SIMPAGESIZE - 1 -> Vals]
  /\ policy \in [i : Frames, clock_handle : Frames, A1 : Seq(Frames), Am : Seq(Frames)]
  /\ last \in [Pages -> [0 .. SIMPAGESIZE -> Vals]]
  /\ swapmap \subseteq Slots /\ swapfile \in [Slots -> [Bytes -> Vals]]
  /\ status \in {"run", "done", "assert_policy", "assert_entry", "assert_swap",
                 "out_of_bounds", "wild_pointer"}

\* The bytes of page q, wherever they are.
Content(q) == IF pte[q].valid_bit THEN PageIn(pte[q].frame_number)
              ELSE swapfile[pte[q].swap_offset]

\* A page holds what was last stored in it, in memory or in swap, after any
\* history of evictions; only a page for which the swap file had no room is
\* lost.  This is what the comparison in access_mem (sim.c) tests on a trace.
Coherent ==
  Running =>
    \A q \in DOMAIN pte :
      (pte[q].valid_bit \/ pte[q].swap_offset \in Slots) =>
        \A b \in Bytes : Content(q)[b] = last[q][b]

\* coremap and the page table agree on which page is where, a page that may be
\* evicted without a write has a copy in swap, and no two pages share a slot.
TablesAgree ==
  Running =>
    /\ \A f \in DOMAIN coremap : LET e == pte[coremap[f]] IN
         e.valid_bit /\ e.frame_number = f
    /\ \A q \in DOMAIN pte : LET e == pte[q] IN
         /\ e.valid_bit => e.frame_number \in DOMAIN coremap /\ coremap[e.frame_number] = q
         /\ e.valid_bit /\ ~e.dirty_bit => e.swap_offset \in swapmap
         /\ e.swap_offset \in Slots =>
              \A r \in DOMAIN pte \ {q} : pte[r].swap_offset # e.swap_offset

\* With a swap file as large as the trace has pages no assertion of
\* pagetable.c, swap.c or s2q.c fails.
NoFaultWhenSized ==
  opt.swapsize >= Cardinality(Pages) =>
    status \notin {"assert_policy", "assert_entry", "assert_swap"}

\* Under s2q each frame in use is in one of the lists, once, and the pages in Am
\* are those with the referenced bit, which s2q_ref goes by (s2q.c:102).
S2QLists ==
  opt.alg = "s2q" /\ Running =>
    LET both == policy.A1 \o policy.Am IN
    /\ IsInjective(both) /\ Range(both) = DOMAIN coremap
    /\ Range(policy.Am) = {f \in DOMAIN coremap : pte[coremap[f]].referenced_bit}

Full == Running /\ DOMAIN coremap = Frames

\* rr evicts the page that came in first ("this is equivalent to FIFO", rr.c:7).
RoundRobinIsFIFO ==
  opt.alg = "rr" /\ Full => \A c \in evict_func : c.frame = Head(arrivals)

AtLastFrame == /\ policy.clock_handle = opt.memsize - 1
               /\ \A f \in Frames : pte[coremap[f]].referenced_bit

TextbookClock ==
  clock_evict(opt.memsize, policy, Referenced(pte, coremap))
    = SecondChance(opt.memsize, policy, Referenced(pte, coremap))

\* clock evicts the page, clears the bits and leaves the handle as CLOCK does,
\* unless the handle is at the last frame and every page is referenced.
ClockExceptAtLastFrame ==
  opt.alg = "clock" /\ Full /\ ~AtLastFrame => TextbookClock
=============================================================================
