---------------------------- MODULE MCVirtualMemory ----------------------------
EXTENDS VirtualMemory

\* The traces that are replayed: few pages with values in them, on little
\* memory, or many pages, on more memory, with only zeros stored.
Workload ==
  \/ /\ opt.memsize <= 2
     /\ DOMAIN pte \subseteq {0, 1, 4}
  \/ /\ opt.memsize >= 2 /\ opt.swapsize = Max(SwapSizes)
     /\ opt.alg # "rand"
     /\ \A q \in Pages, o \in Offsets : last[q][o] = 0
=============================================================================
