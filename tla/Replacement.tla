------------------------------ MODULE Replacement ------------------------------
(***************************************************************************)
(* The page replacement algorithms of A3-Virtual-Memory as operators:      *)
(* rr.c, clock.c, s2q.c and rand.c.                                        *)
(*                                                                         *)
(* Frames are 0 .. m - 1.  ref is the referenced bit of the page in each   *)
(* frame, p the variables of the algorithms: i of rr_evict, clock_handle,  *)
(* and the lists A1 and Am of s2q.c, whose list_entry is in one list at    *)
(* most.  evict gives the frame, p and ref after it; ok says that its      *)
(* assertions held.                                                        *)
(***************************************************************************)
EXTENDS Integers, Sequences, SequencesExt

NoHistory == [i |-> 0, clock_handle |-> 0, A1 |-> <<>>, Am |-> <<>>]

Chosen(f, p, ref, ok) == [frame |-> f, policy |-> p, ref |-> ref, ok |-> ok]

-----------------------------------------------------------------------------
rand_evict(m, p, ref) == {Chosen(f, p, ref, TRUE) : f \in 0 .. m - 1}

\* Mutants of rr_evict: the counter is not wrapped; it is wrapped one frame early.
RoundRobinUnwrapped(m, p, ref) == Chosen(p.i, [p EXCEPT !.i = @ + 1], ref, TRUE)
RoundRobinShort(m, p, ref) ==
  Chosen(p.i, [p EXCEPT !.i = IF @ + 2 < m THEN @ + 1 ELSE 0], ref, TRUE)

rr_evict(m, p, ref) == Chosen(p.i, [p EXCEPT !.i = (@ + 1) % m], ref, TRUE)

-----------------------------------------------------------------------------
\* The first frame from a to b whose page is not referenced, b + 1 if there is
\* none; the loop clears the bits it passes.
FirstUnreferenced(ref, a, b) ==
  IF \E f \in a .. b : ~ref[f]
  THEN CHOOSE f \in a .. b : ~ref[f] /\ \A g \in a .. f - 1 : ref[g]
  ELSE b + 1

Passed(ref, a, b) == [f \in DOMAIN ref |-> ref[f] /\ f \notin a .. b]

\* The last frame is left out of the loop; when every other page was
\* referenced the victim is frame 0 and the handle stays at the last frame.
find_first_evict(m, p, ref) ==
  LET f == FirstUnreferenced(ref, 0, m - 2) IN
  IF f < m - 1
  THEN Chosen(f, [p EXCEPT !.clock_handle = f + 1], Passed(ref, 0, f - 1), TRUE)
  ELSE Chosen(0, [p EXCEPT !.clock_handle = m - 1], Passed(ref, 0, m - 2), TRUE)

\* Mutant of clock_evict: the bit of the page is not looked at.
ClockIgnoresBit(m, p, ref) ==
  Chosen(p.clock_handle, [p EXCEPT !.clock_handle = (@ + 1) % m], ref, TRUE)

clock_evict(m, p, ref) ==
  LET f == FirstUnreferenced(ref, p.clock_handle, m - 2)
      passed == Passed(ref, p.clock_handle, f - 1)
  IN IF f < m - 1 THEN Chosen(f, [p EXCEPT !.clock_handle = f + 1], passed, TRUE)
     ELSE IF ~ref[m - 1] THEN Chosen(m - 1, [p EXCEPT !.clock_handle = 0], passed, TRUE)
     ELSE find_first_evict(m, p, Passed(passed, m - 1, m - 1))

\* CLOCK as the textbook has it: from the handle round to the first page that
\* is not referenced, clearing the bits on the way.
SecondChance(m, p, ref) ==
  LET At(k) == (p.clock_handle + k) % m
      k == IF \E j \in 0 .. m - 1 : ~ref[At(j)]
           THEN CHOOSE j \in 0 .. m - 1 : ~ref[At(j)] /\ \A g \in 0 .. j - 1 : ref[At(g)]
           ELSE m
  IN Chosen(At(k), [p EXCEPT !.clock_handle = (At(k) + 1) % m],
            [f \in DOMAIN ref |-> ref[f] /\ \A j \in 0 .. k - 1 : f # At(j)], TRUE)

-----------------------------------------------------------------------------
s2q_evict(m, p, ref, threshold) ==
  IF Len(p.A1) > threshold
  THEN Chosen(Head(p.A1), [p EXCEPT !.A1 = Tail(@)], [ref EXCEPT ![Head(p.A1)] = FALSE], TRUE)
  ELSE IF p.Am # <<>>
  THEN Chosen(Last(p.Am), [p EXCEPT !.Am = Front(@)], [ref EXCEPT ![Last(p.Am)] = FALSE],
              ref[Last(p.Am)])
  ELSE Chosen(0, p, ref, FALSE)

\* s, in which f is at most once, with f unlinked.
Without(s, f) ==
  LET at == {i \in DOMAIN s : s[i] = f}
  IN IF at = {} THEN s ELSE RemoveAt(s, CHOOSE i \in at : TRUE)

Linked(p, f) == \E i \in DOMAIN (p.A1 \o p.Am) : (p.A1 \o p.Am)[i] = f

\* Mutant of s2q_ref: a page seen again stays in A1 but is marked.
MarkedInA1(p, ref, f) ==
  IF ref[f]
  THEN Chosen(f, [p EXCEPT !.A1 = Without(@, f), !.Am = <<f>> \o Without(@, f)], ref,
              Linked(p, f))
  ELSE IF Linked(p, f) THEN Chosen(f, p, [ref EXCEPT ![f] = TRUE], TRUE)
  ELSE Chosen(f, [p EXCEPT !.A1 = Append(@, f)], ref, TRUE)

\* The page in frame f is referenced.  list_del takes f out of the list it is
\* in; it needs it to be in one.
s2q_ref(p, ref, f) ==
  IF ref[f]
  THEN Chosen(f, [p EXCEPT !.A1 = Without(@, f), !.Am = <<f>> \o Without(@, f)], ref,
              Linked(p, f))
  ELSE IF Linked(p, f)
  THEN Chosen(f, [p EXCEPT !.A1 = Without(@, f), !.Am = <<f>> \o @], [ref EXCEPT ![f] = TRUE],
              TRUE)
  ELSE Chosen(f, [p EXCEPT !.A1 = Append(@, f)], ref, TRUE)
=============================================================================
