------------------------------ MODULE History ------------------------------
(***************************************************************************)
(* The fixed-size time series of sync_history.c.  A history holds the      *)
(* items of the last buffer_sz stamps in a circular buffer: the item of    *)
(* stamp i lies in slot i % buffer_sz, and only oldest_i..newest_i are     *)
(* present.  index_t is unsigned: newest_i = -1 marks an empty history and *)
(* wraps to 0 at the first addition, so the integer -1 stands for it.      *)
(***************************************************************************)
EXTENDS Integers, FiniteSetsExt

history_init(sz) ==
  [buffer_sz |-> sz, item_count |-> 0, oldest_i |-> 0, newest_i |-> -1,
   buffer |-> [k \in 0 .. sz - 1 |-> 0]]

\* Mutant: the count does not stop at the size of the buffer.
CountsOverwritten(h, i, x) ==
  IF i = h.newest_i
  THEN h
  ELSE [h EXCEPT !.buffer[i % h.buffer_sz] = x, !.newest_i = @ + 1,
                 !.item_count = @ + 1]

\* newest_i advances by one whatever i is; an item already present at the
\* newest index is refused.
history_add(h, i, x) ==
  IF i = h.newest_i
  THEN h
  ELSE [h EXCEPT !.buffer[i % h.buffer_sz] = x,
                 !.newest_i = @ + 1,
                 !.item_count = IF @ < h.buffer_sz THEN @ + 1 ELSE @,
                 !.oldest_i = IF h.item_count < h.buffer_sz THEN @ ELSE @ + 1]

history_old(h) == IF h.item_count = 0 THEN -1 ELSE h.oldest_i

\* history_find returns NULL for these indices and a pointer into the
\* buffer, whoever owns the slot, for every other one.
Absent(h, i) == i < h.oldest_i

history_find(h, i) == h.buffer[i % h.buffer_sz]

history_resize(h, new_sz) ==
  LET oldest == IF h.item_count > new_sz
                THEN h.newest_i - new_sz + 1 ELSE h.oldest_i
      kept == oldest .. h.newest_i
  IN  [h EXCEPT !.buffer_sz = new_sz,
                !.oldest_i = oldest,
                !.item_count = IF @ > new_sz THEN new_sz ELSE @,
                !.buffer = [k \in 0 .. new_sz - 1 |->
                              IF \E i \in kept : i % new_sz = k
                              THEN history_find(h, CHOOSE i \in kept : i % new_sz = k)
                              ELSE 0]]

\* Index of the first smallest item of stamps j..i.
history_min(h, j, i) ==
  CHOOSE k \in j .. i : \A l \in j .. i :
    \/ history_find(h, k) < history_find(h, l)
    \/ history_find(h, k) = history_find(h, l) /\ k <= l

\* The index of the minimum over j+1..i+1, from the index of that over j..i.
history_min_slide(h, index_curr, j, i) ==
  IF i <= j \/ history_find(h, i + 1) < history_find(h, index_curr)
  THEN i + 1
  ELSE IF j = index_curr THEN history_min(h, j + 1, i + 1) ELSE index_curr

\* Mutant: the minimum is kept when it leaves the window.
KeepsLeavingMinimum(h, min_curr, j, i) ==
  LET new == history_find(h, i + 1)
  IN  IF i <= j \/ new < min_curr THEN new ELSE min_curr

\* The minimum over j+1..i+1, from the minimum min_curr over j..i.
history_min_slide_value(h, min_curr, j, i) ==
  LET new == history_find(h, i + 1)
  IN  CASE i <= j -> new
        [] i > j /\ new < min_curr -> new
        [] i > j /\ new >= min_curr /\ history_find(h, j) = min_curr ->
             history_find(h, history_min(h, j + 1, i + 1))
        [] OTHER -> min_curr

\* The slide reads the item leaving the window only when the new item is
\* not the new minimum.
SlideReadsAbsent(h, min_curr, j, i) ==
  \/ Absent(h, i + 1)
  \/ i > j /\ history_find(h, i + 1) >= min_curr /\ Absent(h, j)
=============================================================================
