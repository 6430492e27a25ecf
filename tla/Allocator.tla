----------------------------- MODULE Allocator ------------------------------
(***************************************************************************)
(* What a heap promises its clients: the ranges of memory that it has given  *)
(* out and not taken back lie inside the heap and do not overlap.            *)
(***************************************************************************)
EXTENDS Integers

CONSTANTS Low, High   \* the heap is [Low, High)

VARIABLE owned   \* the ranges given out, as [ptr, len]

Apart(r, s) == r.ptr + r.len <= s.ptr \/ s.ptr + s.len <= r.ptr

Init == owned = {}

Give(r) ==
  /\ Low <= r.ptr /\ r.ptr + r.len <= High
  /\ \A s \in owned : Apart(r, s) /\ r.ptr # s.ptr
  /\ owned' = owned \union {r}

TakeBack(r) == owned' = owned \ {r}

Next == \/ \E r \in owned' \ owned : Give(r)
        \/ \E r \in owned : TakeBack(r)

Spec == Init /\ [][Next]_owned
=============================================================================
