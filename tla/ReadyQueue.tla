----------------------------- MODULE ReadyQueue -----------------------------
(***************************************************************************)
(* The ready queue of src/sw/bootc/kernel/scheduler.c: MAX_TASKS statically *)
(* allocated entries, one per task slot, threaded into a doubly linked list *)
(* that push_ready_task keeps in order of decreasing priority.              *)
(*                                                                          *)
(* A queue is a record [prev, next, head, n, err].  prev and next hold the  *)
(* link fields of every entry, the unlinked ones too: the code never clears *)
(* the link of a neighbour that it forgets, and what such a stale link does *)
(* later is the point of the module.  err says how an operation ended when  *)
(* it does not return TRUE: "full" (it returns FALSE and the caller panics), *)
(* "hang" (the search for a place runs round a cycle) or "wild" (it follows *)
(* a NULL pointer and writes through it).                                   *)
(***************************************************************************)
EXTENDS Integers, FiniteSets, Sequences, Functions

CONSTANTS
  MaxTasks,   \* MAX_TASKS (8 in task.h)
  Priority,   \* priority of the task of each slot
  NIL         \* the NULL pointer

Slot == 0 .. MaxTasks - 1

ASSUME MaxTasksAssumption == MaxTasks \in Nat \ {0}
ASSUME PriorityAssumption == Priority \in [Slot -> Nat]
ASSUME NilAssumption      == NIL \notin Slot

Ptr   == Slot \union {NIL}
Queue == [prev : [Slot -> Ptr], next : [Slot -> Ptr], head : Ptr,
          n : Nat, err : {"none", "full", "hang", "wild"}]

EmptyQueue == [prev |-> [s \in Slot |-> NIL], next |-> [s \in Slot |-> NIL],
               head |-> NIL, n |-> 0, err |-> "none"]

-----------------------------------------------------------------------------
(* push_ready_task.  Here and in the other modules an operator named Mut...   *)
(* is a plausible slip in the one that follows it, used to see that the      *)
(* properties would notice.                                                  *)

MutInsertAtHeadUncounted(q, e) ==
  [q EXCEPT !.prev[e] = NIL, !.next[e] = q.head, !.head = e]

InsertAtHead(q, e) ==
  [q EXCEPT !.prev[e] = NIL, !.next[e] = q.head, !.head = e, !.n = @ + 1]

InsertAfter(q, p, e) ==
  LET x == q.next[p]
      linked == [q EXCEPT !.prev[e] = p, !.next[e] = x, !.n = @ + 1]
  IN  [linked EXCEPT !.next[p] = e,
                     !.prev = IF x = NIL THEN @ ELSE [@ EXCEPT ![x] = e]]

(* The condition of the search loop: the entry after p does not rank below e. *)
MutMovesPastHigher(q, p, e) == q.next[p] # NIL /\ Priority[q.next[p]] > Priority[e]

MutMovesPastAny(q, p, e) == q.next[p] # NIL

MovesPast(q, p, e) == q.next[p] # NIL /\ Priority[q.next[p]] >= Priority[e]

SearchStep(q, e, p) == IF MovesPast(q, p, e) THEN q.next[p] ELSE p

(* The entry the loop stops at.  The loop writes nothing, so a search that   *)
(* has not stopped after MaxTasks moves is on a cycle and never stops.       *)
LastNotBelow(q, e) ==
  LET at[i \in 0 .. MaxTasks] ==
        IF i = 0 THEN q.head ELSE SearchStep(q, e, at[i-1])
  IN  at[MaxTasks]

MutRankedFirstEqual(q, e) == q.n = 0 \/ Priority[e] >= Priority[q.head]

(* With an empty queue the code still reads the head's priority, through NULL;  *)
(* address 0 is readable memory here and the value is not used.               *)
RankedFirst(q, e) == q.n = 0 \/ Priority[e] > Priority[q.head]

Push(q, e) ==
  IF q.err # "none"  THEN q
  ELSE IF q.n = MaxTasks THEN [q EXCEPT !.err = "full"]
  ELSE IF q.n # 0 /\ q.head = NIL THEN [q EXCEPT !.err = "wild"]
  ELSE IF RankedFirst(q, e) THEN InsertAtHead(q, e)
  ELSE LET p == LastNotBelow(q, e)
       IN  IF MovesPast(q, p, e) THEN [q EXCEPT !.err = "hang"]
                                 ELSE InsertAfter(q, p, e)

-----------------------------------------------------------------------------
(* remove_ready_task: an entry whose prev is NULL is taken to be the head,    *)
(* and stays linked from its predecessor when it is not.                     *)
Remove(q, e) ==
  LET p == q.prev[e]
      x == q.next[e]
      skipped == IF p # NIL THEN [q EXCEPT !.next[p] = x]
                 ELSE IF e = q.head THEN [q EXCEPT !.head = x]
                 ELSE q
      \* entr->next is read again: the write above may have changed it
      y == skipped.next[e]
      back == IF y = NIL THEN skipped ELSE [skipped EXCEPT !.prev[y] = skipped.prev[e]]
  IN  [back EXCEPT !.prev[e] = NIL, !.next[e] = NIL, !.n = @ - 1]

-----------------------------------------------------------------------------
(* What the queue means: the entries reached from the head, in order.  A     *)
(* chain longer than MaxTasks is a cycle; it is cut there.                   *)
Extended(q, c) ==
  LET x == IF c = <<>> THEN q.head ELSE q.next[c[Len(c)]]
  IN  IF x = NIL THEN c ELSE Append(c, x)

Chain(q) ==
  LET to[i \in 0 .. MaxTasks] == IF i = 0 THEN <<>> ELSE Extended(q, to[i-1])
  IN  to[MaxTasks]

Linked(q) == Range(Chain(q))

\* the walk from the head comes to s without having met r
FoundBefore(q, s, r) ==
  LET c == Chain(q)
  IN  \E i \in DOMAIN c : c[i] = s /\ \A j \in 1 .. i : c[j] # r

Ahead(q, s, r) == \E i, j \in DOMAIN Chain(q) : i < j /\ Chain(q)[i] = s /\ Chain(q)[j] = r
=============================================================================
