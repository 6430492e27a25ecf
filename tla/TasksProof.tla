------------------------------ MODULE TasksProof ------------------------------
(***************************************************************************)
(* Proofs about module Tasks, for any number of slots, any number of           *)
(* generations and any heap: the memory that tasks hold, the calls of the        *)
(* allocator that create and destroy them, and their ids.                      *)
(***************************************************************************)
EXTENDS Tasks, HeapProof

USE DEF Align, Hdr, MinAlloc, NULL, Base

Made == {s \in Slot : created[s]}

\* the slots whose stack is taken from the heap, in the course of a call too
WithStack ==
  {s \in Slot : \/ created[s] /\ ~(call.step = "free_heap" /\ call.slot = s)
                \/ call.step \in {"heap", "give_back"} /\ call.slot = s}

TypeInv ==
  /\ task_id \in [Slot -> Nat] /\ created \in [Slot -> BOOLEAN]
  /\ stack_base \in [Slot -> Nat] /\ heap_head \in [Slot -> Nat]
  /\ t_gen \in 0 .. GenMod - 1
  /\ call \in [step : {"idle", "stack", "heap", "give_back", "free_stack", "free_heap"},
               slot : Slot]
  /\ known \in Nat \union {None} /\ known_age \in 0 .. GenMod /\ known_live \in BOOLEAN

(* A call creates what is not there and destroys what is; n_task counts.            *)
CallInv ==
  /\ call.step \in {"stack", "heap", "give_back"} => ~created[call.slot]
  /\ call.step \in {"free_stack", "free_heap"} => created[call.slot]
  /\ n_task = Cardinality(Made)

(* The pointers D are the stacks sb of the slots S and the heaps hh of the slots H,  *)
(* all different.                                                             *)
Holds(S, H, sb, hh, D) ==
  /\ D = {sb[s] : s \in S} \union {hh[s] : s \in H}
  /\ \A s, t \in S : sb[s] = sb[t] => s = t
  /\ \A s, t \in H : hh[s] = hh[t] => s = t
  /\ \A s \in S, t \in H : sb[s] # hh[t]

MemInv == Holds(WithStack, Made, stack_base, heap_head, DOMAIN live)

(* When the next generation is gen, g is the last but age that was given out.        *)
Numbered(gen, g, age) == gen = g + 1 + age \/ gen = g + 1 + age - GenMod

(* The id of the task in creation is the last one.                                *)
FreshInv ==
  call.step \in {"stack", "heap"} =>
    \E g \in 0 .. GenMod - 1 : /\ task_id[call.slot] = TaskId(call.slot, g)
                               /\ Numbered(t_gen, g, 0)

(* The known id stays in its slot while its task lives, and does not come back in   *)
(* a slot that is created, or being created, before its generation does.           *)
KnownInv ==
  known # None =>
    \E k \in Slot, g \in 0 .. GenMod - 1 :
      /\ known = TaskId(k, g)
      /\ known_age < GenMod => Numbered(t_gen, g, known_age)
      /\ known_live => created[k] /\ task_id[k] = known
      /\ ~known_live /\ known_age < GenMod /\ task_id[k] = known =>
           ~created[k] /\ ~(call.step \in {"stack", "heap"} /\ call.slot = k)

IInvT == /\ HeapInv /\ status = "ok"
         /\ TypeInv /\ CallInv /\ MemInv /\ FreshInv /\ KnownInv

-----------------------------------------------------------------------------
LEMMA SlotType == /\ Slot \in SUBSET Nat /\ IsFiniteSet(Slot) /\ 0 \in Slot
                  /\ GenMod \in Nat /\ GenMod >= 1 /\ \A s \in Slot : s <= 255
<1>1. MaxTasks \in 1 .. 256 /\ GenMod \in Nat \ {0}
  BY TasksAssumption
<1>2. QED
  BY <1>1, FS_Interval DEF Slot

LEMMA SizesAsked == MayBeAsked(StackSize) /\ MayBeAsked(TaskHeapSize)
<1>1. HeapSize + 48 <= Word
  <2>1. Word % 16 = 0
    BY HeapAssumption
  <2>2. QED
    BY <2>1, Sizes
<1>2. QED
  BY <1>1, Sizes, TasksAssumption DEF MayBeAsked

LEMMA IdOfSlot ==
  ASSUME NEW k \in Slot, NEW g \in Nat
  PROVE  /\ TaskId(k, g) \in Nat /\ TaskSlot(TaskId(k, g)) = k
         /\ \A h \in Nat : TaskId(k, h) = TaskId(k, g) => h = g
<1>1. k \in 0 .. 255
  BY SlotType
<1>2. QED
  BY <1>1 DEF TaskId, TaskSlot

LEMMA MinOf ==
  ASSUME NEW S \in SUBSET Nat, S # {}
  PROVE  Min(S) \in S /\ \A x \in S : Min(S) <= x
<1>1. \E x \in S : \A y \in S : x <= y
  BY LeastNat
<1>2. QED
  BY <1>1 DEF Min

(* What the calls of the allocator do to the pointers that are held.               *)
LEMMA AllocEither ==
  ASSUME HeapInv, NEW n, MayBeAsked(n), Alloc(n)
  PROVE  /\ HeapInv' /\ status' = "ok"
         /\ \/ Allocated(n) = NULL /\ DOMAIN live' = DOMAIN live
            \/ \E p \in Nat : /\ Allocated(n) = p /\ p # NULL /\ p \notin DOMAIN live
                              /\ DOMAIN live' = DOMAIN live \union {p}
<1>1. HeapInv' /\ status' = "ok"
  BY AllocKeepsInv, AllocTakes
<1>2. CASE FirstFit(n) = NULL /\ UNCHANGED vars
  <2>1. Allocated(n) = NULL
    BY <1>2 DEF Allocated
  <2>2. live' = live
    BY <1>2 DEF vars
  <2>3. QED
    BY <1>1, <2>1, <2>2
<1>3. ASSUME NEW b \in Addr, Takes(n, b)
      PROVE  \E p \in Nat : /\ Allocated(n) = p /\ p # NULL /\ p \notin DOMAIN live
                            /\ DOMAIN live' = DOMAIN live \union {p}
  <2>1. b \in Nat /\ b + 16 # 0
    BY AddrType
  <2>2. Allocated(n) = b + 16
    BY <1>3 DEF Allocated, Takes
  <2>3. b + 16 \notin DOMAIN live
    BY <1>3, AddrType DEF HeapInv, ClientInv, Takes
  <2>4. DOMAIN live' = DOMAIN live \union {b + 16}
    BY <1>3 DEF Takes
  <2>5. QED
    BY <2>1, <2>2, <2>3, <2>4
<1>4. QED
  BY <1>1, <1>2, <1>3, AllocTakes

LEMMA FreeDrops ==
  ASSUME HeapInv, NEW p \in DOMAIN live, Free(p)
  PROVE  HeapInv' /\ status' = "ok" /\ DOMAIN live' = DOMAIN live \ {p}
<1>1. HeapInv' /\ status' = "ok" /\ GivesBack(p)
  BY FreeKeepsInv, FreeGives
<1>2. QED
  BY <1>1 DEF GivesBack, Restrict

LEMMA HeapStutters ==
  ASSUME HeapInv, UNCHANGED vars
  PROVE  HeapInv' /\ status' = status /\ DOMAIN live' = DOMAIN live
  BY DEF HeapInv, ClientInv, BlockInv, Clean, vars, memory, Links

(* A pointer more, or less.                                                      *)
LEMMA HoldsAnotherStack ==
  ASSUME NEW S \in SUBSET Slot, NEW H \in SUBSET Slot, NEW sb \in [Slot -> Nat], NEW hh,
         NEW D, Holds(S, H, sb, hh, D), NEW s \in Slot \ S, NEW p \in Nat, p \notin D
  PROVE  Holds(S \union {s}, H, [sb EXCEPT ![s] = p], hh, D \union {p})
  BY DEF Holds

LEMMA HoldsAnotherHeap ==
  ASSUME NEW S \in SUBSET Slot, NEW H \in SUBSET Slot, NEW sb, NEW hh \in [Slot -> Nat],
         NEW D, Holds(S, H, sb, hh, D), NEW s \in Slot \ H, NEW p \in Nat, p \notin D
  PROVE  Holds(S, H \union {s}, sb, [hh EXCEPT ![s] = p], D \union {p})
  BY DEF Holds

LEMMA HoldsNoStack ==
  ASSUME NEW S, NEW H, NEW sb, NEW hh, NEW D, Holds(S, H, sb, hh, D), NEW s \in S
  PROVE  sb[s] \in D /\ Holds(S \ {s}, H, sb, hh, D \ {sb[s]})
  BY DEF Holds

LEMMA HoldsNoHeap ==
  ASSUME NEW S, NEW H, NEW sb, NEW hh, NEW D, Holds(S, H, sb, hh, D), NEW s \in H
  PROVE  hh[s] \in D /\ Holds(S, H \ {s}, sb, hh, D \ {hh[s]})
  BY DEF Holds

-----------------------------------------------------------------------------
(* The inductive invariant, one call or step of a call at a time.                 *)
LEMMA TasksInitInv == TaskInit => IInvT
<1> SUFFICES ASSUME TaskInit PROVE IInvT
  OBVIOUS
<1>1. HeapInv /\ status = "ok" /\ DOMAIN live = {}
  BY InitInv DEF TaskInit, IInv, Init
<1>2. /\ task_id = [s \in Slot |-> 0] /\ created = [s \in Slot |-> FALSE]
      /\ stack_base = [s \in Slot |-> 0] /\ heap_head = [s \in Slot |-> 0]
      /\ n_task = 0 /\ t_gen = 0 /\ call = [step |-> "idle", slot |-> 0]
      /\ known = None /\ known_age = 0 /\ known_live = FALSE
  BY DEF TaskInit, Idle
<1>3. TypeInv
  <2>1. 0 \in 0 .. GenMod - 1 /\ 0 \in 0 .. GenMod /\ 0 \in Slot
    BY SlotType
  <2>2. known_live \in BOOLEAN /\ created \in [Slot -> BOOLEAN]
    BY <1>2
  <2>3. QED
    BY <1>2, <2>1, <2>2 DEF TypeInv
<1>4. Made = {} /\ WithStack = {}
  BY <1>2 DEF Made, WithStack
<1>5. CallInv
  BY <1>2, <1>4, FS_EmptySet DEF CallInv
<1>6. MemInv
  BY <1>1, <1>4 DEF MemInv, Holds
<1>7. FreshInv /\ KnownInv
  BY <1>2 DEF FreshInv, KnownInv
<1>8. QED
  BY <1>1, <1>3, <1>5, <1>6, <1>7 DEF IInvT

LEMMA TakeSlotInv ==
  ASSUME IInvT, TakeSlot
  PROVE  IInvT'
<1>1. HeapInv /\ status = "ok" /\ TypeInv /\ CallInv /\ MemInv /\ FreshInv /\ KnownInv
  BY DEF IInvT
<1> DEFINE free == {s \in Slot : ~created[s]}
<1>2. PICK k \in Slot : k = Min(free) /\ ~created[k]
  <2>1. free # {} /\ free \in SUBSET Nat
    BY SlotType DEF TakeSlot
  <2>2. QED
    BY <2>1, MinOf
<1>3. /\ call.step = "idle"
      /\ task_id' = [task_id EXCEPT ![k] = TaskId(k, t_gen)]
      /\ call' = [step |-> "stack", slot |-> k]
      /\ t_gen' = (t_gen + 1) % GenMod
      /\ known_age' = Min({known_age + 1, GenMod})
      /\ UNCHANGED <<vars, created, stack_base, heap_head, n_task, known, known_live>>
  BY <1>2 DEF TakeSlot, Idle
<1>4. t_gen \in Nat /\ t_gen < GenMod /\ GenMod \in Nat /\ known_age \in 0 .. GenMod
  BY <1>1, SlotType DEF TypeInv
<1>5. /\ t_gen' \in 0 .. GenMod - 1
      /\ t_gen' = t_gen + 1 \/ t_gen' = t_gen + 1 - GenMod
  <2>1. CASE t_gen + 1 < GenMod
    <3>1. (t_gen + 1) % GenMod = t_gen + 1
      BY <1>4, <2>1
    <3>2. QED
      BY <1>3, <1>4, <2>1, <3>1
  <2>2. CASE t_gen + 1 = GenMod
    <3>1. (t_gen + 1) % GenMod = 0
      BY <1>4, <2>2
    <3>2. QED
      BY <1>3, <1>4, <2>2, <3>1
  <2>3. QED
    BY <1>4, <2>1, <2>2
<1>6. /\ known_age' \in 0 .. GenMod
      /\ known_age' < GenMod => known_age' = known_age + 1
  <2>1. known_age' \in {known_age + 1, GenMod} /\ known_age' <= known_age + 1 /\ known_age' <= GenMod
    BY <1>3, <1>4, MinOf
  <2>2. QED
    BY <1>4, <2>1
<1>7. HeapInv' /\ status' = "ok" /\ DOMAIN live' = DOMAIN live
  BY <1>1, <1>3, HeapStutters
<1>8. /\ TaskId(k, t_gen) \in Nat /\ task_id'[k] = TaskId(k, t_gen)
      /\ \A s \in Slot \ {k} : task_id'[s] = task_id[s]
  BY <1>1, <1>3, <1>4, IdOfSlot DEF TypeInv
<1>9. TypeInv'
  BY <1>1, <1>3, <1>5, <1>6, <1>8 DEF TypeInv
<1>10. Made' = Made /\ WithStack' = WithStack
  BY <1>3 DEF Made, WithStack
<1>11. CallInv'
  BY <1>1, <1>2, <1>3, <1>10 DEF CallInv
<1>12. MemInv'
  BY <1>1, <1>3, <1>7, <1>10 DEF MemInv
<1>13. PICK g \in 0 .. GenMod - 1 : g = t_gen
  BY <1>1 DEF TypeInv
<1>14. FreshInv'
  <2>1. Numbered(t_gen', g, 0)
    BY <1>4, <1>5, <1>13 DEF Numbered
  <2>2. task_id'[k] = TaskId(k, g)
    BY <1>8, <1>13
  <2>3. QED
    BY <1>3, <2>1, <2>2 DEF FreshInv
<1>15. KnownInv'
  <2> SUFFICES ASSUME known # None PROVE KnownInv'
    BY <1>3 DEF KnownInv
  <2>1. PICK c \in Slot, h \in 0 .. GenMod - 1 :
          /\ known = TaskId(c, h)
          /\ known_age < GenMod => Numbered(t_gen, h, known_age)
          /\ known_live => created[c] /\ task_id[c] = known
          /\ ~known_live /\ known_age < GenMod /\ task_id[c] = known =>
               ~created[c] /\ ~(call.step \in {"stack", "heap"} /\ call.slot = c)
    BY <1>1 DEF KnownInv
  <2>2. known_age' < GenMod =>
          /\ known_age < GenMod /\ Numbered(t_gen', h, known_age') /\ g # h
    BY <1>4, <1>5, <1>6, <1>13, <2>1 DEF Numbered
  <2>3. known_live => c # k
    BY <1>2, <2>1
  <2>4. known_live' => created'[c] /\ task_id'[c] = known'
    BY <1>3, <1>8, <2>1, <2>3
  <2>5. ASSUME ~known_live', known_age' < GenMod, task_id'[c] = known'
        PROVE  ~created'[c] /\ ~(call'.step \in {"stack", "heap"} /\ call'.slot = c)
    <3>1. c # k
      <4>1. TaskId(k, g) # TaskId(k, h)
        BY <1>4, <2>2, <2>5, IdOfSlot
      <4>2. QED
        BY <1>3, <1>8, <1>13, <2>1, <2>5, <4>1
    <3>2. task_id[c] = known
      BY <1>3, <1>8, <2>5, <3>1
    <3>3. QED
      BY <1>3, <2>1, <2>2, <2>5, <3>1, <3>2
  <2>6. QED
    BY <1>3, <2>1, <2>2, <2>4, <2>5 DEF KnownInv
<1>16. QED
  BY <1>7, <1>9, <1>11, <1>12, <1>14, <1>15 DEF IInvT

LEMMA AllocStackInv ==
  ASSUME IInvT, AllocStack
  PROVE  IInvT'
<1>1. HeapInv /\ status = "ok" /\ TypeInv /\ CallInv /\ MemInv /\ FreshInv /\ KnownInv
  BY DEF IInvT
<1>2. PICK k \in Slot : k = call.slot /\ ~created[k] /\ call.step = "stack"
  BY <1>1 DEF TypeInv, CallInv, AllocStack
<1>3. /\ HeapInv' /\ status' = "ok"
      /\ \/ Allocated(StackSize) = NULL /\ DOMAIN live' = DOMAIN live
         \/ \E p \in Nat : /\ Allocated(StackSize) = p /\ p # NULL /\ p \notin DOMAIN live
                           /\ DOMAIN live' = DOMAIN live \union {p}
  BY <1>1, SizesAsked, AllocEither DEF AllocStack
<1>4. UNCHANGED <<task_id, created, heap_head, n_task, t_gen, known, known_age, known_live>>
  BY DEF AllocStack, history
<1>5. Made' = Made
  BY <1>4 DEF Made
<1>6. CASE Allocated(StackSize) = NULL /\ DOMAIN live' = DOMAIN live
  <2>1. call' = [step |-> "idle", slot |-> 0] /\ stack_base' = stack_base
    BY <1>6 DEF AllocStack, Idle
  <2>2. TypeInv'
    BY <1>1, <1>4, <2>1, SlotType DEF TypeInv
  <2>3. WithStack' = WithStack
    BY <1>2, <1>4, <2>1 DEF WithStack
  <2>4. CallInv' /\ MemInv'
    BY <1>1, <1>4, <1>5, <1>6, <2>1, <2>3 DEF CallInv, MemInv
  <2>5. FreshInv' /\ KnownInv'
    BY <1>1, <1>4, <2>1 DEF FreshInv, KnownInv
  <2>6. QED
    BY <1>3, <2>2, <2>4, <2>5 DEF IInvT
<1>7. ASSUME NEW p \in Nat, Allocated(StackSize) = p, p # NULL, p \notin DOMAIN live,
             DOMAIN live' = DOMAIN live \union {p}
      PROVE  IInvT'
  <2>1. /\ call' = [call EXCEPT !.step = "heap"]
        /\ stack_base' = [stack_base EXCEPT ![k] = p]
    BY <1>2, <1>7 DEF AllocStack
  <2>2. TypeInv' /\ call'.step = "heap" /\ call'.slot = k
    BY <1>1, <1>2, <1>4, <2>1 DEF TypeInv
  <2>3. WithStack' = WithStack \union {k} /\ k \notin WithStack
    BY <1>2, <1>4, <2>2 DEF WithStack
  <2>4. MemInv'
    <3>1. WithStack \in SUBSET Slot /\ Made \in SUBSET Slot /\ k \in Slot \ WithStack
      BY <2>3 DEF WithStack, Made
    <3>2. stack_base \in [Slot -> Nat]
      BY <1>1 DEF TypeInv
    <3>3. Holds(WithStack \union {k}, Made, [stack_base EXCEPT ![k] = p], heap_head,
                DOMAIN live \union {p})
      BY <1>1, <1>7, <3>1, <3>2, HoldsAnotherStack DEF MemInv
    <3>4. QED
      BY <1>4, <1>5, <1>7, <2>1, <2>3, <3>3 DEF MemInv
  <2>5. CallInv'
    BY <1>1, <1>2, <1>4, <1>5, <2>2 DEF CallInv
  <2>6. FreshInv' /\ KnownInv'
    BY <1>1, <1>2, <1>4, <2>2 DEF FreshInv, KnownInv
  <2>7. QED
    BY <1>3, <2>2, <2>4, <2>5, <2>6 DEF IInvT
<1>8. QED
  BY <1>3, <1>6, <1>7

LEMMA AllocTaskHeapInv ==
  ASSUME IInvT, AllocTaskHeap
  PROVE  IInvT'
<1>1. HeapInv /\ status = "ok" /\ TypeInv /\ CallInv /\ MemInv /\ FreshInv /\ KnownInv
  BY DEF IInvT
<1>2. PICK k \in Slot : k = call.slot /\ ~created[k] /\ call.step = "heap"
  BY <1>1 DEF TypeInv, CallInv, AllocTaskHeap
<1>3. /\ HeapInv' /\ status' = "ok"
      /\ \/ Allocated(TaskHeapSize) = NULL /\ DOMAIN live' = DOMAIN live
         \/ \E p \in Nat : /\ Allocated(TaskHeapSize) = p /\ p # NULL /\ p \notin DOMAIN live
                           /\ DOMAIN live' = DOMAIN live \union {p}
  BY <1>1, SizesAsked, AllocEither DEF AllocTaskHeap
<1>4. UNCHANGED <<task_id, stack_base, t_gen>>
  BY DEF AllocTaskHeap
<1>5. CASE Allocated(TaskHeapSize) = NULL /\ DOMAIN live' = DOMAIN live
  <2>1. /\ call' = [call EXCEPT !.step = "give_back"]
        /\ UNCHANGED <<created, heap_head, n_task, known, known_age, known_live>>
    BY <1>5 DEF AllocTaskHeap, AfterNoHeap, history
  <2>2. TypeInv' /\ call'.step = "give_back" /\ call'.slot = k
    BY <1>1, <1>2, <1>4, <2>1 DEF TypeInv
  <2>3. WithStack' = WithStack /\ Made' = Made
    BY <1>2, <2>1, <2>2 DEF WithStack, Made
  <2>4. CallInv' /\ MemInv'
    BY <1>1, <1>2, <1>4, <1>5, <2>1, <2>2, <2>3 DEF CallInv, MemInv
  <2>5. FreshInv' /\ KnownInv'
    BY <1>1, <1>4, <2>1, <2>2 DEF FreshInv, KnownInv
  <2>6. QED
    BY <1>3, <2>2, <2>4, <2>5 DEF IInvT
<1>6. ASSUME NEW p \in Nat, Allocated(TaskHeapSize) = p, p # NULL, p \notin DOMAIN live,
             DOMAIN live' = DOMAIN live \union {p}
      PROVE  IInvT'
  <2>1. /\ call' = [step |-> "idle", slot |-> 0]
        /\ created' = [created EXCEPT ![k] = TRUE]
        /\ heap_head' = [heap_head EXCEPT ![k] = p]
        /\ n_task' = n_task + 1
        /\ \/ UNCHANGED <<known, known_age, known_live>>
           \/ known' = task_id[k] /\ known_age' = 0 /\ known_live' = TRUE
    BY <1>2, <1>6 DEF AllocTaskHeap, Idle, history
  <2>2. /\ created'[k] /\ created' \in [Slot -> BOOLEAN]
        /\ \A s \in Slot \ {k} : created'[s] = created[s]
    BY <1>1, <2>1 DEF TypeInv
  <2>3. TypeInv'
    <3>1. heap_head' \in [Slot -> Nat] /\ call' \in [step : {"idle"}, slot : Slot]
      BY <1>1, <2>1, SlotType DEF TypeInv
    <3>2. known' \in Nat \union {None} /\ known_age' \in 0 .. GenMod /\ known_live' \in BOOLEAN
      <4>1. task_id[k] \in Nat /\ 0 \in 0 .. GenMod
        BY <1>1, SlotType DEF TypeInv
      <4>2. CASE UNCHANGED <<known, known_age, known_live>>
        BY <1>1, <4>2 DEF TypeInv
      <4>3. CASE known' = task_id[k] /\ known_age' = 0 /\ known_live' = TRUE
        BY <4>1, <4>3
      <4>4. QED
        BY <2>1, <4>2, <4>3
    <3>3. QED
      BY <1>1, <1>4, <2>2, <3>1, <3>2 DEF TypeInv
  <2>4. Made' = Made \union {k} /\ k \notin Made /\ WithStack' = WithStack
    BY <1>2, <2>1, <2>2 DEF WithStack, Made
  <2>5. MemInv'
    <3>1. WithStack \in SUBSET Slot /\ Made \in SUBSET Slot /\ k \in Slot \ Made
      BY <2>4 DEF WithStack, Made
    <3>2. heap_head \in [Slot -> Nat]
      BY <1>1 DEF TypeInv
    <3>3. Holds(WithStack, Made \union {k}, stack_base, [heap_head EXCEPT ![k] = p],
                DOMAIN live \union {p})
      BY <1>1, <1>6, <3>1, <3>2, HoldsAnotherHeap DEF MemInv
    <3>4. QED
      BY <1>4, <1>6, <2>1, <2>4, <3>3 DEF MemInv
  <2>6. CallInv'
    <3>1. IsFiniteSet(Made)
      BY SlotType, FS_Subset DEF Made
    <3>2. Cardinality(Made \union {k}) = Cardinality(Made) + 1
      BY <2>4, <3>1, FS_AddElement
    <3>3. QED
      BY <1>1, <2>1, <2>4, <3>2 DEF CallInv
  <2>7. FreshInv'
    BY <2>1 DEF FreshInv
  <2>8. KnownInv'
    <3>1. CASE UNCHANGED <<known, known_age, known_live>>
      <4> SUFFICES ASSUME known # None PROVE KnownInv'
        BY <3>1 DEF KnownInv
      <4>1. PICK c \in Slot, h \in 0 .. GenMod - 1 :
              /\ known = TaskId(c, h)
              /\ known_age < GenMod => Numbered(t_gen, h, known_age)
              /\ known_live => created[c] /\ task_id[c] = known
              /\ ~known_live /\ known_age < GenMod /\ task_id[c] = known =>
                   ~created[c] /\ ~(call.step \in {"stack", "heap"} /\ call.slot = c)
        BY <1>1 DEF KnownInv
      <4>2. known_live => created'[c]
        BY <1>2, <2>2, <4>1
      <4>3. ~known_live /\ known_age < GenMod /\ task_id[c] = known => ~created'[c]
        BY <1>2, <2>2, <4>1
      <4>4. QED
        BY <1>4, <2>1, <3>1, <4>1, <4>2, <4>3 DEF KnownInv
    <3>2. CASE known' = task_id[k] /\ known_age' = 0 /\ known_live' = TRUE
      <4>1. PICK g \in 0 .. GenMod - 1 : task_id[k] = TaskId(k, g) /\ Numbered(t_gen, g, 0)
        BY <1>1, <1>2 DEF FreshInv
      <4>2. QED
        BY <1>4, <2>2, <3>2, <4>1 DEF KnownInv
    <3>3. QED
      BY <2>1, <3>1, <3>2
  <2>9. QED
    BY <1>3, <2>3, <2>5, <2>6, <2>7, <2>8 DEF IInvT
<1>7. QED
  BY <1>3, <1>5, <1>6

LEMMA GiveStackBackInv ==
  ASSUME IInvT, GiveStackBack
  PROVE  IInvT'
<1>1. HeapInv /\ status = "ok" /\ TypeInv /\ CallInv /\ MemInv /\ FreshInv /\ KnownInv
  BY DEF IInvT
<1>2. PICK k \in Slot : k = call.slot /\ ~created[k] /\ call.step = "give_back"
  BY <1>1 DEF TypeInv, CallInv, GiveStackBack
<1>3. k \in WithStack
  BY <1>2 DEF WithStack
<1>4. PICK p \in DOMAIN live : p = stack_base[k]
  BY <1>1, <1>3, HoldsNoStack DEF MemInv
<1>5. HeapInv' /\ status' = "ok" /\ DOMAIN live' = DOMAIN live \ {p}
  BY <1>1, <1>2, <1>4, FreeDrops DEF GiveStackBack
<1>6. /\ call' = [step |-> "idle", slot |-> 0]
      /\ UNCHANGED <<task_id, created, stack_base, heap_head, n_task, t_gen,
                     known, known_age, known_live>>
  BY DEF GiveStackBack, Idle, table, history
<1>7. TypeInv'
  BY <1>1, <1>6, SlotType DEF TypeInv
<1>8. WithStack' = WithStack \ {k} /\ Made' = Made
  BY <1>2, <1>6 DEF WithStack, Made
<1>9. MemInv'
  <2>1. Holds(WithStack \ {k}, Made, stack_base, heap_head, DOMAIN live \ {stack_base[k]})
    BY <1>1, <1>3, HoldsNoStack DEF MemInv
  <2>2. QED
    BY <1>4, <1>5, <1>6, <1>8, <2>1 DEF MemInv
<1>10. CallInv' /\ FreshInv' /\ KnownInv'
  BY <1>1, <1>6, <1>8 DEF CallInv, FreshInv, KnownInv
<1>11. QED
  BY <1>5, <1>7, <1>9, <1>10 DEF IInvT

LEMMA DestroyTaskInv ==
  ASSUME IInvT, NEW tid, DestroyTask(tid)
  PROVE  IInvT'
<1>1. HeapInv /\ status = "ok" /\ TypeInv /\ CallInv /\ MemInv /\ FreshInv /\ KnownInv
  BY DEF IInvT
<1>2. PICK k \in Slot : created[k] /\ call' = [step |-> "free_stack", slot |-> k]
  BY DEF DestroyTask, Destroyable
<1>3. /\ call.step = "idle"
      /\ UNCHANGED <<vars, task_id, created, stack_base, heap_head, n_task, t_gen,
                     known, known_age, known_live>>
  BY DEF DestroyTask, Idle, table, history
<1>4. HeapInv' /\ status' = "ok" /\ DOMAIN live' = DOMAIN live
  BY <1>1, <1>3, HeapStutters
<1>5. TypeInv'
  BY <1>1, <1>2, <1>3 DEF TypeInv
<1>6. WithStack' = WithStack /\ Made' = Made
  BY <1>2, <1>3 DEF WithStack, Made
<1>7. MemInv'
  BY <1>1, <1>3, <1>4, <1>6 DEF MemInv
<1>8. CallInv' /\ FreshInv' /\ KnownInv'
  BY <1>1, <1>2, <1>3, <1>6 DEF CallInv, FreshInv, KnownInv
<1>9. QED
  BY <1>4, <1>5, <1>7, <1>8 DEF IInvT

LEMMA FreeStackInv ==
  ASSUME IInvT, FreeStack
  PROVE  IInvT'
<1>1. HeapInv /\ status = "ok" /\ TypeInv /\ CallInv /\ MemInv /\ FreshInv /\ KnownInv
  BY DEF IInvT
<1>2. PICK k \in Slot : k = call.slot /\ created[k] /\ call.step = "free_stack"
  BY <1>1 DEF TypeInv, CallInv, FreeStack
<1>3. k \in WithStack
  BY <1>2 DEF WithStack
<1>4. PICK p \in DOMAIN live : p = stack_base[k]
  BY <1>1, <1>3, HoldsNoStack DEF MemInv
<1>5. HeapInv' /\ status' = "ok" /\ DOMAIN live' = DOMAIN live \ {p}
  BY <1>1, <1>2, <1>4, FreeDrops DEF FreeStack
<1>6. /\ call' = [call EXCEPT !.step = "free_heap"]
      /\ UNCHANGED <<task_id, created, stack_base, heap_head, n_task, t_gen,
                     known, known_age, known_live>>
  BY DEF FreeStack, table, history
<1>7. TypeInv' /\ call'.step = "free_heap" /\ call'.slot = k
  BY <1>1, <1>2, <1>6 DEF TypeInv
<1>8. WithStack' = WithStack \ {k} /\ Made' = Made
  BY <1>2, <1>6, <1>7 DEF WithStack, Made
<1>9. MemInv'
  <2>1. Holds(WithStack \ {k}, Made, stack_base, heap_head, DOMAIN live \ {stack_base[k]})
    BY <1>1, <1>3, HoldsNoStack DEF MemInv
  <2>2. QED
    BY <1>4, <1>5, <1>6, <1>8, <2>1 DEF MemInv
<1>10. CallInv' /\ FreshInv' /\ KnownInv'
  BY <1>1, <1>2, <1>6, <1>7, <1>8 DEF CallInv, FreshInv, KnownInv
<1>11. QED
  BY <1>5, <1>7, <1>9, <1>10 DEF IInvT

LEMMA FreeTaskHeapInv ==
  ASSUME IInvT, FreeTaskHeap
  PROVE  IInvT'
<1>1. HeapInv /\ status = "ok" /\ TypeInv /\ CallInv /\ MemInv /\ FreshInv /\ KnownInv
  BY DEF IInvT
<1>2. PICK k \in Slot : k = call.slot /\ created[k] /\ call.step = "free_heap"
  BY <1>1 DEF TypeInv, CallInv, FreeTaskHeap
<1>3. k \in Made
  BY <1>2 DEF Made
<1>4. PICK p \in DOMAIN live : p = heap_head[k]
  BY <1>1, <1>3, HoldsNoHeap DEF MemInv
<1>5. HeapInv' /\ status' = "ok" /\ DOMAIN live' = DOMAIN live \ {p}
  BY <1>1, <1>2, <1>4, FreeDrops DEF FreeTaskHeap
<1>6. /\ call' = [step |-> "idle", slot |-> 0]
      /\ created' = [created EXCEPT ![k] = FALSE]
      /\ n_task' = n_task - 1
      /\ known_live' = (known_live /\ TaskSlot(known) # k)
      /\ UNCHANGED <<task_id, stack_base, heap_head, t_gen, known, known_age>>
  BY <1>2 DEF FreeTaskHeap, Idle
<1>7. /\ created' \in [Slot -> BOOLEAN] /\ ~created'[k]
      /\ \A s \in Slot \ {k} : created'[s] = created[s]
  BY <1>1, <1>6 DEF TypeInv
<1>8. TypeInv'
  <2>1. known_live' \in BOOLEAN
    BY <1>1, <1>6 DEF TypeInv
  <2>2. QED
    BY <1>1, <1>6, <1>7, <2>1, SlotType DEF TypeInv
<1>9. Made' = Made \ {k} /\ WithStack' = WithStack
  BY <1>2, <1>6, <1>7 DEF WithStack, Made
<1>10. MemInv'
  <2>1. Holds(WithStack, Made \ {k}, stack_base, heap_head, DOMAIN live \ {heap_head[k]})
    BY <1>1, <1>3, HoldsNoHeap DEF MemInv
  <2>2. QED
    BY <1>4, <1>5, <1>6, <1>9, <2>1 DEF MemInv
<1>11. CallInv'
  <2>1. IsFiniteSet(Made)
    BY SlotType, FS_Subset DEF Made
  <2>2. Cardinality(Made \ {k}) = Cardinality(Made) - 1
    BY <1>3, <2>1, FS_RemoveElement
  <2>3. QED
    BY <1>1, <1>6, <1>9, <2>2 DEF CallInv
<1>12. FreshInv'
  BY <1>6 DEF FreshInv
<1>13. KnownInv'
  <2> SUFFICES ASSUME known # None PROVE KnownInv'
    BY <1>6 DEF KnownInv
  <2>1. PICK c \in Slot, h \in 0 .. GenMod - 1 :
          /\ known = TaskId(c, h)
          /\ known_age < GenMod => Numbered(t_gen, h, known_age)
          /\ known_live => created[c] /\ task_id[c] = known
          /\ ~known_live /\ known_age < GenMod /\ task_id[c] = known =>
               ~created[c] /\ ~(call.step \in {"stack", "heap"} /\ call.slot = c)
    BY <1>1 DEF KnownInv
  <2>2. TaskSlot(known) = c
    BY <2>1, IdOfSlot, SlotType
  <2>3. known_live' <=> known_live /\ c # k
    BY <1>6, <2>2
  <2>4. known_live' => created'[c] /\ task_id[c] = known
    BY <1>7, <2>1, <2>3
  <2>5. ~known_live' /\ known_age < GenMod /\ task_id[c] = known => ~created'[c]
    BY <1>7, <2>1, <2>3
  <2>6. QED
    BY <1>6, <2>1, <2>4, <2>5 DEF KnownInv
<1>14. QED
  BY <1>5, <1>8, <1>10, <1>11, <1>12, <1>13 DEF IInvT

LEMMA TasksStepInv == IInvT /\ [TaskNext]_allVars => IInvT'
<1> SUFFICES ASSUME IInvT, [TaskNext]_allVars PROVE IInvT'
  OBVIOUS
<1>1. CASE UNCHANGED allVars
  <2>1. /\ UNCHANGED <<vars, task_id, created, stack_base, heap_head, n_task, t_gen, call,
                       known, known_age, known_live>>
    BY <1>1 DEF allVars, taskVars, table, history
  <2>2. HeapInv' /\ status' = "ok" /\ DOMAIN live' = DOMAIN live
    BY <2>1, HeapStutters DEF IInvT
  <2>3. WithStack' = WithStack /\ Made' = Made
    BY <2>1 DEF WithStack, Made
  <2>4. TypeInv' /\ CallInv' /\ MemInv' /\ FreshInv' /\ KnownInv'
    BY <2>1, <2>2, <2>3 DEF IInvT, TypeInv, CallInv, MemInv, FreshInv, KnownInv
  <2>5. QED
    BY <2>2, <2>4 DEF IInvT
<1>2. CASE TaskNext
  BY <1>2, TakeSlotInv, AllocStackInv, AllocTaskHeapInv, GiveStackBackInv, DestroyTaskInv,
     FreeStackInv, FreeTaskHeapInv DEF TaskNext, Spawning, Destroying
<1>3. QED
  BY <1>1, <1>2

(* The memory, the calls and the ids of tasks agree in every reachable state.       *)
THEOREM TasksInductiveInvariant == TaskSpec => []IInvT
  BY TasksInitInv, TasksStepInv, PTL DEF TaskSpec

-----------------------------------------------------------------------------
(* Nothing that spawn_task and destroy_task do makes free_heap panic.              *)
THEOREM NothingFreedTwice == TaskSpec => []NoDoubleFree
<1>1. IInvT => NoDoubleFree
  BY DEF IInvT, NoDoubleFree
<1>2. QED
  BY <1>1, TasksInductiveInvariant, PTL

LEMMA InvIds == IInvT => IdsNameOneTask
<1> SUFFICES ASSUME IInvT, known # None, known_age < GenMod, NEW s \in Slot
             PROVE  (Names(known, s) /\ created[s]) <=> (known_live /\ s = TaskSlot(known))
  BY DEF IdsNameOneTask
<1>1. PICK c \in Slot, h \in 0 .. GenMod - 1 :
        /\ known = TaskId(c, h)
        /\ known_live => created[c] /\ task_id[c] = known
        /\ ~known_live /\ known_age < GenMod /\ task_id[c] = known => ~created[c]
  BY DEF IInvT, KnownInv
<1>2. TaskSlot(known) = c
  BY <1>1, IdOfSlot, SlotType
<1>3. QED
  BY <1>1, <1>2 DEF Names

(* An id names its task as long as it lives and no other one before t_gen has come   *)
(* round.                                                                    *)
THEOREM IdsAreUnique == TaskSpec => []IdsNameOneTask
<1>1. QED
  BY InvIds, TasksInductiveInvariant, PTL

LEMMA ImageCardinality ==
  ASSUME NEW S, IsFiniteSet(S), NEW f, \A s, t \in S : f[s] = f[t] => s = t
  PROVE  /\ IsFiniteSet({f[s] : s \in S})
         /\ Cardinality({f[s] : s \in S}) = Cardinality(S)
<1> DEFINE T == {f[s] : s \in S}
           g == [s \in S |-> f[s]]
<1>1. g \in Bijection(S, T)
  <2>1. g \in [S -> T] /\ \A s \in S : g[s] = f[s]
    OBVIOUS
  <2>2. \A t \in T : \E s \in S : g[s] = t
    OBVIOUS
  <2> HIDE DEF g, T
  <2>3. QED
    BY <2>1, <2>2 DEF Bijection, Injection, Surjection, IsInjective
<1>2. ExistsBijection(S, T)
  BY <1>1 DEF ExistsBijection
<1>3. QED
  BY <1>2, FS_Bijection

(* When nothing is held the heap is one free block.                               *)
LEMMA NothingHeld ==
  ASSUME HeapInv, DOMAIN live = {}
  PROVE  Blocks = {Base} /\ total_allocated = 0
<1>1. PICK B \in SUBSET Addr : BlockInv(B)
  BY DEF HeapInv
<1>2. Tiles(B, Links) /\ UseInv(B, Links, allocated) /\ Blocks = B
  BY <1>1, ChainVisitsAll DEF BlockInv
<1>3. \A b \in Addr : ~allocated[b]
  BY DEF HeapInv, ClientInv
<1>4. \A b \in B : next[b] = 0
  <2>1. ASSUME NEW b \in B, next[b] # 0 PROVE FALSE
    <3>1. allocated[b] \/ allocated[next[b]]
      BY <1>2, <2>1 DEF UseInv, Links
    <3>2. b \in Addr /\ next[b] \in Addr
      BY <1>2, <2>1 DEF Tiles, Links
    <3>3. QED
      BY <1>3, <3>1, <3>2
  <2>2. QED
    BY <2>1
<1>5. B = {32}
  <2>1. 32 \in B /\ \A b \in B \ {32} : prev[b] \in B /\ next[prev[b]] = b
    BY <1>2 DEF Tiles, Links
  <2>2. 0 \notin B
    BY <1>1, AddrType
  <2>3. QED
    BY <1>4, <2>1, <2>2
<1>6. total_allocated = 0
  <2>1. {b \in B : allocated[b]} = {}
    BY <1>1, <1>3
  <2>2. QED
    BY <1>1, <2>1, SumOfNone DEF BlockInv
<1>7. QED
  BY <1>2, <1>5, <1>6

LEMMA InvMemory == IInvT => MemoryFollowsTasks
<1> SUFFICES ASSUME IInvT, call = Idle PROVE MemoryFollowsTasks
  BY DEF MemoryFollowsTasks
<1> DEFINE stacks == {stack_base[s] : s \in Made}
           heaps  == {heap_head[s] : s \in Made}
<1>1. HeapInv /\ CallInv /\ MemInv
  BY DEF IInvT
<1>2. call.step = "idle"
  BY DEF Idle
<1>3. WithStack = Made
  BY <1>2 DEF WithStack, Made
<1>4. /\ DOMAIN live = stacks \union heaps
      /\ \A s, t \in Made : stack_base[s] = stack_base[t] => s = t
      /\ \A s, t \in Made : heap_head[s] = heap_head[t] => s = t
      /\ \A s \in Made, t \in Made : stack_base[s] # heap_head[t]
  BY <1>1, <1>3 DEF MemInv, Holds
<1>5. IsFiniteSet(Made) /\ n_task = Cardinality(Made)
  BY <1>1, SlotType, FS_Subset DEF CallInv, Made
<1>6. /\ IsFiniteSet(stacks) /\ Cardinality(stacks) = n_task
      /\ IsFiniteSet(heaps) /\ Cardinality(heaps) = n_task
  BY <1>4, <1>5, ImageCardinality
<1>7. stacks \cap heaps = {}
  BY <1>4
<1> HIDE DEF stacks, heaps
<1>8. Cardinality(stacks \union heaps) = 2 * n_task
  <2>1. Cardinality(stacks \union heaps) = n_task + n_task - Cardinality({})
    BY <1>6, <1>7, FS_Union
  <2>2. n_task \in Nat /\ Cardinality({}) = 0
    BY <1>5, FS_CardinalityType, FS_EmptySet
  <2>3. QED
    BY <2>1, <2>2
<1>9. Made = {} => Blocks = {Base} /\ total_allocated = 0
  <2> SUFFICES ASSUME Made = {} PROVE Blocks = {Base} /\ total_allocated = 0
    OBVIOUS
  <2>1. DOMAIN live = {}
    BY <1>4 DEF stacks, heaps
  <2>2. QED
    BY <1>1, <2>1, NothingHeld
<1>10. QED
  BY <1>4, <1>5, <1>8, <1>9 DEF MemoryFollowsTasks, Made, stacks, heaps

(* No spawn that fails half way and no exit leaves memory behind, and n_task counts   *)
(* the tasks there are.                                                         *)
THEOREM NoMemoryIsLost == TaskSpec => []MemoryFollowsTasks
<1>1. QED
  BY InvMemory, TasksInductiveInvariant, PTL
=============================================================================
