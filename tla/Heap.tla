-------------------------------- MODULE Heap --------------------------------
(***************************************************************************)
(* The first-fit allocator of src/sw/bootc/kernel/heap.c, one instance of    *)
(* it: the kernel's global heap, from which create_task takes the stack and  *)
(* the heap of a task, and each task's own heap, behind malloc and free.     *)
(*                                                                          *)
(* Memory is the block headers: the fields of the HeapBlock at every address  *)
(* where one can lie (multiples of HEAP_ALIGN).  A header that has been       *)
(* merged away stays in memory with its last contents, until the memory it    *)
(* lies in is given to a client, who may write anything there.  Addresses and *)
(* sizes are in bytes, modulo Word.                                         *)
(***************************************************************************)
EXTENDS Integers, Sequences, Functions

CONSTANTS
  HeapSize,   \* the size of the heap in bytes, a multiple of HEAP_ALIGN
  Word,       \* 2^32
  Requests    \* the sizes that clients ask for

Align    == 16   \* HEAP_ALIGN
Hdr      == 16   \* sizeof(HeapBlock)
MinAlloc == 4    \* HEAP_MIN_ALLOC
Flag     == 4    \* the offset of the one byte of allocated in a header
NULL     == 0

Base == 2 * Align                    \* heap->head
Top  == Base + HeapSize              \* heap->max
Addr == {Base + Align * i : i \in 0 .. (HeapSize \div Align) - 1}

ASSUME HeapAssumption == /\ HeapSize \in Nat /\ HeapSize % Align = 0 /\ HeapSize > Hdr
                         /\ Word \in Nat /\ Word % Align = 0 /\ Word > Top
                         /\ Requests \subseteq 0 .. Word - 1

VARIABLES
  size, allocated, prev, next,   \* the fields of the HeapBlock at each address
  total_allocated,
  live,     \* the pointers that clients hold, each with the size it asked for
  freed,    \* the pointers that clients have given back and not got again
  soiled,   \* the headers whose flag clients may have overwritten since heap.c wrote it
  status    \* "ok", "panic", "wild" after a write outside the heap, or "corrupt"
            \* once free_heap has taken what a client wrote for a header

memory == <<size, allocated, prev, next>>
vars   == <<memory, total_allocated, live, freed, soiled, status>>

AlignUp(n) == (((n + Align - 1) % Word) \div Align) * Align

\* init_heap
Init ==
  /\ size            = [a \in Addr |-> IF a = Base THEN HeapSize - Hdr ELSE 0]
  /\ allocated       = [a \in Addr |-> FALSE]
  /\ prev            = [a \in Addr |-> NULL]
  /\ next            = [a \in Addr |-> NULL]
  /\ total_allocated = 0
  /\ live            = [p \in {} |-> 0]
  /\ freed           = {}
  /\ soiled          = {}
  /\ status          = "ok"

-----------------------------------------------------------------------------
(* The blocks in the order of their next links, from heap->head.             *)
Extended(c) == IF next[c[Len(c)]] = NULL THEN c ELSE Append(c, next[c[Len(c)]])

Chain == LET to[i \in 1 .. HeapSize \div Align] ==
               IF i = 1 THEN <<Base>> ELSE Extended(to[i-1])
         IN  to[HeapSize \div Align]

Blocks == Range(Chain)

\* The size test of split_block.
Fits(b, m) == size[b] >= (Hdr + m + MinAlloc) % Word

\* The rest of split_block, on a block that fits, and the marking of alloc_heap.
MutRestSize(b, m) == (size[b] - m + Word) % Word

RestSize(b, m) == (size[b] - m - Hdr + Word) % Word

Splits(b, m) == (size[b] - m + Word) % Word > Hdr + MinAlloc

Split(b, m) ==
  LET r == (b + Hdr + m) % Word
      x == next[b]
  IN  /\ size'      = [size EXCEPT ![r] = RestSize(b, m), ![b] = m]
      /\ allocated' = [allocated EXCEPT ![r] = FALSE, ![b] = TRUE]
      /\ prev'      = [prev EXCEPT ![r] = b, ![IF x = NULL THEN r ELSE x] = IF x = NULL THEN b ELSE r]
      /\ next'      = [next EXCEPT ![r] = x, ![b] = r]

\* Where the search of alloc_heap ends: the first free block that fits, or NULL.
Admits(n) == (total_allocated + Hdr + n) % Word <= HeapSize

FirstFit(n) ==
  LET c  == Chain
      ok == {i \in DOMAIN c : ~allocated[c[i]] /\ Fits(c[i], AlignUp(n))}
  IN  IF ~Admits(n) \/ ok = {} THEN NULL ELSE c[CHOOSE i \in ok : \A j \in ok : i <= j]

MutChargePayload(m) == total_allocated + m

Charge(m) == total_allocated + Hdr + m

\* The headers left over from other blocks whose flag lies in the n bytes that
\* the client of block b has asked for.
Covered(b, n) == {a \in Addr : b < a /\ a + Flag < b + Hdr + n}

\* alloc_heap
Alloc(n) ==
  /\ status = "ok"
  /\ LET b == FirstFit(n)
         m == AlignUp(n)
     IN  IF b = NULL
         THEN UNCHANGED vars   \* NULL is returned
         ELSE IF Splits(b, m) /\ (b + Hdr + m) % Word \notin Addr
         THEN /\ status' = "wild"
              /\ UNCHANGED <<memory, total_allocated, live, freed, soiled>>
         ELSE /\ IF Splits(b, m)
                 THEN /\ Split(b, m)
                      /\ soiled' = (soiled \ {(b + Hdr + m) % Word}) \union Covered(b, n)
                 ELSE /\ allocated' = [allocated EXCEPT ![b] = TRUE]
                      /\ soiled' = soiled \union Covered(b, n)
                      /\ UNCHANGED <<size, prev, next>>
              /\ total_allocated' = Charge(m)
              /\ live'  = [p \in DOMAIN live \union {b + Hdr} |->
                             IF p = b + Hdr THEN n ELSE live[p]]
              /\ freed' = freed \ {b + Hdr}
              /\ UNCHANGED status

-----------------------------------------------------------------------------
(* merge_empty_blocks_adjacent, on the links m of all blocks.                 *)

\* Block a takes over its successor x.
MutAbsorbNoBackLink(m, a, x) ==
  [m EXCEPT !.size[a] = @ + Hdr + m.size[x], !.next[a] = m.next[x]]

Absorb(m, a, x) ==
  LET y == m.next[x]
  IN  [m EXCEPT !.size[a] = @ + Hdr + m.size[x],
                !.next[a] = y,
                !.prev = IF y = NULL THEN @ ELSE [@ EXCEPT ![y] = a]]

MutIsFreeAny(a, inUse) == a # NULL

IsFree(a, inUse) == a # NULL /\ ~inUse[a]

Merged(m, b, inUse) ==
  LET back == IsFree(m.prev[b], inUse)
      c    == IF back THEN m.prev[b] ELSE b
      m1   == IF back THEN Absorb(m, c, b) ELSE m
  IN  IF IsFree(m1.next[c], inUse) THEN Absorb(m1, c, m1.next[c]) ELSE m1

MutReleaseAll(b) == total_allocated - AlignUp(size[b])

Release(b) == total_allocated - Hdr - AlignUp(size[b])

\* is_valid_heap_ptr: range and alignment only.
IsValidHeapPtr(p) == p # NULL /\ p % Align = 0 /\ Base + 1 <= p /\ p <= Top - Hdr

\* free_heap; k_free does not call it for a pointer that is not valid.  A flag
\* that a client may have written over reads as either value.  Once free_heap
\* goes on from such a header the heap is what the client made of it, and the
\* model ends there.
FreeHeap(p) ==
  LET b == p - Hdr
      inUse == [allocated EXCEPT ![b] = FALSE]
  IN  IF b \in soiled
      THEN /\ status' \in {"panic", "corrupt"}
           /\ UNCHANGED <<memory, total_allocated, live, freed, soiled>>
      ELSE IF ~allocated[b]
      THEN /\ status' = "panic"
           /\ UNCHANGED <<memory, total_allocated, live, freed, soiled>>
      ELSE /\ allocated' = inUse
           /\ total_allocated' = Release(b)
           /\ \E m \in {Merged([size |-> size, prev |-> prev, next |-> next], b, inUse)} :
                size' = m.size /\ prev' = m.prev /\ next' = m.next
           /\ live'  = Restrict(live, DOMAIN live \ {p})
           /\ freed' = freed \union {p}
           /\ UNCHANGED <<soiled, status>>

Free(p) ==
  /\ status = "ok"
  /\ IsValidHeapPtr(p)
  /\ FreeHeap(p)

Malloc    == \E n \in Requests : Alloc(n)
Return    == \E p \in DOMAIN live : Free(p)
FreeAgain == \E p \in freed : Free(p)

Next == Malloc \/ Return \/ FreeAgain
Spec == Init /\ [][Next]_vars

-----------------------------------------------------------------------------
(* Properties.                                                              *)

(* The blocks reached through next partition the heap, prev is the inverse of   *)
(* next, every size is aligned, and no two neighbours are free, so that freed   *)
(* memory never stays in pieces.  Split and merge each rewrite up to four       *)
(* links and two sizes.                                                      *)
BlocksTileTheHeap ==
  LET c == Chain
      n == Len(Chain)
  IN  /\ \A i \in 1 .. n - 1 : /\ c[i+1] = c[i] + Hdr + size[c[i]]
                               /\ prev[c[i+1]] = c[i]
                               /\ allocated[c[i]] \/ allocated[c[i+1]]
      /\ c[n] + Hdr + size[c[n]] = Top /\ next[c[n]] = NULL /\ prev[c[1]] = NULL
      /\ \A i \in 1 .. n : size[c[i]] % Align = 0

(* total_allocated is what the allocated blocks occupy, headers included, so    *)
(* that the early exit of alloc_heap neither refuses what fits nor drifts over  *)
(* a long run of calls.                                                      *)
TotalIsExact ==
  total_allocated =
    SumFunctionOnSet([b \in Addr |-> Hdr + size[b]], {b \in Blocks : allocated[b]})

(* A pointer held by a client names an allocated block at least as large as     *)
(* what was asked for (heap.h:38-41), and free accepts it.                     *)
LivePointersAreBlocks ==
  \A p \in DOMAIN live :
    /\ p - Hdr \in Blocks /\ allocated[p - Hdr]
    /\ size[p - Hdr] >= live[p]
    /\ IsValidHeapPtr(p)

(* A first free never stops the kernel, for no header in use has ever been in a  *)
(* client's bytes since it was written, across all splits and merges; a second  *)
(* free of the same pointer always does, even if the header has been merged     *)
(* away, unless the memory around it was given to a client in between           *)
(* (heap.c:105 reads the flag of whatever lies in front of the pointer).  No    *)
(* block is written outside the heap.                                        *)
DoubleFreeIsCaught ==
  /\ status # "wild"
  /\ status = "panic" => freed # {}
  /\ status = "corrupt" => \E p \in freed : p - Hdr \in soiled
  /\ \A p \in freed : p - Hdr \notin soiled => ~allocated[p - Hdr]
  /\ \A b \in Blocks : b \notin soiled

(* alloc_heap would return NULL only when no free block can hold the request    *)
(* and leave room for the block behind it: the total_allocated test never       *)
(* refuses what the blocks could give.                                       *)
NullOnlyWhenFull ==
  \A n \in Requests :
    FirstFit(n) = NULL =>
      \A b \in Blocks : ~allocated[b] => size[b] < AlignUp(n) + Hdr + MinAlloc

(* The heap implements an allocator of disjoint ranges.                       *)
Owned == {[ptr |-> p, len |-> size[p - Hdr]] : p \in DOMAIN live}

A == INSTANCE Allocator WITH Low <- Base, High <- Top, owned <- Owned

ImplementsAllocator == A!Spec
=============================================================================
