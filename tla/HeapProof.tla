------------------------------- MODULE HeapProof -------------------------------
(***************************************************************************)
(* Proofs about module Heap, for a heap of any size and requests whose sums do   *)
(* not wrap (NoWrap).                                                       *)
(*                                                                          *)
(* The invariant names the set B of the addresses at which blocks begin: they    *)
(* follow each other from the head to the end of the heap, prev leads back, no    *)
(* two neighbours are free, and only blocks in B are allocated.  A header that     *)
(* was merged away is not in B, whatever it still says.  Splitting adds one        *)
(* address to B, merging takes one away, and the counter follows as a sum.  That    *)
(* the chain of next links visits B, and that the sums of module FiniteSetsExt      *)
(* are sums, is shown by least counterexamples (LeastNat).                      *)
(***************************************************************************)
EXTENDS Heap, FiniteSetTheorems, WellFoundedInduction, TLAPS

(* Induction over the natural numbers, as the existence of a least element.       *)
LEMMA LeastNat ==
  ASSUME NEW T \in SUBSET Nat, T # {}
  PROVE  \E m \in T : \A k \in T : m <= k
<1> DEFINE R == {ss \in Nat \X Nat : ss[1] < ss[2]}
<1>1. IsWellFoundedOn(R, Nat)
  BY NatLessThanWellFounded DEF OpToRel
<1> HIDE DEF R
<1>2. PICK m \in T : \A k \in T : ~(<<k, m>> \in R)
  BY <1>1, WFMin
<1>3. \A k \in T : ~(k < m)
  BY <1>2 DEF R
<1>4. QED
  BY <1>3

LEMMA NatInduct ==
  ASSUME NEW S \in SUBSET Nat, 0 \in S, \A n \in S : n + 1 \in S
  PROVE  S = Nat
<1> SUFFICES ASSUME Nat \ S # {} PROVE FALSE
  OBVIOUS
<1>1. PICK m \in Nat \ S : \A k \in Nat \ S : m <= k
  BY LeastNat, Nat \ S \in SUBSET Nat, Zenon
<1>2. m # 0 /\ m - 1 \in Nat
  BY <1>1
<1>3. m - 1 \in S
  BY <1>1, <1>2
<1>4. (m - 1) + 1 \in S /\ (m - 1) + 1 = m
  BY <1>1, <1>3
<1>5. QED
  BY <1>1, <1>4

(* Induction over the subsets of a finite set, each from the smaller ones.        *)
LEMMA SubsetInduct ==
  ASSUME NEW S, IsFiniteSet(S), NEW W,
         \A s \in SUBSET S : (\A r \in SUBSET s : r # s => r \in W) => s \in W
  PROVE  \A s \in SUBSET S : s \in W
<1> DEFINE Bad == {n \in Nat : \E s \in SUBSET S : s \notin W /\ Cardinality(s) = n}
<1>1. \A s \in SUBSET S : IsFiniteSet(s) /\ Cardinality(s) \in Nat
  BY FS_Subset, FS_CardinalityType
<1> SUFFICES ASSUME Bad # {} PROVE FALSE
  BY <1>1
<1>2. PICK n \in Bad : \A k \in Bad : n <= k
  <2>1. Bad \in SUBSET Nat
    OBVIOUS
  <2> HIDE DEF Bad
  <2>2. QED
    BY <2>1, LeastNat
<1>3. PICK s \in SUBSET S : s \notin W /\ Cardinality(s) = n
  OBVIOUS
<1>4. PICK r \in SUBSET s : r # s /\ r \notin W
  BY <1>3
<1>5. Cardinality(r) < n /\ r \in SUBSET S /\ Cardinality(r) \in Nat /\ n \in Nat
  BY <1>1, <1>3, <1>4, FS_Subset
<1>6. Cardinality(r) \in Bad
  BY <1>4, <1>5
<1> HIDE DEF Bad
<1>7. QED
  BY <1>2, <1>5, <1>6

-----------------------------------------------------------------------------
(* What SumFunctionOnSet computes.                                             *)
Pick(s) == CHOOSE x \in s : TRUE

Sums(f, S, h) ==
  h = [s \in SUBSET S |-> IF s = {} THEN 0 ELSE f[Pick(s)] + h[s \ {Pick(s)}]]

LEMMA SumIsChosen ==
  ASSUME NEW f, NEW S
  PROVE  SumFunctionOnSet(f, S) = (CHOOSE h : Sums(f, S, h))[S]
  BY DEF SumFunctionOnSet, FoldFunctionOnSet, MapThenFoldSet, Sums, Pick

LEMMA SumsExist ==
  ASSUME NEW f, NEW S, IsFiniteSet(S)
  PROVE  \E h : Sums(f, S, h)
<1> DEFINE Small(n) == {s \in SUBSET S : Cardinality(s) <= n}
           Value(h, s) == IF s = {} THEN 0 ELSE f[Pick(s)] + h[s \ {Pick(s)}]
           Partial(n, h) == \A s \in Small(n) : h[s] = Value(h, s)
           Done == {n \in Nat : \E h : Partial(n, h)}
<1>1. \A s \in SUBSET S : /\ IsFiniteSet(s) /\ Cardinality(s) \in Nat
                          /\ Cardinality(s) <= Cardinality(S)
  BY FS_Subset, FS_CardinalityType
<1>2. \A s \in SUBSET S : s # {} => /\ Pick(s) \in s /\ s \ {Pick(s)} \in SUBSET S
                                    /\ Cardinality(s \ {Pick(s)}) = Cardinality(s) - 1
  BY <1>1, FS_RemoveElement DEF Pick
<1>3. 0 \in Done
  <2> DEFINE h == [s \in Small(0) |-> 0]
  <2>1. \A s \in Small(0) : s = {}
    BY <1>1, FS_EmptySet
  <2>2. Partial(0, h)
    BY <2>1
  <2>3. QED
    BY <2>2
<1>4. ASSUME NEW n \in Done PROVE n + 1 \in Done
  <2>1. PICK g : Partial(n, g)
    OBVIOUS
  <2>2. n \in Nat
    OBVIOUS
  <2> DEFINE h == [s \in Small(n + 1) |-> Value(g, s)]
  <2>3. \A s \in Small(n) : s \in Small(n + 1) /\ h[s] = g[s]
    BY <1>1, <2>1, <2>2
  <2>4. ASSUME NEW s \in Small(n + 1) PROVE h[s] = Value(h, s)
    <3>1. CASE s = {}
      BY <3>1
    <3>2. CASE s # {}
      <4>1. s \ {Pick(s)} \in Small(n)
        BY <1>1, <1>2, <2>2, <3>2
      <4>2. QED
        BY <2>3, <3>2, <4>1
    <3>3. QED
      BY <3>1, <3>2
  <2> HIDE DEF h
  <2>5. Partial(n + 1, h)
    BY <2>4
  <2>6. QED
    BY <2>2, <2>5
<1>5. Done = Nat
  <2>1. Done \in SUBSET Nat
    OBVIOUS
  <2> HIDE DEF Done
  <2>2. QED
    BY <1>3, <1>4, <2>1, NatInduct
<1>6. Cardinality(S) \in Nat /\ Small(Cardinality(S)) = SUBSET S
  BY <1>1
<1>7. PICK h : Partial(Cardinality(S), h)
  BY <1>5, <1>6
<1> DEFINE g == [s \in SUBSET S |-> h[s]]
<1>8. \A s \in SUBSET S : g[s] = Value(g, s)
  BY <1>2, <1>6, <1>7
<1>9. g = [s \in SUBSET S |-> g[s]]
  OBVIOUS
<1> HIDE DEF g
<1>10. Sums(f, S, g)
  BY <1>8, <1>9 DEF Sums
<1>11. QED
  BY <1>10

LEMMA SumsAgree ==
  ASSUME NEW f, NEW S, IsFiniteSet(S), NEW T \in SUBSET S, NEW g, NEW h,
         Sums(f, S, g), Sums(f, T, h)
  PROVE  \A s \in SUBSET T : g[s] = h[s]
<1> DEFINE W == {s \in SUBSET T : g[s] = h[s]}
<1>1. IsFiniteSet(T)
  BY FS_Subset
<1>2. ASSUME NEW s \in SUBSET T, \A r \in SUBSET s : r # s => r \in W
      PROVE  s \in W
  <2>1. /\ g[s] = IF s = {} THEN 0 ELSE f[Pick(s)] + g[s \ {Pick(s)}]
        /\ h[s] = IF s = {} THEN 0 ELSE f[Pick(s)] + h[s \ {Pick(s)}]
    BY DEF Sums
  <2>2. s # {} => g[s \ {Pick(s)}] = h[s \ {Pick(s)}]
    BY <1>2 DEF Pick
  <2>3. QED
    BY <2>1, <2>2
<1> HIDE DEF W
<1>3. \A s \in SUBSET T : s \in W
  BY <1>1, <1>2, SubsetInduct
<1>4. QED
  BY <1>3 DEF W

LEMMA SumUnfolds ==
  ASSUME NEW f, NEW S, IsFiniteSet(S)
  PROVE  SumFunctionOnSet(f, S) =
           IF S = {} THEN 0 ELSE f[Pick(S)] + SumFunctionOnSet(f, S \ {Pick(S)})
<1> DEFINE h(T) == CHOOSE g : Sums(f, T, g)
<1>1. Sums(f, S, h(S))
  BY SumsExist, Zenon
<1>2. h(S)[S] = IF S = {} THEN 0 ELSE f[Pick(S)] + h(S)[S \ {Pick(S)}]
  BY <1>1 DEF Sums
<1> DEFINE T == S \ {Pick(S)}
<1>3. T \in SUBSET S /\ IsFiniteSet(T)
  BY FS_RemoveElement
<1> HIDE DEF T
<1>4. Sums(f, T, h(T))
  BY <1>3, SumsExist, Zenon
<1> HIDE DEF h
<1>5. h(S)[T] = h(T)[T]
  BY <1>1, <1>3, <1>4, SumsAgree
<1>6. SumFunctionOnSet(f, S) = h(S)[S] /\ SumFunctionOnSet(f, T) = h(T)[T]
  BY SumIsChosen, Zenon DEF h
<1>7. QED
  BY <1>2, <1>5, <1>6 DEF T

LEMMA SumIsNat ==
  ASSUME NEW D, IsFiniteSet(D), NEW f \in [D -> Nat]
  PROVE  \A s \in SUBSET D : SumFunctionOnSet(f, s) \in Nat
<1> DEFINE W == {s \in SUBSET D : SumFunctionOnSet(f, s) \in Nat}
<1>1. ASSUME NEW s \in SUBSET D, \A r \in SUBSET s : r # s => r \in W
      PROVE  s \in W
  <2>1. SumFunctionOnSet(f, s) =
          IF s = {} THEN 0 ELSE f[Pick(s)] + SumFunctionOnSet(f, s \ {Pick(s)})
    BY FS_Subset, SumUnfolds
  <2>2. s # {} => f[Pick(s)] \in Nat /\ SumFunctionOnSet(f, s \ {Pick(s)}) \in Nat
    BY <1>1 DEF Pick
  <2>3. QED
    BY <2>1, <2>2
<1> HIDE DEF W
<1>2. \A s \in SUBSET D : s \in W
  BY <1>1, SubsetInduct
<1>3. QED
  BY <1>2 DEF W

(* A sum does not depend on the order in which its terms are taken.               *)
LEMMA SumAdds ==
  ASSUME NEW D, IsFiniteSet(D), NEW f \in [D -> Nat]
  PROVE  \A s \in SUBSET D : \A x \in D \ s :
           SumFunctionOnSet(f, s \union {x}) = f[x] + SumFunctionOnSet(f, s)
<1> DEFINE Adds(s, x) == SumFunctionOnSet(f, s \union {x}) = f[x] + SumFunctionOnSet(f, s)
           W == {s \in SUBSET D : \A x \in D \ s : Adds(s, x)}
<1>1. \A s \in SUBSET D : IsFiniteSet(s) /\ SumFunctionOnSet(f, s) \in Nat
  BY FS_Subset, SumIsNat
<1>2. ASSUME NEW s \in SUBSET D, \A r \in SUBSET s : r # s => r \in W, NEW x \in D \ s
      PROVE  Adds(s, x)
  <2> DEFINE u == s \union {x}
             y == Pick(u)
  <2>1. u \in SUBSET D /\ u # {} /\ y \in u
    BY DEF Pick
  <2>2. SumFunctionOnSet(f, u) = f[y] + SumFunctionOnSet(f, u \ {y})
    BY <1>1, <2>1, SumUnfolds, Zenon
  <2> HIDE DEF y
  <2>3. CASE y = x
    <3>1. u \ {y} = s
      BY <2>3
    <3> HIDE DEF u
    <3>2. QED
      BY <2>2, <2>3, <3>1 DEF u
  <2>4. CASE y # x
    <3> DEFINE r == s \ {y}
    <3>1. r \in SUBSET D /\ r \in W /\ y \in D \ r /\ x \in D \ r
      BY <1>2, <2>1, <2>4
    <3>2. Adds(r, x) /\ Adds(r, y)
      BY <3>1
    <3>3. r \union {y} = s /\ u \ {y} = r \union {x}
      BY <2>1, <2>4
    <3>4. /\ SumFunctionOnSet(f, u \ {y}) = f[x] + SumFunctionOnSet(f, r)
          /\ SumFunctionOnSet(f, s) = f[y] + SumFunctionOnSet(f, r)
      BY <3>2, <3>3
    <3>5. f[x] \in Nat /\ f[y] \in Nat /\ SumFunctionOnSet(f, r) \in Nat
      BY <1>1, <3>1
    <3> HIDE DEF r, u
    <3>6. QED
      BY <2>2, <3>4, <3>5 DEF u
  <2>5. QED
    BY <2>3, <2>4
<1>3. \A s \in SUBSET D : (\A r \in SUBSET s : r # s => r \in W) => s \in W
  BY <1>2
<1> HIDE DEF W
<1>4. \A s \in SUBSET D : s \in W
  BY <1>3, SubsetInduct
<1>5. QED
  BY <1>4 DEF W

LEMMA SumOfNone == \A f : SumFunctionOnSet(f, {}) = 0
  BY SumUnfolds, FS_EmptySet

(* The sum over a set and over one without some element, in either direction.      *)
LEMMA SumRemoves ==
  ASSUME NEW D, IsFiniteSet(D), NEW f \in [D -> Nat], NEW s \in SUBSET D, NEW x \in s
  PROVE  SumFunctionOnSet(f, s) = f[x] + SumFunctionOnSet(f, s \ {x})
<1>1. s \ {x} \in SUBSET D /\ x \in D \ (s \ {x}) /\ (s \ {x}) \union {x} = s
  OBVIOUS
<1>2. QED
  BY <1>1, SumAdds

LEMMA SumIsSame ==
  ASSUME NEW D, IsFiniteSet(D), NEW f \in [D -> Nat], NEW g \in [D -> Nat]
  PROVE  \A s \in SUBSET D :
           (\A x \in s : f[x] = g[x]) => SumFunctionOnSet(f, s) = SumFunctionOnSet(g, s)
<1> DEFINE Same(s) == SumFunctionOnSet(f, s) = SumFunctionOnSet(g, s)
           W == {s \in SUBSET D : (\A x \in s : f[x] = g[x]) => Same(s)}
<1>1. ASSUME NEW s \in SUBSET D, \A r \in SUBSET s : r # s => r \in W, \A x \in s : f[x] = g[x]
      PROVE  Same(s)
  <2>1. CASE s = {}
    BY <2>1, SumOfNone
  <2>2. CASE s # {}
    <3>1. PICK x \in s : TRUE
      BY <2>2
    <3>2. s \ {x} \in W /\ Same(s \ {x})
      BY <1>1, <3>1
    <3>3. QED
      BY <1>1, <3>1, <3>2, SumRemoves
  <2>3. QED
    BY <2>1, <2>2
<1>2. \A s \in SUBSET D : (\A r \in SUBSET s : r # s => r \in W) => s \in W
  BY <1>1
<1> HIDE DEF W
<1>3. \A s \in SUBSET D : s \in W
  BY <1>2, SubsetInduct
<1>4. QED
  BY <1>3 DEF W

LEMMA SumIsMonotonic ==
  ASSUME NEW D, IsFiniteSet(D), NEW f \in [D -> Nat], NEW t \in SUBSET D
  PROVE  \A s \in SUBSET t : SumFunctionOnSet(f, s) <= SumFunctionOnSet(f, t)
<1> DEFINE W == {u \in SUBSET D : \A s \in SUBSET u : SumFunctionOnSet(f, s) <= SumFunctionOnSet(f, u)}
<1>1. \A s \in SUBSET D : SumFunctionOnSet(f, s) \in Nat
  BY SumIsNat
<1>2. ASSUME NEW u \in SUBSET D, \A r \in SUBSET u : r # u => r \in W, NEW s \in SUBSET u
      PROVE  SumFunctionOnSet(f, s) <= SumFunctionOnSet(f, u)
  <2>1. CASE s = u
    BY <1>1, <2>1
  <2>2. CASE s # u
    <3>1. PICK x \in u \ s : TRUE
      BY <2>2
    <3> DEFINE r == u \ {x}
    <3>2. r \in W /\ s \in SUBSET r /\ r \in SUBSET D
      BY <1>2, <3>1
    <3>3. SumFunctionOnSet(f, s) <= SumFunctionOnSet(f, r)
      BY <3>2
    <3>4. SumFunctionOnSet(f, u) = f[x] + SumFunctionOnSet(f, r)
      BY <3>1, SumRemoves
    <3> HIDE DEF r
    <3>5. f[x] \in Nat /\ s \in SUBSET D
      BY <3>1
    <3>6. QED
      BY <1>1, <3>2, <3>3, <3>4, <3>5
  <2>3. QED
    BY <2>1, <2>2
<1>3. \A s \in SUBSET D : (\A r \in SUBSET s : r # s => r \in W) => s \in W
  BY <1>2
<1> HIDE DEF W
<1>4. \A s \in SUBSET D : s \in W
  BY <1>3, SubsetInduct
<1>5. QED
  BY <1>4 DEF W

-----------------------------------------------------------------------------
(* The links of all blocks, and where a block ends.                              *)
Links == [size |-> size, prev |-> prev, next |-> next]

Shape == [size : [Addr -> Nat], prev : [Addr -> Addr \union {NULL}],
          next : [Addr -> Addr \union {NULL}]]

End(m, b)   == b + Hdr + m.size[b]
Occupied(m) == [b \in Addr |-> Hdr + m.size[b]]

(* The blocks B follow each other without a gap, from the head to the end of the   *)
(* heap, and prev leads back.                                                 *)
Tiles(B, m) ==
  /\ m \in Shape /\ B \in SUBSET Addr /\ Base \in B
  /\ m.prev[Base] = NULL
  /\ \A b \in B : m.size[b] % Align = 0
  /\ \A b \in B : m.next[b] = NULL => End(m, b) = Top
  /\ \A b \in B : m.next[b] # NULL =>
       m.next[b] \in B /\ m.next[b] = End(m, b) /\ m.prev[m.next[b]] = b
  /\ \A b \in B \ {Base} : m.prev[b] \in B /\ m.next[m.prev[b]] = b
  /\ \A a, b \in B : a < b => End(m, a) <= b
  /\ SumFunctionOnSet(Occupied(m), B) = HeapSize

(* Only blocks are in use, the last one is not, and of two neighbours one is.      *)
UseInv(B, m, inUse) ==
  /\ inUse \in [Addr -> BOOLEAN]
  /\ \A a \in Addr : inUse[a] => a \in B
  /\ \A b \in B : inUse[b] => m.next[b] # NULL
  /\ \A b \in B : m.next[b] # NULL => inUse[b] \/ inUse[m.next[b]]

BlockInv(B) == /\ Tiles(B, Links) /\ UseInv(B, Links, allocated)
               /\ total_allocated =
                    SumFunctionOnSet(Occupied(Links), {b \in B : allocated[b]})

(* The clients hold the blocks in use, and none that they have given back.         *)
ClientInv ==
  /\ DOMAIN live = {b + Hdr : b \in {a \in Addr : allocated[a]}}
  /\ \A p \in DOMAIN live : live[p] \in Nat /\ size[p - Hdr] >= live[p]
  /\ freed \in SUBSET {b + Hdr : b \in Addr}
  /\ \A p \in freed : ~allocated[p - Hdr]

(* The header of a block is as heap.c wrote it, out of reach of the clients.         *)
Clean(B) == \A b \in B : b \notin soiled

HeapInv == ClientInv /\ \E B \in SUBSET Addr : BlockInv(B) /\ Clean(B)

IInv == /\ HeapInv
        /\ status \in {"ok", "panic", "corrupt"}
        /\ status = "panic" => freed # {}
        /\ status = "corrupt" => \E p \in freed : p - Hdr \in soiled

(* No request is so near to 2^32 that the test of split_block wraps.              *)
NoWrap == \A n \in Requests : n + Hdr + MinAlloc + Align <= Word

USE DEF Align, Hdr, MinAlloc, Flag, NULL, Base

LEMMA Sizes ==
  /\ HeapSize \in Nat /\ HeapSize % 16 = 0 /\ HeapSize >= 32
  /\ Top \in Nat /\ Top = HeapSize + 32 /\ Top % 16 = 0 /\ Word \in Nat /\ Word > Top
  BY HeapAssumption DEF Top

LEMMA AddrIs == \A a \in Int : a \in Addr <=> a % 16 = 0 /\ 32 <= a /\ a + 16 <= Top
<1>1. ASSUME NEW a \in Addr PROVE a % 16 = 0 /\ 32 <= a /\ a + 16 <= Top
  BY Sizes DEF Addr
<1>2. ASSUME NEW a \in Int, a % 16 = 0, 32 <= a, a + 16 <= Top PROVE a \in Addr
  <2> DEFINE i == (a - 32) \div 16
  <2>1. a = 32 + 16 * i /\ i \in 0 .. (HeapSize \div 16) - 1
    BY <1>2, Sizes
  <2>2. QED
    BY <2>1 DEF Addr
<1>3. QED
  BY <1>1, <1>2

LEMMA AddrType == Addr \in SUBSET Nat /\ IsFiniteSet(Addr) /\ 32 \in Addr /\ 0 \notin Addr
<1>1. Addr \in SUBSET Nat
  BY Sizes DEF Addr
<1>2. \A a \in Addr : a <= Top
  BY <1>1, AddrIs, Sizes
<1>3. IsFiniteSet(Addr)
  BY <1>1, <1>2, Sizes, FS_BoundedSetOfNaturals
<1>4. QED
  BY <1>1, <1>3, AddrIs, Sizes

(* The shape of the links, one field at a time.                                 *)
LEMMA ShapeFields ==
  ASSUME NEW m \in Shape
  PROVE  /\ m.size \in [Addr -> Nat] /\ m.prev \in [Addr -> Addr \union {0}]
         /\ m.next \in [Addr -> Addr \union {0}]
         /\ \A b \in Addr : m.size[b] \in Nat /\ End(m, b) \in Nat
         /\ Occupied(m) \in [Addr -> Nat]
         /\ \A b \in Addr : Occupied(m)[b] = 16 + m.size[b]
<1>1. /\ m.size \in [Addr -> Nat] /\ m.prev \in [Addr -> Addr \union {0}]
      /\ m.next \in [Addr -> Addr \union {0}]
  BY DEF Shape
<1>2. QED
  BY <1>1, AddrType DEF End, Occupied

(* Sums over addresses.                                                        *)
LEMMA AddrSums ==
  ASSUME NEW f \in [Addr -> Nat]
  PROVE  /\ \A s \in SUBSET Addr : SumFunctionOnSet(f, s) \in Nat
         /\ \A s \in SUBSET Addr : \A x \in s :
              SumFunctionOnSet(f, s) = f[x] + SumFunctionOnSet(f, s \ {x})
         /\ \A t \in SUBSET Addr : \A s \in SUBSET t :
              SumFunctionOnSet(f, s) <= SumFunctionOnSet(f, t)
<1>1. IsFiniteSet(Addr)
  BY AddrType
<1>2. QED
  BY <1>1, SumIsNat, SumRemoves, SumIsMonotonic

LEMMA SumOfTwo ==
  ASSUME NEW f \in [Addr -> Nat], NEW B \in SUBSET Addr, NEW a \in B, NEW x \in B, a # x
  PROVE  SumFunctionOnSet(f, B) = f[a] + f[x] + SumFunctionOnSet(f, B \ {a, x})
<1>1. SumFunctionOnSet(f, B) = f[a] + SumFunctionOnSet(f, B \ {a})
  BY AddrSums
<1>2. SumFunctionOnSet(f, B \ {a}) = f[x] + SumFunctionOnSet(f, (B \ {a}) \ {x})
  <2>1. B \ {a} \in SUBSET Addr /\ x \in B \ {a}
    OBVIOUS
  <2> HIDE DEF Base
  <2>2. QED
    BY <2>1, AddrSums
<1>3. (B \ {a}) \ {x} = B \ {a, x}
  OBVIOUS
<1>4. f[a] \in Nat /\ f[x] \in Nat /\ SumFunctionOnSet(f, B \ {a, x}) \in Nat
  BY AddrSums
<1>5. QED
  BY <1>1, <1>2, <1>3, <1>4

LEMMA SameSums ==
  ASSUME NEW f \in [Addr -> Nat], NEW g \in [Addr -> Nat], NEW s \in SUBSET Addr,
         \A x \in s : f[x] = g[x]
  PROVE  SumFunctionOnSet(f, s) = SumFunctionOnSet(g, s)
<1>1. IsFiniteSet(Addr)
  BY AddrType
<1>2. QED
  BY <1>1, SumIsSame

(* A block takes over its successor.                                            *)
Absorbs(m, a, x, n) ==
  /\ n \in Shape
  /\ x # 32 /\ x # a /\ a < x /\ m.prev[x] = a
  /\ n.size[a] = m.size[a] + 16 + m.size[x]
  /\ n.next[a] = m.next[x] /\ n.prev[a] = m.prev[a]
  /\ \A b \in Addr \ {a} : n.size[b] = m.size[b] /\ n.next[b] = m.next[b]
  /\ \A b \in Addr \ {m.next[x]} : n.prev[b] = m.prev[b]
  /\ m.next[x] # 0 => n.prev[m.next[x]] = a

LEMMA AbsorbFields ==
  ASSUME NEW B, NEW m, Tiles(B, m), NEW a \in B, NEW x \in B, x = m.next[a]
  PROVE  Absorbs(m, a, x, Absorb(m, a, x))
<1> DEFINE n == Absorb(m, a, x)
           y == m.next[x]
<1>1. /\ m \in Shape /\ B \in SUBSET Addr /\ 32 \in B /\ m.prev[32] = 0
      /\ \A b \in B : m.size[b] % 16 = 0
      /\ \A b \in B : m.next[b] = 0 => End(m, b) = Top
      /\ \A b \in B : m.next[b] # 0 =>
           m.next[b] \in B /\ m.next[b] = End(m, b) /\ m.prev[m.next[b]] = b
      /\ \A b \in B \ {32} : m.prev[b] \in B /\ m.next[m.prev[b]] = b
      /\ \A c, b \in B : c < b => End(m, c) <= b
      /\ SumFunctionOnSet(Occupied(m), B) = HeapSize
  BY DEF Tiles
<1>2. /\ m.size \in [Addr -> Nat] /\ m.prev \in [Addr -> Addr \union {0}]
      /\ m.next \in [Addr -> Addr \union {0}]
      /\ \A b \in Addr : m.size[b] \in Nat
  BY <1>1, ShapeFields
<1>3. /\ Addr \in SUBSET Nat /\ a \in Addr /\ 0 \notin Addr /\ \A b \in Addr : 32 <= b
  BY <1>1, AddrType, AddrIs
<1>4. x \in Addr /\ x = a + 16 + m.size[a] /\ m.prev[x] = a /\ a < x /\ x # 32
  BY <1>1, <1>2, <1>3 DEF End
<1>5. y # 0 => y \in B /\ y = x + 16 + m.size[x] /\ m.prev[y] = x /\ y > x
  BY <1>1, <1>2, <1>3, <1>4 DEF End
<1> HIDE DEF y
<1>6. y = m.next[x] /\ y \in Addr \union {0}
  BY <1>2, <1>4 DEF y
<1>7. /\ n.size = [m.size EXCEPT ![a] = m.size[a] + 16 + m.size[x]]
      /\ n.next = [m.next EXCEPT ![a] = y]
      /\ n.prev = IF y = 0 THEN m.prev ELSE [m.prev EXCEPT ![y] = a]
  BY <1>1, <1>6 DEF Absorb, Shape
<1>8. /\ n.size[a] = m.size[a] + 16 + m.size[x] /\ n.next[a] = y
      /\ \A b \in Addr \ {a} : n.size[b] = m.size[b] /\ n.next[b] = m.next[b]
      /\ y # 0 => n.prev[y] = a
      /\ \A b \in Addr : b # y => n.prev[b] = m.prev[b]
  BY <1>2, <1>3, <1>6, <1>7
<1>9. n \in Shape
  <2>1. n.size \in [Addr -> Nat] /\ n.next \in [Addr -> Addr \union {0}]
    BY <1>2, <1>3, <1>4, <1>6, <1>7
  <2>2. n.prev \in [Addr -> Addr \union {0}]
    BY <1>2, <1>3, <1>6, <1>7
  <2>3. n = [m EXCEPT !.size = n.size, !.next = n.next, !.prev = n.prev]
    BY <1>1 DEF Absorb, Shape
  <2> HIDE DEF n
  <2>4. QED
    BY <1>1, <2>1, <2>2, <2>3 DEF Shape
<1> HIDE DEF n
<1>10. n.prev[a] = m.prev[a]
  BY <1>3, <1>4, <1>5, <1>6, <1>8
<1>11. QED
  BY <1>3, <1>4, <1>6, <1>8, <1>9, <1>10 DEF n, Absorbs

LEMMA AbsorbTiles ==
  ASSUME NEW B, NEW m, Tiles(B, m), NEW a \in B, NEW x \in B, x = m.next[a]
  PROVE  Tiles(B \ {x}, Absorb(m, a, x))
<1> DEFINE n == Absorb(m, a, x)
           y == m.next[x]
<1>1. /\ m \in Shape /\ B \in SUBSET Addr /\ 32 \in B /\ m.prev[32] = 0
      /\ \A b \in B : m.size[b] % 16 = 0
      /\ \A b \in B : m.next[b] = 0 => End(m, b) = Top
      /\ \A b \in B : m.next[b] # 0 =>
           m.next[b] \in B /\ m.next[b] = End(m, b) /\ m.prev[m.next[b]] = b
      /\ \A b \in B \ {32} : m.prev[b] \in B /\ m.next[m.prev[b]] = b
      /\ \A c, b \in B : c < b => End(m, c) <= b
      /\ SumFunctionOnSet(Occupied(m), B) = HeapSize
  BY DEF Tiles
<1>2. /\ m.size \in [Addr -> Nat] /\ m.prev \in [Addr -> Addr \union {0}]
      /\ m.next \in [Addr -> Addr \union {0}]
      /\ \A b \in Addr : m.size[b] \in Nat
  BY <1>1, ShapeFields
<1>3. /\ Addr \in SUBSET Nat /\ a \in Addr /\ 0 \notin Addr /\ \A b \in Addr : 32 <= b
  BY <1>1, AddrType, AddrIs
<1>4. x \in Addr /\ x = a + 16 + m.size[a] /\ m.prev[x] = a /\ a < x /\ x # 32
  BY <1>1, <1>2, <1>3 DEF End
<1>5. y # 0 => y \in B /\ y = x + 16 + m.size[x] /\ m.prev[y] = x /\ y > x
  BY <1>1, <1>2, <1>3, <1>4 DEF End
<1> HIDE DEF y
<1>6. y = m.next[x] /\ y \in Addr \union {0}
  BY <1>2, <1>4 DEF y
<1>7. Absorbs(m, a, x, n)
  BY AbsorbFields
<1>8. /\ n.size[a] = m.size[a] + 16 + m.size[x] /\ n.next[a] = y
      /\ \A b \in Addr \ {a} : n.size[b] = m.size[b] /\ n.next[b] = m.next[b]
      /\ y # 0 => n.prev[y] = a
      /\ \A b \in Addr : b # y => n.prev[b] = m.prev[b]
  BY <1>6, <1>7 DEF Absorbs
<1>9. n \in Shape
  BY <1>7 DEF Absorbs
<1> HIDE DEF n
<1>10. /\ B \ {x} \in SUBSET Addr /\ 32 \in B \ {x} /\ n.prev[32] = 0
  <2>1. 32 # y
    BY <1>3, <1>4, <1>5, <1>6
  <2>2. QED
    BY <1>1, <1>3, <1>4, <1>8, <2>1
<1>11. \A b \in B \ {x} : n.size[b] % 16 = 0
  BY <1>1, <1>2, <1>3, <1>4, <1>8
<1>12. ASSUME NEW b \in B \ {x}
       PROVE  /\ n.next[b] = 0 => End(n, b) = Top
              /\ n.next[b] # 0 => /\ n.next[b] \in B \ {x} /\ n.next[b] = End(n, b)
                                  /\ n.prev[n.next[b]] = b
  <2>1. CASE b = a
    <3>1. End(n, b) = End(m, x)
      BY <1>2, <1>3, <1>4, <1>8, <2>1 DEF End
    <3>2. y = 0 => End(m, x) = Top
      BY <1>1, <1>4, <1>6
    <3>3. y # 0 => y = End(m, x) /\ y \in B \ {x}
      BY <1>1, <1>3, <1>4, <1>5, <1>6 DEF End
    <3>4. QED
      BY <1>8, <2>1, <3>1, <3>2, <3>3
  <2>2. CASE b # a
    <3>1. n.next[b] = m.next[b] /\ End(n, b) = End(m, b)
      BY <1>1, <1>8, <2>2 DEF End
    <3>2. m.next[b] # 0 => m.next[b] # x /\ m.next[b] # y
      BY <1>1, <1>4, <1>5, <2>2
    <3>3. QED
      BY <1>1, <1>8, <3>1, <3>2
  <2>3. QED
    BY <2>1, <2>2
<1>13. ASSUME NEW b \in (B \ {x}) \ {32}
       PROVE  n.prev[b] \in B \ {x} /\ n.next[n.prev[b]] = b
  <2>1. CASE b = y
    BY <1>1, <1>3, <1>4, <1>5, <1>6, <1>8, <1>13, <2>1
  <2>2. CASE b # y
    <3>1. n.prev[b] = m.prev[b] /\ m.prev[b] \in B /\ m.next[m.prev[b]] = b
      BY <1>1, <1>8, <2>2
    <3>2. m.prev[b] # x /\ m.prev[b] # a
      BY <1>6, <1>13, <2>2, <3>1
    <3>3. QED
      BY <1>1, <1>8, <3>1, <3>2
  <2>3. QED
    BY <2>1, <2>2
<1>14. ASSUME NEW c \in B \ {x}, NEW b \in B \ {x}, c < b
       PROVE  End(n, c) <= b
  <2>1. CASE c = a
    <3>1. End(n, c) = End(m, x)
      BY <1>2, <1>3, <1>4, <1>8, <2>1 DEF End
    <3>2. x < b
      <4>1. End(m, a) <= b /\ End(m, a) = x
        BY <1>1, <1>4, <1>14, <2>1 DEF End
      <4>2. b # x
        BY <1>14
      <4>3. QED
        BY <1>1, <1>3, <1>4, <4>1, <4>2
    <3>3. QED
      BY <1>1, <1>4, <3>1, <3>2
  <2>2. CASE c # a
    <3>1. End(n, c) = End(m, c)
      BY <1>1, <1>8, <2>2 DEF End
    <3>2. QED
      BY <1>1, <1>14, <3>1
  <2>3. QED
    BY <2>1, <2>2
<1>15. SumFunctionOnSet(Occupied(n), B \ {x}) = HeapSize
  <2> DEFINE f == Occupied(m)
             g == Occupied(n)
             rest == B \ {a, x}
  <2>1. /\ f \in [Addr -> Nat] /\ g \in [Addr -> Nat]
        /\ \A b \in Addr : f[b] = 16 + m.size[b] /\ g[b] = 16 + n.size[b]
    BY <1>1, <1>9, ShapeFields
  <2>2. rest \in SUBSET Addr /\ \A b \in rest : f[b] = g[b]
    BY <1>1, <1>8, <2>1
  <2>3. f[a] + f[x] = g[a]
    BY <1>2, <1>3, <1>4, <1>8, <2>1
  <2> HIDE DEF f, g
  <2>4. SumFunctionOnSet(f, B) = f[a] + f[x] + SumFunctionOnSet(f, rest)
    BY <1>1, <1>3, <1>4, <2>1, SumOfTwo
  <2>5. SumFunctionOnSet(g, B \ {x}) = g[a] + SumFunctionOnSet(g, rest)
    <3>1. a \in B \ {x} /\ B \ {x} \in SUBSET Addr
      <4>1. a # x
        BY <1>3, <1>4
      <4>2. QED
        BY <1>1, <4>1, Zenon
    <3>2. (B \ {x}) \ {a} = rest
      OBVIOUS
    <3> HIDE DEF rest
    <3>3. SumFunctionOnSet(g, B \ {x}) = g[a] + SumFunctionOnSet(g, (B \ {x}) \ {a})
      BY <2>1, <3>1, AddrSums
    <3>4. QED
      BY <3>2, <3>3
  <2>6. SumFunctionOnSet(f, rest) = SumFunctionOnSet(g, rest)
    BY <2>1, <2>2, SameSums
  <2>7. SumFunctionOnSet(f, B) = HeapSize
    BY <1>1 DEF f
  <2> HIDE DEF rest
  <2>8. SumFunctionOnSet(g, B \ {x}) = HeapSize
    BY <2>3, <2>4, <2>5, <2>6, <2>7
  <2>9. QED
    BY <2>8 DEF g
<1>16. Tiles(B \ {x}, n)
  BY <1>9, <1>10, <1>11, <1>12, <1>13, <1>14, <1>15 DEF Tiles
<1>17. QED
  BY <1>16 DEF n

(* A block of k bytes is cut from the front of block b.                           *)
Cut(m, b, k) ==
  LET r == b + 16 + k
      x == m.next[b]
  IN  [size |-> [m.size EXCEPT ![r] = m.size[b] - k - 16, ![b] = k],
       prev |-> [m.prev EXCEPT ![r] = b, ![IF x = 0 THEN r ELSE x] = IF x = 0 THEN b ELSE r],
       next |-> [m.next EXCEPT ![r] = x, ![b] = r]]

IsCut(B, m, b, k, r, n) ==
  /\ Tiles(B \union {r}, n)
  /\ r \in Addr /\ r \notin B /\ b < r
  /\ n.size[b] = k /\ n.next[b] = r /\ n.next[r] = m.next[b]
  /\ \A a \in Addr \ {b, r} : n.size[a] = m.size[a] /\ n.next[a] = m.next[a]

LEMMA CutTiles ==
  ASSUME NEW B, NEW m, Tiles(B, m), NEW b \in B,
         NEW k \in Nat, k % 16 = 0, k + 16 <= m.size[b],
         NEW r, r = b + 16 + k
  PROVE  IsCut(B, m, b, k, r, Cut(m, b, k))
<1> DEFINE n == Cut(m, b, k)
           x == m.next[b]
<1>1. /\ m \in Shape /\ B \in SUBSET Addr /\ 32 \in B /\ m.prev[32] = 0
      /\ \A a \in B : m.size[a] % 16 = 0
      /\ \A a \in B : m.next[a] = 0 => End(m, a) = Top
      /\ \A a \in B : m.next[a] # 0 =>
           m.next[a] \in B /\ m.next[a] = End(m, a) /\ m.prev[m.next[a]] = a
      /\ \A a \in B \ {32} : m.prev[a] \in B /\ m.next[m.prev[a]] = a
      /\ \A c, a \in B : c < a => End(m, c) <= a
      /\ SumFunctionOnSet(Occupied(m), B) = HeapSize
  BY DEF Tiles
<1>2. /\ m.size \in [Addr -> Nat] /\ m.prev \in [Addr -> Addr \union {0}]
      /\ m.next \in [Addr -> Addr \union {0}]
      /\ \A a \in Addr : m.size[a] \in Nat
  BY <1>1, ShapeFields
<1>3. /\ Addr \in SUBSET Nat /\ b \in Addr /\ 0 \notin Addr /\ \A a \in Addr : 32 <= a
  BY <1>1, AddrType, AddrIs
<1>4. x \in Addr \union {0} /\ End(m, b) <= Top
      /\ (x # 0 => x \in B /\ x = End(m, b) /\ m.prev[x] = b)
  <2>1. x # 0 => x \in B /\ x = End(m, b) /\ m.prev[x] = b
    BY <1>1
  <2>2. x = 0 => End(m, b) = Top
    BY <1>1
  <2>3. \A a \in Addr : a <= Top
    BY <1>3, AddrIs, Sizes
  <2>4. x \in Addr \union {0}
    BY <1>2, <1>3
  <2> HIDE DEF x
  <2>5. End(m, b) <= Top
    BY <1>1, <2>1, <2>2, <2>3, Sizes
  <2>6. QED
    BY <2>1, <2>4, <2>5
<1> HIDE DEF x
<1>5. r \in Addr /\ b < r /\ r < End(m, b) /\ r # 32
  <2>1. b % 16 = 0 /\ b \in Nat /\ m.size[b] \in Nat /\ Top \in Nat
    BY <1>2, <1>3, AddrIs, Sizes
  <2>2. b >= 32
    BY <1>3
  <2>3. b < r /\ r + 16 <= End(m, b) /\ r \in Nat /\ r % 16 = 0 /\ End(m, b) \in Nat
    BY <2>1 DEF End
  <2>4. r + 16 <= Top /\ 32 < r
    BY <1>4, <2>1, <2>2, <2>3
  <2>5. r \in Addr
    BY <2>3, <2>4, AddrIs
  <2>6. QED
    BY <2>3, <2>4, <2>5
<1>6. r \notin B
  <2>1. r \in B => End(m, b) <= r
    BY <1>1, <1>5
  <2>2. r \in Nat /\ End(m, b) \in Nat
    BY <1>1, <1>3, <1>5, ShapeFields
  <2>3. QED
    BY <1>5, <2>1, <2>2
<1>7. /\ n.size = [m.size EXCEPT ![r] = m.size[b] - k - 16, ![b] = k]
      /\ n.prev = [m.prev EXCEPT ![r] = b, ![IF x = 0 THEN r ELSE x] = IF x = 0 THEN b ELSE r]
      /\ n.next = [m.next EXCEPT ![r] = x, ![b] = r]
      /\ n = [size |-> n.size, prev |-> n.prev, next |-> n.next]
  BY DEF Cut, x
<1> HIDE DEF n
<1>8. /\ n.size[b] = k /\ n.size[r] = m.size[b] - k - 16
      /\ n.next[b] = r /\ n.next[r] = x
      /\ \A a \in Addr \ {b, r} : n.size[a] = m.size[a] /\ n.next[a] = m.next[a]
  BY <1>2, <1>3, <1>5, <1>7
<1>9. /\ n.prev[r] = b
      /\ x # 0 => n.prev[x] = r
      /\ \A a \in Addr \ {x, r} : n.prev[a] = m.prev[a]
  <2>1. r # x
    BY <1>3, <1>4, <1>5, <1>6
  <2>2. QED
    BY <1>2, <1>3, <1>4, <1>5, <1>7, <2>1
<1>10. n \in Shape
  <2>1. n.size \in [Addr -> Nat]
    BY <1>2, <1>3, <1>5, <1>7
  <2>2. n.next \in [Addr -> Addr \union {0}]
    BY <1>2, <1>3, <1>4, <1>5, <1>7
  <2>3. n.prev \in [Addr -> Addr \union {0}]
    BY <1>2, <1>3, <1>4, <1>5, <1>7
  <2>4. QED
    BY <1>7, <2>1, <2>2, <2>3, Zenon DEF Shape, NULL
<1>11. /\ End(n, b) = r /\ End(n, r) = End(m, b)
       /\ \A a \in B \ {b} : End(n, a) = End(m, a)
  <2>1. End(n, b) = r
    BY <1>8 DEF End
  <2>2. End(n, r) = End(m, b)
    BY <1>2, <1>3, <1>8 DEF End
  <2>3. QED
    BY <1>1, <1>6, <1>8, <2>1, <2>2 DEF End
<1>12. /\ B \union {r} \in SUBSET Addr /\ 32 \in B \union {r} /\ n.prev[32] = 0
  <2>1. 32 # x
    <3>1. x # 0 => b < x
      BY <1>2, <1>3, <1>4 DEF End
    <3>2. QED
      BY <1>3, <3>1
  <2>2. QED
    BY <1>1, <1>3, <1>5, <1>9, <2>1
<1>13. \A a \in B \union {r} : n.size[a] % 16 = 0
  <2>1. (m.size[b] - k - 16) % 16 = 0
    BY <1>1, <1>2, <1>3
  <2>2. QED
    BY <1>1, <1>8, <2>1
<1>14. ASSUME NEW a \in B \union {r}
       PROVE  /\ n.next[a] = 0 => End(n, a) = Top
              /\ n.next[a] # 0 => /\ n.next[a] \in B \union {r} /\ n.next[a] = End(n, a)
                                  /\ n.prev[n.next[a]] = a
  <2>1. CASE a = b
    BY <1>3, <1>5, <1>8, <1>9, <1>11, <2>1
  <2>2. CASE a = r
    <3>1. x = 0 => End(m, b) = Top
      BY <1>1 DEF x
    <3>2. QED
      BY <1>4, <1>8, <1>9, <1>11, <2>2, <3>1
  <2>3. CASE a # b /\ a # r
    <3>1. a \in B \ {b} /\ n.next[a] = m.next[a] /\ End(n, a) = End(m, a)
      BY <1>1, <1>8, <1>11, <2>3
    <3>2. m.next[a] # 0 => m.next[a] # r /\ m.next[a] # x
      BY <1>1, <1>4, <1>6, <3>1
    <3>3. QED
      BY <1>1, <1>9, <3>1, <3>2
  <2>4. QED
    BY <2>1, <2>2, <2>3
<1>15. ASSUME NEW a \in (B \union {r}) \ {32}
       PROVE  n.prev[a] \in B \union {r} /\ n.next[n.prev[a]] = a
  <2>1. CASE a = r
    BY <1>8, <1>9, <2>1
  <2>2. CASE a # r /\ a = x
    BY <1>3, <1>5, <1>8, <1>9, <1>15, <1>1, <2>2
  <2>3. CASE a # r /\ a # x
    <3>1. n.prev[a] = m.prev[a] /\ m.prev[a] \in B /\ m.next[m.prev[a]] = a
      BY <1>1, <1>9, <2>3
    <3>2. m.prev[a] # b /\ m.prev[a] # r
      BY <1>6, <2>3, <3>1 DEF x
    <3>3. QED
      BY <1>1, <1>8, <3>1, <3>2
  <2>4. QED
    BY <2>1, <2>2, <2>3
<1>16. ASSUME NEW c \in B \union {r}, NEW a \in B \union {r}, c < a
       PROVE  End(n, c) <= a
  <2>1. CASE c \in B \ {b} /\ a \in B
    BY <1>1, <1>11, <1>16, <2>1
  <2>2. CASE c = b
    <3>1. CASE a = r
      <4>1. r \in Nat
        BY <1>3, <1>5
      <4>2. QED
        BY <1>11, <2>2, <3>1, <4>1
    <3>2. CASE a \in B
      <4>1. End(m, b) <= a
        BY <1>1, <1>16, <2>2, <3>2
      <4>2. a \in Nat /\ r \in Nat /\ End(m, b) \in Nat
        BY <1>1, <1>3, <1>5, <3>2, ShapeFields
      <4>3. QED
        BY <1>5, <1>11, <2>2, <4>1, <4>2
    <3>3. QED
      BY <3>1, <3>2
  <2>3. CASE c = r /\ a \in B
    <3>1. b < a /\ b \in B
      BY <1>1, <1>3, <1>5, <1>16, <2>3
    <3>2. QED
      BY <1>1, <1>11, <2>3, <3>1
  <2>4. CASE c \in B \ {b} /\ a = r
    <3>1. c \in Nat /\ b \in Nat /\ r \in Nat /\ End(m, b) \in Nat /\ End(m, c) \in Nat /\ c # b
      BY <1>1, <1>3, <1>5, <2>4, ShapeFields
    <3>2. c < b
      <4>1. ASSUME b < c PROVE FALSE
        <5>1. End(m, b) <= c
          BY <1>1, <2>4, <4>1
        <5>2. QED
          BY <1>5, <1>16, <2>4, <3>1, <5>1
      <4>2. QED
        BY <3>1, <4>1
    <3>3. End(m, c) <= b
      BY <1>1, <2>4, <3>2
    <3>4. QED
      BY <1>5, <1>11, <2>4, <3>1, <3>3
  <2>5. CASE c = r /\ a = r
    BY <1>3, <1>5, <1>16, <2>5
  <2>6. QED
    BY <2>1, <2>2, <2>3, <2>4, <2>5
<1>17. SumFunctionOnSet(Occupied(n), B \union {r}) = HeapSize
  <2> DEFINE f == Occupied(m)
             g == Occupied(n)
             all  == B \union {r}
             rest == all \ {b, r}
  <2>1. /\ f \in [Addr -> Nat] /\ g \in [Addr -> Nat]
        /\ \A a \in Addr : f[a] = 16 + m.size[a] /\ g[a] = 16 + n.size[a]
    BY <1>1, <1>10, ShapeFields
  <2>2. rest \in SUBSET Addr /\ \A a \in rest : f[a] = g[a]
    BY <1>12, <1>8, <2>1
  <2>3. f[b] = g[b] + g[r]
    BY <1>2, <1>3, <1>5, <1>8, <2>1
  <2> HIDE DEF f, g
  <2>4. SumFunctionOnSet(f, B) = f[b] + SumFunctionOnSet(f, B \ {b})
    BY <1>1, <2>1, AddrSums
  <2>5. B \ {b} = rest
    BY <1>6
  <2>6. SumFunctionOnSet(g, all) = g[b] + g[r] + SumFunctionOnSet(g, rest)
    <3>1. b # r
      BY <1>3, <1>5
    <3>2. all \in SUBSET Addr /\ b \in all /\ r \in all
      BY <1>12
    <3> HIDE DEF all
    <3>3. QED
      BY <2>1, <3>1, <3>2, SumOfTwo
  <2>7. SumFunctionOnSet(f, rest) = SumFunctionOnSet(g, rest)
    BY <2>1, <2>2, SameSums
  <2>8. SumFunctionOnSet(f, B) = HeapSize
    BY <1>1 DEF f
  <2> HIDE DEF rest, all
  <2>9. SumFunctionOnSet(g, all) = HeapSize
    BY <2>3, <2>4, <2>5, <2>6, <2>7, <2>8
  <2>10. QED
    BY <2>9 DEF g, all
<1>18. Tiles(B \union {r}, n)
  BY <1>10, <1>12, <1>13, <1>14, <1>15, <1>16, <1>17 DEF Tiles
<1>19. QED
  BY <1>5, <1>6, <1>8, <1>18 DEF n, x, IsCut

-----------------------------------------------------------------------------
(* The chain of next links visits exactly the blocks.                            *)
MaxBlocks == HeapSize \div 16

Walk(to) == to = [i \in 1 .. MaxBlocks |-> IF i = 1 THEN <<32>> ELSE Extended(to[i - 1])]

LEMMA ChainIsChosen == Chain = (CHOOSE to : Walk(to))[MaxBlocks]
  BY DEF Chain, Walk, MaxBlocks

LEMMA WalkExists == \E to : Walk(to)
<1> DEFINE Step(h, i) == IF i = 1 THEN <<32>> ELSE Extended(h[i - 1])
           Partial(n, h) == \A i \in 1 .. n : h[i] = Step(h, i)
           Done == {n \in Nat : \E h : Partial(n, h)}
<1>1. 0 \in Done
  OBVIOUS
<1>2. ASSUME NEW n \in Done PROVE n + 1 \in Done
  <2>1. PICK g : Partial(n, g)
    OBVIOUS
  <2>2. n \in Nat
    OBVIOUS
  <2> DEFINE h == [i \in 1 .. n + 1 |-> Step(g, i)]
  <2>3. \A i \in 1 .. n : h[i] = g[i]
    BY <2>1, <2>2
  <2>4. ASSUME NEW i \in 1 .. n + 1 PROVE h[i] = Step(h, i)
    <3>1. i # 1 => i - 1 \in 1 .. n
      BY <2>2
    <3>2. QED
      BY <2>3, <3>1
  <2> HIDE DEF h
  <2>5. Partial(n + 1, h)
    BY <2>4
  <2>6. QED
    BY <2>2, <2>5
<1>3. Done = Nat
  <2>1. Done \in SUBSET Nat
    OBVIOUS
  <2> HIDE DEF Done
  <2>2. QED
    BY <1>1, <1>2, <2>1, NatInduct
<1>4. MaxBlocks \in Nat
  BY Sizes DEF MaxBlocks
<1>5. PICK h : Partial(MaxBlocks, h)
  BY <1>3, <1>4
<1> DEFINE to == [i \in 1 .. MaxBlocks |-> h[i]]
<1>6. ASSUME NEW i \in 1 .. MaxBlocks PROVE to[i] = Step(to, i)
  <2>1. i # 1 => i - 1 \in 1 .. MaxBlocks
    BY <1>4
  <2>2. QED
    BY <1>5, <2>1
<1>7. to = [i \in 1 .. MaxBlocks |-> to[i]]
  OBVIOUS
<1> HIDE DEF to
<1>8. Walk(to)
  BY <1>6, <1>7 DEF Walk
<1>9. QED
  BY <1>8

(* What the walk has seen after i steps.                                        *)
Seen(B, i, c) ==
  /\ c \in Seq(B) /\ Len(c) \in 1 .. i /\ c[1] = 32
  /\ \A j \in 1 .. Len(c) - 1 : next[c[j]] = c[j + 1]
  /\ \A j \in 1 .. Len(c) : c[j] >= 16 + 16 * j
  /\ Len(c) = i \/ next[c[Len(c)]] = 0

LEMMA SeenMore ==
  ASSUME NEW B, Tiles(B, Links), NEW i \in Nat, NEW c, Seen(B, i, c)
  PROVE  Seen(B, i + 1, Extended(c))
<1> DEFINE l == Len(c)
           x == next[c[l]]
<1>1. /\ c \in Seq(B) /\ l \in 1 .. i /\ c[1] = 32
      /\ \A j \in 1 .. l - 1 : next[c[j]] = c[j + 1]
      /\ \A j \in 1 .. l : c[j] >= 16 + 16 * j
      /\ l = i \/ x = 0
  BY DEF Seen
<1>2. c[l] \in B /\ l \in Nat /\ l >= 1
  BY <1>1
<1>3. x # 0 => x \in B /\ x >= c[l] + 16
  <2>1. Links.next = next /\ c[l] \in Addr /\ Links \in Shape
    BY <1>2 DEF Tiles, Links
  <2>2. x # 0 => x \in B /\ x = End(Links, c[l])
    BY <1>2, <2>1 DEF Tiles
  <2>3. c[l] \in Nat /\ Links.size[c[l]] \in Nat
    BY <2>1, AddrType, ShapeFields
  <2>4. QED
    BY <2>2, <2>3 DEF End
<1>4. B \in SUBSET Nat
  BY AddrType DEF Tiles
<1>5. CASE x = 0
  BY <1>1, <1>2, <1>5 DEF Seen, Extended
<1>6. CASE x # 0
  <2> DEFINE d == Append(c, x)
  <2>1. Extended(c) = d /\ l = i
    BY <1>1, <1>6 DEF Extended
  <2> HIDE DEF x
  <2>2. d \in Seq(B) /\ Len(d) = l + 1 /\ d[l + 1] = x /\ \A j \in 1 .. l : d[j] = c[j]
    BY <1>1, <1>2, <1>3, <1>6
  <2> HIDE DEF d
  <2>3. ASSUME NEW j \in 1 .. Len(d) - 1 PROVE next[d[j]] = d[j + 1]
    <3>1. CASE j = l
      BY <1>2, <2>2, <3>1 DEF x
    <3>2. CASE j # l
      <4>1. j \in 1 .. l - 1 /\ j + 1 \in 1 .. l /\ j \in 1 .. l
        BY <1>2, <2>2, <3>2
      <4>2. QED
        BY <1>1, <2>2, <4>1
    <3>3. QED
      BY <3>1, <3>2
  <2>4. ASSUME NEW j \in 1 .. Len(d) PROVE d[j] >= 16 + 16 * j
    <3>1. CASE j = l + 1
      <4>1. c[l] >= 16 + 16 * l /\ x >= c[l] + 16 /\ x \in Nat /\ c[l] \in Nat
        BY <1>1, <1>2, <1>3, <1>4, <1>6
      <4>2. QED
        BY <1>2, <2>2, <3>1, <4>1
    <3>2. CASE j # l + 1
      <4>1. j \in 1 .. l
        BY <1>2, <2>2, <3>2
      <4>2. QED
        BY <1>1, <2>2, <4>1
    <3>3. QED
      BY <3>1, <3>2
  <2>5. QED
    BY <1>1, <1>2, <2>1, <2>2, <2>3, <2>4 DEF Seen
<1>7. QED
  BY <1>5, <1>6

LEMMA ChainVisitsAll ==
  ASSUME NEW B, Tiles(B, Links)
  PROVE  /\ Chain \in Seq(B) /\ Len(Chain) >= 1 /\ Chain[1] = 32
         /\ \A j \in 1 .. Len(Chain) - 1 : next[Chain[j]] = Chain[j + 1]
         /\ next[Chain[Len(Chain)]] = 0
         /\ Blocks = B
<1>0. /\ B \in SUBSET Addr /\ 32 \in B /\ B \in SUBSET Nat
      /\ MaxBlocks \in Nat /\ MaxBlocks >= 1 /\ HeapSize = 16 * MaxBlocks
  BY AddrType, Sizes DEF Tiles, MaxBlocks
<1>1. PICK to : Walk(to) /\ Chain = to[MaxBlocks]
  BY ChainIsChosen, WalkExists
<1>2. \A i \in 1 .. MaxBlocks : to[i] = IF i = 1 THEN <<32>> ELSE Extended(to[i - 1])
  BY <1>1 DEF Walk
<1> DEFINE Good == {n \in Nat : n + 1 \in 1 .. MaxBlocks => Seen(B, n + 1, to[n + 1])}
<1>3. 0 \in Good
  <2>1. Seen(B, 1, <<32>>)
    BY <1>0 DEF Seen
  <2>2. QED
    BY <1>0, <1>2, <2>1
<1>4. ASSUME NEW n \in Good PROVE n + 1 \in Good
  <2>1. n \in Nat
    OBVIOUS
  <2>2. ASSUME n + 2 \in 1 .. MaxBlocks PROVE Seen(B, n + 2, to[n + 2])
    <3>1. n + 1 \in 1 .. MaxBlocks /\ Seen(B, n + 1, to[n + 1])
      BY <1>0, <2>1, <2>2
    <3>2. to[n + 2] = Extended(to[n + 1])
      BY <1>2, <2>1, <2>2
    <3>3. n + 1 \in Nat /\ (n + 1) + 1 = n + 2
      BY <2>1
    <3>4. Seen(B, (n + 1) + 1, Extended(to[n + 1]))
      BY <3>1, <3>3, SeenMore, Zenon
    <3>5. QED
      BY <3>2, <3>3, <3>4
  <2>3. (n + 1) + 1 = n + 2
    BY <2>1
  <2>4. QED
    BY <2>1, <2>2, <2>3
<1>5. Good = Nat
  <2>1. Good \in SUBSET Nat
    OBVIOUS
  <2> HIDE DEF Good
  <2>2. QED
    BY <1>3, <1>4, <2>1, NatInduct
<1>6. Seen(B, MaxBlocks, Chain)
  <2> HIDE DEF Good
  <2>1. MaxBlocks - 1 \in Nat /\ (MaxBlocks - 1) + 1 = MaxBlocks
    BY <1>0
  <2>2. MaxBlocks - 1 \in Good
    BY <1>5, <2>1
  <2>3. QED
    BY <1>0, <1>1, <2>1, <2>2 DEF Good
<1> HIDE DEF Good
<1> DEFINE c == Chain
           l == Len(c)
<1>7. /\ c \in Seq(B) /\ l \in 1 .. MaxBlocks /\ c[1] = 32 /\ l \in Nat
      /\ \A j \in 1 .. l - 1 : next[c[j]] = c[j + 1]
      /\ \A j \in 1 .. l : c[j] >= 16 + 16 * j
      /\ l = MaxBlocks \/ next[c[l]] = 0
  BY <1>0, <1>6 DEF Seen
<1> HIDE DEF c
<1>8. next[c[l]] = 0
  <2>1. CASE l = MaxBlocks
    <3>1. c[l] \in B /\ c[l] >= 16 + 16 * l
      BY <1>7
    <3>2. 16 * l = HeapSize
      BY <1>0, <2>1
    <3>3. c[l] \in B /\ c[l] >= 16 + HeapSize /\ c[l] \in Addr /\ c[l] \in Nat
      BY <1>0, <3>1, <3>2
    <3>4. Links.next[c[l]] # 0 =>
            Links.next[c[l]] \in B /\ Links.next[c[l]] = End(Links, c[l])
      BY <3>3 DEF Tiles
    <3>5. Links.size[c[l]] \in Nat
      BY <3>3, ShapeFields DEF Tiles
    <3>6. \A a \in B : a \in Nat /\ a + 16 <= Top
      BY <1>0, AddrIs
    <3>7. ASSUME Links.next[c[l]] # 0 PROVE FALSE
      BY <3>3, <3>4, <3>5, <3>6, <3>7, Sizes DEF End
    <3>8. QED
      BY <3>7 DEF Links
  <2>2. QED
    BY <1>7, <2>1
<1>9. \A b \in B : \E j \in 1 .. l : c[j] = b
  <2> DEFINE Missed == {b \in B : \A j \in 1 .. l : c[j] # b}
  <2> SUFFICES ASSUME Missed # {} PROVE FALSE
    OBVIOUS
  <2>1. PICK b \in Missed : \A a \in Missed : b <= a
    <3>1. Missed \in SUBSET Nat
      BY <1>0
    <3> HIDE DEF Missed
    <3>2. QED
      BY <3>1, LeastNat
  <2>2. b \in B \ {32}
    BY <1>7, <2>1
  <2>3. prev[b] \in B /\ next[prev[b]] = b
    BY <2>2 DEF Tiles, Links
  <2>4. prev[b] < b
    <3>1. next[prev[b]] # 0 /\ b \in Addr
      BY <1>0, <2>2, <2>3, AddrType
    <3>2. b = End(Links, prev[b])
      BY <2>3, <3>1 DEF Tiles, Links
    <3>3. prev[b] \in Addr /\ prev[b] \in Nat /\ Links.size[prev[b]] \in Nat
      BY <1>0, <2>3, ShapeFields DEF Tiles
    <3>4. QED
      BY <3>2, <3>3 DEF End
  <2>5. prev[b] \notin Missed
    <3>1. b \in Nat /\ prev[b] \in Nat
      BY <1>0, <2>2, <2>3
    <3> HIDE DEF Missed
    <3>2. QED
      BY <2>1, <2>4, <3>1
  <2>6. PICK j \in 1 .. l : c[j] = prev[b]
    BY <2>3, <2>5
  <2>7. j # l
    BY <1>0, <1>8, <2>2, <2>3, <2>6, AddrType
  <2>8. j \in 1 .. l - 1 /\ j + 1 \in 1 .. l
    BY <1>7, <2>7
  <2>9. c[j + 1] = b
    BY <1>7, <2>3, <2>6, <2>8
  <2>10. QED
    BY <2>1, <2>8, <2>9
<1>10. Blocks = B
  <2>1. DOMAIN c = 1 .. l /\ \A j \in 1 .. l : c[j] \in B
    BY <1>7
  <2>2. QED
    BY <1>9, <2>1 DEF Blocks, Range, c
<1>11. QED
  BY <1>7, <1>8, <1>10 DEF c

-----------------------------------------------------------------------------
(* Merging.  Around the block c that has become free two neighbours may be free.   *)
Loose(B, m, inUse, c) ==
  /\ inUse \in [Addr -> BOOLEAN] /\ c \in B /\ ~inUse[c]
  /\ \A a \in Addr : inUse[a] => a \in B
  /\ \A a \in B : inUse[a] => m.next[a] # 0
  /\ \A a \in B : m.next[a] # 0 /\ a # c /\ m.next[a] # c => inUse[a] \/ inUse[m.next[a]]

HalfMerged(B, m, inUse, c, n) ==
  \E B1 \in SUBSET B :
    /\ Tiles(B1, n) /\ Loose(B1, n, inUse, c)
    /\ \A a \in B1 : n.next[a] = c => inUse[a]
    /\ \A a \in B \ B1 : ~inUse[a]
    /\ \A a \in Addr : inUse[a] => n.size[a] = m.size[a]

FullyMerged(B, m, inUse, n) ==
  \E B1 \in SUBSET B :
    /\ Tiles(B1, n) /\ UseInv(B1, n, inUse)
    /\ \A a \in B \ B1 : ~inUse[a]
    /\ \A a \in Addr : inUse[a] => n.size[a] = m.size[a]

LEMMA MergeBack ==
  ASSUME NEW B, NEW m, NEW use, Tiles(B, m), UseInv(B, m, use), NEW b \in B, use[b],
         NEW inUse, inUse = [use EXCEPT ![b] = FALSE],
         NEW c, c = (IF IsFree(m.prev[b], inUse) THEN m.prev[b] ELSE b),
         NEW n, n = (IF IsFree(m.prev[b], inUse) THEN Absorb(m, c, b) ELSE m)
  PROVE  HalfMerged(B, m, inUse, c, n)
<1>1. /\ B \in SUBSET Addr /\ 32 \in B /\ m.prev[32] = 0 /\ 0 \notin Addr
      /\ \A a \in B : m.next[a] # 0 => m.next[a] \in B /\ m.prev[m.next[a]] = a
      /\ \A a \in B \ {32} : m.prev[a] \in B /\ m.next[m.prev[a]] = a
  BY AddrType DEF Tiles
<1>2. /\ use \in [Addr -> BOOLEAN]
      /\ \A a \in Addr : use[a] => a \in B
      /\ \A a \in B : use[a] => m.next[a] # 0
      /\ \A a \in B : m.next[a] # 0 => use[a] \/ use[m.next[a]]
  BY DEF UseInv
<1>3. /\ inUse \in [Addr -> BOOLEAN] /\ ~inUse[b]
      /\ \A a \in Addr \ {b} : inUse[a] = use[a]
  BY <1>1, <1>2
<1>4. CASE ~IsFree(m.prev[b], inUse)
  <2>1. c = b /\ n = m
    BY <1>4
  <2>2. Loose(B, n, inUse, c)
    <3>1. \A a \in Addr : inUse[a] => a \in B
      BY <1>2, <1>3
    <3>2. \A a \in B : inUse[a] => m.next[a] # 0
      BY <1>1, <1>2, <1>3
    <3>3. \A a \in B : m.next[a] # 0 /\ a # b /\ m.next[a] # b => inUse[a] \/ inUse[m.next[a]]
      BY <1>1, <1>2, <1>3
    <3>4. QED
      BY <1>3, <2>1, <3>1, <3>2, <3>3, Zenon DEF Loose
  <2>3. \A a \in B : n.next[a] = c => inUse[a]
    <3>1. ASSUME NEW a \in B, m.next[a] = b PROVE inUse[a]
      <4>1. m.prev[b] = a /\ a # 0
        BY <1>1, <3>1
      <4>2. QED
        BY <1>4, <4>1 DEF IsFree
    <3>2. QED
      BY <2>1, <3>1
  <2>4. QED
    BY <2>1, <2>2, <2>3 DEF HalfMerged
<1>5. CASE IsFree(m.prev[b], inUse)
  <2>1. c = m.prev[b] /\ n = Absorb(m, c, b) /\ c # 0 /\ ~inUse[c]
    BY <1>5 DEF IsFree
  <2>2. b # 32 /\ c \in B /\ m.next[c] = b /\ b # 0
    BY <1>1, <2>1
  <2>3. /\ Tiles(B \ {b}, n) /\ b # c /\ n.next[c] = m.next[b]
        /\ \A a \in Addr \ {c} : n.size[a] = m.size[a] /\ n.next[a] = m.next[a]
    <3>1. c \in B /\ b = m.next[c]
      BY <2>2
    <3>2. Tiles(B \ {b}, Absorb(m, c, b))
      BY <3>1, AbsorbTiles
    <3>3. Absorbs(m, c, b, Absorb(m, c, b))
      BY <3>1, AbsorbFields
    <3>4. QED
      BY <2>1, <3>2, <3>3 DEF Absorbs
  <2>4. ~use[c]
    BY <1>1, <1>3, <2>1, <2>2, <2>3
  <2>5. Loose(B \ {b}, n, inUse, c)
    <3>1. c \in B \ {b} /\ \A a \in Addr : inUse[a] => a \in B \ {b}
      BY <1>1, <1>2, <1>3, <2>2, <2>3
    <3>2. \A a \in B \ {b} : inUse[a] => n.next[a] # 0
      <4>1. \A a \in B \ {b} : inUse[a] => use[a] /\ a # c /\ a \in Addr
        BY <1>1, <1>3, <2>1
      <4>2. QED
        BY <1>2, <2>3, <4>1
    <3>3. ASSUME NEW a \in B \ {b}, n.next[a] # 0, a # c, n.next[a] # c
          PROVE  inUse[a] \/ inUse[n.next[a]]
      <4>1. n.next[a] = m.next[a] /\ m.next[a] \in B /\ (use[a] \/ use[m.next[a]])
        BY <1>1, <1>2, <2>3, <3>3
      <4>2. m.next[a] # b
        BY <1>1, <2>1, <3>3, <4>1
      <4>3. QED
        BY <1>1, <1>3, <4>1, <4>2
    <3>4. QED
      BY <1>3, <2>1, <3>1, <3>2, <3>3 DEF Loose
  <2>6. ASSUME NEW a \in B \ {b}, n.next[a] = c PROVE inUse[a]
    <3>1. c # 0 /\ c \in Addr
      BY <1>1, <2>2
    <3>2. a # c
      <4>1. n.next[c] # 0 => End(n, c) = n.next[c]
        <5>1. c \in B \ {b}
          BY <2>2, <2>3
        <5>2. QED
          BY <2>3, <5>1 DEF Tiles
      <4>2. End(n, c) # c
        BY <2>3, <3>1, AddrType, ShapeFields DEF Tiles, End
      <4>3. QED
        BY <2>6, <3>1, <4>1, <4>2
    <3>3. m.next[a] = c
      BY <1>1, <2>3, <2>6, <3>2
    <3>5. use[a] \/ use[c]
      BY <1>2, <2>6, <3>1, <3>3
    <3>4. QED
      BY <1>1, <1>3, <2>4, <3>5
  <2>7. \A a \in Addr : inUse[a] => n.size[a] = m.size[a]
    BY <2>1, <2>3
  <2>8. \A a \in B \ (B \ {b}) : ~inUse[a]
    BY <1>3
  <2>9. B \ {b} \in SUBSET B
    OBVIOUS
  <2>10. QED
    BY <2>3, <2>5, <2>6, <2>7, <2>8, <2>9 DEF HalfMerged
<1>6. QED
  BY <1>4, <1>5

LEMMA MergeForward ==
  ASSUME NEW B, NEW m, NEW inUse, NEW c, Tiles(B, m), Loose(B, m, inUse, c),
         \A a \in B : m.next[a] = c => inUse[a],
         NEW n, n = (IF IsFree(m.next[c], inUse) THEN Absorb(m, c, m.next[c]) ELSE m)
  PROVE  FullyMerged(B, m, inUse, n)
<1>1. /\ B \in SUBSET Addr /\ 0 \notin Addr
      /\ \A a \in B : m.next[a] # 0 => m.next[a] \in B /\ m.prev[m.next[a]] = a
  BY AddrType DEF Tiles
<1>2. /\ inUse \in [Addr -> BOOLEAN] /\ c \in B /\ ~inUse[c]
      /\ \A a \in Addr : inUse[a] => a \in B
      /\ \A a \in B : inUse[a] => m.next[a] # 0
      /\ \A a \in B : m.next[a] # 0 /\ a # c /\ m.next[a] # c => inUse[a] \/ inUse[m.next[a]]
  BY DEF Loose
<1>3. CASE ~IsFree(m.next[c], inUse)
  <2>1. n = m /\ (m.next[c] # 0 => inUse[m.next[c]])
    BY <1>3 DEF IsFree
  <2>2. \A a \in B : m.next[a] # 0 => inUse[a] \/ inUse[m.next[a]]
    BY <1>2, <2>1
  <2>3. UseInv(B, n, inUse)
    BY <1>2, <2>1, <2>2 DEF UseInv
  <2>4. QED
    BY <2>1, <2>3 DEF FullyMerged
<1>4. CASE IsFree(m.next[c], inUse)
  <2> DEFINE x == m.next[c]
  <2>1. n = Absorb(m, c, x) /\ x # 0 /\ ~inUse[x] /\ x \in B
    BY <1>1, <1>2, <1>4 DEF IsFree
  <2>2. /\ Tiles(B \ {x}, n) /\ x # c /\ n.next[c] = m.next[x] /\ m.prev[x] = c
        /\ \A a \in Addr \ {c} : n.size[a] = m.size[a] /\ n.next[a] = m.next[a]
    <3>1. Tiles(B \ {x}, Absorb(m, c, x))
      BY <1>2, <2>1, AbsorbTiles
    <3>2. Absorbs(m, c, x, Absorb(m, c, x))
      BY <1>2, <2>1, AbsorbFields
    <3> HIDE DEF x
    <3>3. QED
      BY <2>1, <3>1, <3>2 DEF Absorbs
  <2>3. m.next[x] # 0 => m.next[x] # c /\ inUse[m.next[x]]
    BY <1>2, <2>1, <2>2
  <2> HIDE DEF x
  <2>4. UseInv(B \ {x}, n, inUse)
    <3>1. \A a \in Addr : inUse[a] => a \in B \ {x}
      BY <1>2, <2>1
    <3>2. \A a \in B \ {x} : inUse[a] => n.next[a] # 0
      BY <1>1, <1>2, <2>2
    <3>3. ASSUME NEW a \in B \ {x}, n.next[a] # 0 PROVE inUse[a] \/ inUse[n.next[a]]
      <4>1. CASE a = c
        BY <2>2, <2>3, <3>3, <4>1
      <4>2. CASE a # c
        <5>1. n.next[a] = m.next[a]
          BY <1>1, <2>2, <4>2
        <5>2. QED
          BY <1>2, <3>3, <4>2, <5>1
      <4>3. QED
        BY <4>1, <4>2
    <3>4. QED
      BY <1>2, <3>1, <3>2, <3>3 DEF UseInv
  <2>5. /\ B \ {x} \in SUBSET B /\ \A a \in B \ (B \ {x}) : ~inUse[a]
        /\ \A a \in Addr : inUse[a] => n.size[a] = m.size[a]
    BY <1>2, <2>1, <2>2
  <2>6. QED
    BY <2>2, <2>4, <2>5 DEF FullyMerged
<1>5. QED
  BY <1>3, <1>4

LEMMA MergeKeepsTiles ==
  ASSUME NEW B, NEW m, NEW use, Tiles(B, m), UseInv(B, m, use), NEW b \in B, use[b],
         NEW inUse, inUse = [use EXCEPT ![b] = FALSE]
  PROVE  FullyMerged(B, m, inUse, Merged(m, b, inUse))
<1> DEFINE c == IF IsFree(m.prev[b], inUse) THEN m.prev[b] ELSE b
           n == IF IsFree(m.prev[b], inUse) THEN Absorb(m, c, b) ELSE m
           o == IF IsFree(n.next[c], inUse) THEN Absorb(n, c, n.next[c]) ELSE n
<1>1. Merged(m, b, inUse) = o
  BY DEF Merged
<1>2. HalfMerged(B, m, inUse, c, n)
  <2>1. c = (IF IsFree(m.prev[b], inUse) THEN m.prev[b] ELSE b)
    OBVIOUS
  <2>2. n = (IF IsFree(m.prev[b], inUse) THEN Absorb(m, c, b) ELSE m)
    OBVIOUS
  <2> HIDE DEF n, c
  <2>3. QED
    BY <2>1, <2>2, MergeBack
<1> HIDE DEF n, c
<1>3. PICK B1 \in SUBSET B :
           /\ Tiles(B1, n) /\ Loose(B1, n, inUse, c)
           /\ \A a \in B1 : n.next[a] = c => inUse[a]
           /\ \A a \in B \ B1 : ~inUse[a]
           /\ \A a \in Addr : inUse[a] => n.size[a] = m.size[a]
  BY <1>2 DEF HalfMerged
<1>4. FullyMerged(B1, n, inUse, o)
  BY <1>3, MergeForward
<1> HIDE DEF o
<1>5. PICK B2 \in SUBSET B1 :
           /\ Tiles(B2, o) /\ UseInv(B2, o, inUse)
           /\ \A a \in B1 \ B2 : ~inUse[a]
           /\ \A a \in Addr : inUse[a] => o.size[a] = n.size[a]
  BY <1>4 DEF FullyMerged
<1>6. QED
  BY <1>1, <1>3, <1>5 DEF FullyMerged

-----------------------------------------------------------------------------
(* Sizes.  Nothing wraps when a client asks for a size that leaves room for the    *)
(* header and the rest of a block below 2^32.                                  *)
MayBeAsked(n) == n \in Nat /\ n + Hdr + MinAlloc + Align <= Word

LEMMA Wraps ==
  ASSUME NEW x \in Nat, x < Word
  PROVE  x % Word = x /\ (x + Word) % Word = x
<1>1. Word \in Nat \ {0}
  BY Sizes
<1>2. QED
  BY <1>1

LEMMA AlignUpIs ==
  ASSUME NEW n \in Nat, n + 15 < Word
  PROVE  /\ AlignUp(n) \in Nat /\ AlignUp(n) % 16 = 0
         /\ n <= AlignUp(n) /\ AlignUp(n) <= n + 15
         /\ n % 16 = 0 => AlignUp(n) = n
<1>1. (n + 15) % Word = n + 15
  BY Wraps
<1>2. AlignUp(n) = ((n + 15) \div 16) * 16
  BY <1>1 DEF AlignUp
<1>3. QED
  BY <1>2

FreeBlocks(B, n) == {b \in B : ~allocated[b] /\ Fits(b, AlignUp(n))}

LEMMA FirstFitIs ==
  ASSUME NEW B, Tiles(B, Links), NEW n
  PROVE  /\ ~Admits(n) \/ FreeBlocks(B, n) = {} => FirstFit(n) = 0
         /\ Admits(n) /\ FreeBlocks(B, n) # {} => FirstFit(n) \in FreeBlocks(B, n)
<1> DEFINE c  == Chain
           ok == {i \in DOMAIN c : ~allocated[c[i]] /\ Fits(c[i], AlignUp(n))}
           first == CHOOSE i \in ok : \A j \in ok : i <= j
<1>1. FirstFit(n) = IF ~Admits(n) \/ ok = {} THEN 0 ELSE c[first]
  BY DEF FirstFit
<1>2. c \in Seq(B) /\ Blocks = B
  BY ChainVisitsAll
<1>3. DOMAIN c \in SUBSET Nat /\ B = {c[i] : i \in DOMAIN c}
  BY <1>2 DEF Blocks, Range
<1> HIDE DEF c
<1>4. ok # {} <=> FreeBlocks(B, n) # {}
  BY <1>3 DEF FreeBlocks
<1>5. ASSUME ok # {} PROVE c[first] \in FreeBlocks(B, n)
  <2>1. ok \in SUBSET Nat
    BY <1>3
  <2>2. \E i \in ok : \A j \in ok : i <= j
    <3> HIDE DEF ok
    <3>1. QED
      BY <1>5, <2>1, LeastNat
  <2>3. first \in ok
    BY <2>2
  <2> HIDE DEF first
  <2>4. QED
    BY <1>3, <2>3 DEF FreeBlocks
<1> HIDE DEF ok, first
<1>6. QED
  BY <1>1, <1>4, <1>5

LEMMA BlockEnds ==
  ASSUME NEW B, NEW m, Tiles(B, m), NEW b \in B
  PROVE  /\ b \in Addr /\ m.size[b] \in Nat /\ m.size[b] % 16 = 0
         /\ b + 16 + m.size[b] <= Top
<1>1. b \in Addr /\ m.size[b] \in Nat /\ m.size[b] % 16 = 0
  BY ShapeFields DEF Tiles
<1>2. End(m, b) = Top \/ End(m, b) \in Addr
  BY DEF Tiles
<1>3. \A a \in Addr : a <= Top
  BY AddrIs, AddrType, Sizes
<1>4. End(m, b) <= Top
  BY <1>2, <1>3, Sizes
<1>5. QED
  BY <1>1, <1>4 DEF End

(* A block that fits is always split, inside the heap.                          *)
LEMMA FitsMeans ==
  ASSUME NEW B, Tiles(B, Links), NEW n, MayBeAsked(n), NEW b \in B
  PROVE  Fits(b, AlignUp(n)) <=> AlignUp(n) + 20 <= size[b]
<1>1. AlignUp(n) \in Nat /\ AlignUp(n) <= n + 15 /\ n \in Nat /\ n + 36 <= Word /\ Word \in Nat
  BY AlignUpIs, Sizes DEF MayBeAsked
<1> DEFINE k == AlignUp(n)
<1> HIDE DEF k
<1>2. 16 + k + 4 \in Nat /\ 16 + k + 4 < Word
  BY <1>1 DEF k
<1>3. (16 + k + 4) % Word = 16 + k + 4
  BY <1>2, Wraps
<1>4. size[b] \in Nat
  BY ShapeFields DEF Tiles, Links
<1>5. QED
  BY <1>1, <1>2, <1>3, <1>4 DEF Fits, k

LEMMA FitSplits ==
  ASSUME NEW B, Tiles(B, Links), NEW n, MayBeAsked(n), NEW b \in B, Fits(b, AlignUp(n)),
         NEW k, k = AlignUp(n)
  PROVE  /\ k \in Nat /\ k % 16 = 0 /\ n <= k /\ k + 32 <= size[b]
         /\ Splits(b, k) /\ RestSize(b, k) = size[b] - k - 16
         /\ (b + 16 + k) % Word = b + 16 + k /\ b + 16 + k \in Addr
<1>1. k \in Nat /\ k % 16 = 0 /\ n <= k /\ k + 20 <= size[b] /\ n \in Nat
  <2>1. n \in Nat /\ n + 15 < Word
    BY Sizes DEF MayBeAsked
  <2>2. AlignUp(n) + 20 <= size[b]
    BY FitsMeans
  <2>3. QED
    BY <2>1, <2>2, AlignUpIs
<1>2. size[b] \in Nat /\ size[b] % 16 = 0 /\ b \in Addr /\ b + 16 + size[b] <= Top
  BY BlockEnds DEF Links
<1>3. b \in Nat /\ b % 16 = 0 /\ b >= 32 /\ Top \in Nat /\ Word \in Nat /\ Top < Word
  BY <1>2, AddrIs, AddrType, Sizes
<1>4. b + 16 + size[b] <= Top
  BY <1>2
<1>5. k + 32 <= size[b]
  BY <1>1, <1>2
<1>6. (size[b] - k + Word) % Word = size[b] - k
  <2>1. size[b] - k \in Nat /\ size[b] - k < Word
    BY <1>1, <1>2, <1>3, <1>4, <1>5
  <2>2. QED
    BY <2>1, Wraps
<1>7. (size[b] - k - 16 + Word) % Word = size[b] - k - 16
  <2>1. size[b] - k - 16 \in Nat /\ size[b] - k - 16 < Word
    BY <1>1, <1>2, <1>3, <1>4, <1>5
  <2>2. QED
    BY <2>1, Wraps
<1>8. b + 16 + k \in Nat /\ b + 16 + k < Word /\ (b + 16 + k) % 16 = 0 /\ b + 32 + k <= Top
  BY <1>1, <1>2, <1>3, <1>4, <1>5
<1>9. b + 16 + k \in Addr
  <2>1. 32 <= b + 16 + k /\ (b + 16 + k) + 16 <= Top
    BY <1>1, <1>3, <1>8
  <2>2. QED
    BY <1>8, <2>1, AddrIs
<1>10. (b + 16 + k) % Word = b + 16 + k
  BY <1>8, Wraps
<1>11. Splits(b, k)
  BY <1>1, <1>2, <1>5, <1>6 DEF Splits
<1>12. QED
  BY <1>1, <1>5, <1>7, <1>9, <1>10, <1>11 DEF RestSize

-----------------------------------------------------------------------------
(* What one call does to the blocks B.                                           *)
LEMMA CutKeepsBlocks ==
  ASSUME NEW B, BlockInv(B), NEW b \in B, ~allocated[b],
         NEW k \in Nat, k % 16 = 0, k + 16 <= size[b], NEW r \in Addr, r = b + 16 + k,
         r = (b + 16 + k) % Word, RestSize(b, k) = size[b] - k - 16,
         Split(b, k), total_allocated' = Charge(k)
  PROVE  /\ BlockInv(B \union {r})'
         /\ allocated' = [allocated EXCEPT ![b] = TRUE]
         /\ size'[b] = k /\ \A a \in Addr : allocated[a] => size'[a] = size[a]
<1>1. /\ Tiles(B, Links) /\ UseInv(B, Links, allocated)
      /\ total_allocated = SumFunctionOnSet(Occupied(Links), {a \in B : allocated[a]})
  BY DEF BlockInv
<1>2. /\ B \in SUBSET Addr /\ b \in Addr /\ b # r
      /\ Links.size = size /\ Links.next = next /\ Links.prev = prev
      /\ b \in Nat /\ r \in Nat
  BY <1>1, AddrType DEF Tiles, Links
<1>3. Links' = Cut(Links, b, k)
  BY <1>2 DEF Split, Cut, Links
<1>4. IsCut(B, Links, b, k, r, Cut(Links, b, k))
  <2>1. k + 16 <= Links.size[b]
    BY <1>2
  <2>2. QED
    BY <1>1, <2>1, CutTiles
<1>5. IsCut(B, Links, b, k, r, Links')
  BY <1>3, <1>4
<1>6. Tiles(B \union {r}, Links')
  BY <1>5 DEF IsCut
<1>7. /\ r \notin B /\ size'[b] = k /\ next'[b] = r /\ next'[r] = next[b]
      /\ \A a \in Addr \ {b, r} : size'[a] = size[a] /\ next'[a] = next[a]
  BY <1>2, <1>5 DEF IsCut, Links
<1>8. /\ allocated \in [Addr -> BOOLEAN] /\ ~allocated[r]
      /\ \A a \in Addr : allocated[a] => a \in B
      /\ \A a \in B : allocated[a] => next[a] # 0
      /\ \A a \in B : next[a] # 0 => allocated[a] \/ allocated[next[a]]
  BY <1>1, <1>2, <1>7 DEF UseInv
<1>9. allocated' = [allocated EXCEPT ![b] = TRUE]
  <2>1. allocated' = [allocated EXCEPT ![r] = FALSE, ![b] = TRUE]
    BY DEF Split
  <2>2. QED
    BY <1>8, <2>1
<1>10. /\ allocated' \in [Addr -> BOOLEAN] /\ allocated'[b]
       /\ \A a \in Addr \ {b} : allocated'[a] = allocated[a]
  BY <1>2, <1>8, <1>9
<1>11. UseInv(B \union {r}, Links', allocated')
  <2>1. \A a \in Addr : allocated'[a] => a \in B
    BY <1>8, <1>10
  <2>2. ASSUME NEW a \in B \union {r}, allocated'[a] PROVE next'[a] # 0
    BY <1>2, <1>7, <1>8, <1>10, <2>2, AddrType
  <2>3. ASSUME NEW a \in B \union {r}, next'[a] # 0
        PROVE  allocated'[a] \/ allocated'[next'[a]]
    <3>1. CASE a = b
      BY <1>10, <3>1
    <3>2. CASE a = r
      <4>1. next[b] # 0 /\ next'[a] = next[b]
        BY <1>7, <2>3, <3>2
      <4>2. allocated[next[b]] /\ next[b] \in B /\ next[b] # b
        BY <1>1, <1>2, <1>8, <4>1 DEF Tiles
      <4>3. QED
        BY <1>2, <1>10, <4>1, <4>2
    <3>3. CASE a # b /\ a # r
      <4>1. a \in B /\ next'[a] = next[a]
        BY <1>2, <1>7, <3>3
      <4>2. next[a] \in B
        BY <1>1, <1>2, <2>3, <4>1 DEF Tiles
      <4>3. QED
        BY <1>2, <1>8, <1>10, <2>3, <3>3, <4>1, <4>2
    <3>4. QED
      BY <3>1, <3>2, <3>3
  <2>4. QED
    BY <1>10, <2>1, <2>2, <2>3 DEF UseInv, Links
<1>12. total_allocated' = SumFunctionOnSet(Occupied(Links'), {a \in B \union {r} : allocated'[a]})
  <2> DEFINE f == Occupied(Links)
             g == Occupied(Links')
             used == {a \in B : allocated[a]}
             more == {a \in B \union {r} : allocated'[a]}
  <2>1. /\ f \in [Addr -> Nat] /\ g \in [Addr -> Nat]
        /\ \A a \in Addr : f[a] = 16 + size[a] /\ g[a] = 16 + size'[a]
    <3>1. Links \in Shape /\ Links' \in Shape
      BY <1>1, <1>6 DEF Tiles
    <3>2. Links'.size = size'
      BY DEF Links
    <3>3. QED
      BY <1>2, <3>1, <3>2, ShapeFields
  <2>2. used \in SUBSET Addr /\ \A a \in used : f[a] = g[a]
    <3>1. \A a \in used : a \in Addr \ {b, r}
      BY <1>2, <1>7
    <3> HIDE DEF f, g, used
    <3>2. ASSUME NEW a \in used PROVE f[a] = g[a]
      <4>1. size'[a] = size[a]
        BY <1>7, <3>1
      <4>2. f[a] = 16 + size[a] /\ g[a] = 16 + size'[a]
        BY <2>1, <3>1
      <4>3. QED
        BY <4>1, <4>2
    <3>3. QED
      BY <3>1, <3>2
  <2>3. more = used \union {b} /\ b \notin used /\ more \in SUBSET Addr
    BY <1>2, <1>7, <1>8, <1>10
  <2>4. total_allocated = SumFunctionOnSet(f, used)
    BY <1>1
  <2>5. g[b] = 16 + k
    BY <1>2, <1>7, <2>1
  <2> HIDE DEF f, g, used, more
  <2>6. SumFunctionOnSet(g, more) = g[b] + SumFunctionOnSet(g, more \ {b})
    <3>1. b \in more
      BY <2>3
    <3>2. QED
      BY <2>1, <2>3, <3>1, AddrSums
  <2>7. more \ {b} = used
    BY <2>3
  <2>8. SumFunctionOnSet(f, used) = SumFunctionOnSet(g, used) /\ SumFunctionOnSet(f, used) \in Nat
    BY <2>1, <2>2, SameSums, AddrSums
  <2>9. total_allocated' = SumFunctionOnSet(g, more)
    <3>1. total_allocated' = total_allocated + 16 + k
      BY DEF Charge
    <3>2. SumFunctionOnSet(g, more) = 16 + k + SumFunctionOnSet(g, used)
      BY <2>5, <2>6, <2>7
    <3>3. QED
      BY <2>4, <2>8, <3>1, <3>2
  <2>10. QED
    BY <2>9 DEF g, more
<1>13. BlockInv(B \union {r})'
  BY <1>6, <1>11, <1>12 DEF BlockInv
<1>14. QED
  BY <1>7, <1>8, <1>9, <1>13

LEMMA MergeKeepsBlocks ==
  ASSUME NEW B, BlockInv(B), NEW b \in B, allocated[b],
         allocated' = [allocated EXCEPT ![b] = FALSE],
         size' = Merged(Links, b, allocated').size, prev' = Merged(Links, b, allocated').prev,
         next' = Merged(Links, b, allocated').next, total_allocated' = Release(b)
  PROVE  /\ \E B1 \in SUBSET B : B1 \in SUBSET Addr /\ BlockInv(B1)'
         /\ \A a \in Addr : allocated'[a] => size'[a] = size[a]
<1>1. /\ Tiles(B, Links) /\ UseInv(B, Links, allocated)
      /\ total_allocated = SumFunctionOnSet(Occupied(Links), {a \in B : allocated[a]})
  BY DEF BlockInv
<1>2. FullyMerged(B, Links, allocated', Merged(Links, b, allocated'))
  BY <1>1, MergeKeepsTiles
<1> DEFINE n == Merged(Links, b, allocated')
<1>3. PICK B1 \in SUBSET B :
        /\ Tiles(B1, n) /\ UseInv(B1, n, allocated')
        /\ \A a \in B \ B1 : ~allocated'[a]
        /\ \A a \in Addr : allocated'[a] => n.size[a] = Links.size[a]
  BY <1>2 DEF FullyMerged
<1> HIDE DEF n
<1>4. n = Links'
  <2>1. n \in Shape
    BY <1>3 DEF Tiles
  <2>2. n = [size |-> n.size, prev |-> n.prev, next |-> n.next]
    BY <2>1 DEF Shape
  <2>3. size' = n.size /\ prev' = n.prev /\ next' = n.next
    BY DEF n
  <2>4. QED
    BY <2>2, <2>3 DEF Links
<1>5. /\ B \in SUBSET Addr /\ B1 \in SUBSET Addr /\ b \in Addr
      /\ Links.size = size /\ Links'.size = size'
  BY <1>1, <1>3 DEF Tiles, Links
<1>6. /\ allocated \in [Addr -> BOOLEAN] /\ ~allocated'[b]
      /\ \A a \in Addr \ {b} : allocated'[a] = allocated[a]
  BY <1>1, <1>5 DEF UseInv
<1>7. \A a \in Addr : allocated'[a] => size'[a] = size[a]
  BY <1>3, <1>4, <1>5
<1>8. AlignUp(size[b]) = size[b] /\ size[b] \in Nat
  <2>1. size[b] \in Nat /\ size[b] % 16 = 0 /\ b + 16 + size[b] <= Top /\ b \in Nat
    BY <1>1, <1>5, BlockEnds, AddrType
  <2>2. size[b] + 15 < Word
    BY <2>1, Sizes
  <2>3. QED
    BY <2>1, <2>2, AlignUpIs
<1>9. total_allocated' = SumFunctionOnSet(Occupied(Links'), {a \in B1 : allocated'[a]})
  <2> DEFINE f == Occupied(Links)
             g == Occupied(Links')
             used == {a \in B : allocated[a]}
             less == {a \in B1 : allocated'[a]}
  <2>1. /\ f \in [Addr -> Nat] /\ g \in [Addr -> Nat]
        /\ \A a \in Addr : f[a] = 16 + size[a] /\ g[a] = 16 + size'[a]
    <3>1. Links \in Shape /\ Links' \in Shape
      BY <1>1, <1>3, <1>4 DEF Tiles
    <3>2. QED
      BY <1>5, <3>1, ShapeFields
  <2>2. less = used \ {b} /\ b \in used /\ used \in SUBSET Addr
    BY <1>3, <1>5, <1>6
  <2>3. \A a \in less : a \in Addr /\ size'[a] = size[a]
    BY <1>5, <1>7
  <2>4. total_allocated = SumFunctionOnSet(f, used)
    BY <1>1
  <2> HIDE DEF f, g, used, less
  <2>5. ASSUME NEW a \in less PROVE f[a] = g[a]
    <3>1. f[a] = 16 + size[a] /\ g[a] = 16 + size'[a]
      BY <2>1, <2>3
    <3>2. QED
      BY <2>3, <3>1
  <2>6. SumFunctionOnSet(f, used) = f[b] + SumFunctionOnSet(f, less)
    BY <2>1, <2>2, AddrSums
  <2>7. less \in SUBSET Addr
    BY <2>3
  <2>8. SumFunctionOnSet(f, less) = SumFunctionOnSet(g, less) /\ SumFunctionOnSet(f, less) \in Nat
    BY <2>1, <2>5, <2>7, SameSums, AddrSums
  <2>9. f[b] = 16 + size[b]
    BY <1>5, <2>1
  <2>10. total_allocated' = total_allocated - 16 - size[b]
    BY <1>8 DEF Release
  <2>11. total_allocated' = SumFunctionOnSet(g, less)
    BY <1>8, <2>4, <2>6, <2>8, <2>9, <2>10
  <2>12. QED
    BY <2>11 DEF g, less
<1>10. BlockInv(B1)'
  BY <1>3, <1>4, <1>9 DEF BlockInv
<1>11. QED
  BY <1>5, <1>7, <1>10

-----------------------------------------------------------------------------
(* What the two calls do.  An allocation that succeeds takes a free block; the      *)
(* release of a pointer that is held frees its block.                            *)
Takes(n, b) ==
  /\ b = FirstFit(n) /\ b # NULL /\ ~allocated[b]
  /\ allocated' = [allocated EXCEPT ![b] = TRUE]
  /\ live' = [p \in DOMAIN live \union {b + 16} |-> IF p = b + 16 THEN n ELSE live[p]]
  /\ freed' = freed \ {b + 16}
  /\ n <= size'[b] /\ \A a \in Addr : allocated[a] => size'[a] = size[a]

GivesBack(p) ==
  /\ p - 16 \in Addr /\ allocated[p - 16]
  /\ allocated' = [allocated EXCEPT ![p - 16] = FALSE]
  /\ live' = Restrict(live, DOMAIN live \ {p}) /\ freed' = freed \union {p}
  /\ \A a \in Addr : allocated'[a] => size'[a] = size[a]

LEMMA AllocTakes ==
  ASSUME HeapInv, NEW n, MayBeAsked(n), Alloc(n)
  PROVE  /\ status' = "ok"
         /\ \/ FirstFit(n) = NULL /\ UNCHANGED vars
            \/ \E b \in Addr : Takes(n, b) /\ \E B \in SUBSET Addr : BlockInv(B)' /\ Clean(B)'
<1>1. PICK B \in SUBSET Addr : BlockInv(B) /\ Clean(B)
  BY DEF HeapInv
<1>2. Tiles(B, Links)
  BY <1>1 DEF BlockInv
<1>3. status = "ok"
  BY DEF Alloc
<1>4. CASE FirstFit(n) = 0
  BY <1>3, <1>4 DEF Alloc, vars
<1>5. CASE FirstFit(n) # 0
  <2>1. FirstFit(n) \in FreeBlocks(B, n)
    BY <1>2, <1>5, FirstFitIs
  <2>2. PICK b \in B : b = FirstFit(n) /\ ~allocated[b] /\ Fits(b, AlignUp(n))
    BY <2>1 DEF FreeBlocks
  <2>3. PICK k : k = AlignUp(n)
    OBVIOUS
  <2>4. /\ k \in Nat /\ k % 16 = 0 /\ n <= k /\ k + 32 <= size[b]
        /\ Splits(b, k) /\ RestSize(b, k) = size[b] - k - 16
        /\ (b + 16 + k) % Word = b + 16 + k /\ b + 16 + k \in Addr
    BY <1>2, <2>2, <2>3, FitSplits
  <2>5. /\ Split(b, k) /\ total_allocated' = Charge(k)
        /\ live' = [p \in DOMAIN live \union {b + 16} |-> IF p = b + 16 THEN n ELSE live[p]]
        /\ freed' = freed \ {b + 16} /\ status' = status
        /\ soiled' = (soiled \ {b + 16 + k}) \union Covered(b, n)
    BY <1>5, <2>2, <2>3, <2>4 DEF Alloc
  <2>6. k + 16 <= size[b]
    BY <1>2, <2>2, <2>4, BlockEnds DEF Links
  <2>7. /\ BlockInv(B \union {b + 16 + k})'
        /\ allocated' = [allocated EXCEPT ![b] = TRUE]
        /\ size'[b] = k /\ \A a \in Addr : allocated[a] => size'[a] = size[a]
    BY <1>1, <2>2, <2>4, <2>5, <2>6, CutKeepsBlocks
  <2>8. Takes(n, b)
    BY <1>5, <2>2, <2>4, <2>5, <2>7 DEF Takes
  <2>9. B \union {b + 16 + k} \in SUBSET Addr
    BY <2>4
  <2>10. ASSUME NEW a \in B \union {b + 16 + k} PROVE a \notin soiled'
    <3>1. a \in Nat /\ b \in Nat /\ n \in Nat
      BY <2>2, <2>9, AddrType DEF MayBeAsked
    <3>2. CASE a = b + 16 + k
      BY <2>4, <2>5, <3>1, <3>2 DEF Covered
    <3>3. CASE a # b + 16 + k
      <4>1. a \in B /\ a \notin soiled
        BY <1>1, <3>3 DEF Clean
      <4>2. size[b] \in Nat /\ (b < a => b + 16 + size[b] <= a)
        BY <1>2, <2>2, <4>1, BlockEnds DEF Tiles, End, Links
      <4>3. a \notin Covered(b, n)
        BY <2>4, <3>1, <4>2 DEF Covered
      <4>4. QED
        BY <2>5, <4>1, <4>3
    <3>4. QED
      BY <3>2, <3>3
  <2>11. Clean(B \union {b + 16 + k})'
    BY <2>10 DEF Clean
  <2>12. QED
    BY <1>3, <2>5, <2>7, <2>8, <2>9, <2>11
<1>6. QED
  BY <1>4, <1>5

LEMMA AllocKeepsInv ==
  ASSUME HeapInv, NEW n, MayBeAsked(n), Alloc(n)
  PROVE  HeapInv'
<1>1. CASE UNCHANGED vars
  BY <1>1 DEF HeapInv, ClientInv, BlockInv, Clean, vars, memory, Links
<1>2. CASE \E b \in Addr : Takes(n, b) /\ \E B \in SUBSET Addr : BlockInv(B)' /\ Clean(B)'
  <2>1. PICK b \in Addr : Takes(n, b) /\ \E B \in SUBSET Addr : BlockInv(B)' /\ Clean(B)'
    BY <1>2
  <2>2. b \in Nat /\ n \in Nat /\ Addr \in SUBSET Nat
    BY AddrType DEF MayBeAsked
  <2>3. ClientInv'
    <3>1. PICK B : UseInv(B, Links, allocated)
      BY DEF HeapInv, BlockInv
    <3>2. /\ allocated \in [Addr -> BOOLEAN] /\ allocated'[b]
          /\ \A a \in Addr \ {b} : allocated'[a] = allocated[a]
      BY <2>1, <3>1 DEF Takes, UseInv
    <3>3. DOMAIN live' = {a + 16 : a \in {c \in Addr : allocated'[c]}}
      <4>1. {c \in Addr : allocated'[c]} = {c \in Addr : allocated[c]} \union {b}
        BY <3>2
      <4>2. DOMAIN live' = DOMAIN live \union {b + 16}
        BY <2>1 DEF Takes
      <4>3. DOMAIN live = {a + 16 : a \in {c \in Addr : allocated[c]}}
        BY DEF HeapInv, ClientInv
      <4>4. QED
        BY <4>1, <4>2, <4>3
    <3>4. ASSUME NEW p \in DOMAIN live' PROVE live'[p] \in Nat /\ size'[p - 16] >= live'[p]
      <4>1. CASE p = b + 16
        BY <2>1, <2>2, <4>1 DEF Takes
      <4>2. CASE p # b + 16
        <5>1. p \in DOMAIN live /\ live'[p] = live[p]
          BY <2>1, <4>2 DEF Takes
        <5>2. live[p] \in Nat /\ size[p - 16] >= live[p]
          BY <5>1 DEF HeapInv, ClientInv
        <5>3. p - 16 \in Addr /\ allocated[p - 16]
          BY <2>2, <5>1 DEF HeapInv, ClientInv
        <5>4. size'[p - 16] = size[p - 16]
          BY <2>1, <5>3 DEF Takes
        <5>5. QED
          BY <5>1, <5>2, <5>4
      <4>3. QED
        BY <4>1, <4>2
    <3>5. freed' \in SUBSET {a + 16 : a \in Addr}
      BY <2>1 DEF Takes, HeapInv, ClientInv
    <3>6. ASSUME NEW p \in freed' PROVE ~allocated'[p - 16]
      <4>1. p \in freed /\ p # b + 16
        BY <2>1 DEF Takes
      <4>2. PICK a \in Addr : p = a + 16
        BY <4>1 DEF HeapInv, ClientInv
      <4>3. a \in Nat /\ p - 16 = a /\ a # b
        BY <2>2, <4>1, <4>2
      <4>4. ~allocated[p - 16]
        BY <4>1 DEF HeapInv, ClientInv
      <4>5. QED
        BY <3>2, <4>3, <4>4
    <3>7. QED
      BY <3>3, <3>4, <3>5, <3>6 DEF ClientInv
  <2>4. QED
    BY <2>1, <2>3 DEF HeapInv
<1>3. QED
  BY <1>1, <1>2, AllocTakes

LEMMA FreeGives ==
  ASSUME HeapInv, NEW p \in DOMAIN live, Free(p)
  PROVE  status' = "ok" /\ GivesBack(p) /\ \E B \in SUBSET Addr : BlockInv(B)' /\ Clean(B)'
<1>1. PICK B \in SUBSET Addr : BlockInv(B) /\ Clean(B)
  BY DEF HeapInv
<1>2. PICK b \in Addr : allocated[b] /\ p = b + 16
  BY DEF HeapInv, ClientInv
<1>3. b \in B /\ p - 16 = b /\ b \notin soiled
  BY <1>1, <1>2, AddrType DEF BlockInv, UseInv, Clean
<1> DEFINE inUse == [allocated EXCEPT ![b] = FALSE]
           m == Merged([size |-> size, prev |-> prev, next |-> next], b, inUse)
<1>4. /\ status' = status /\ status = "ok" /\ allocated' = inUse /\ total_allocated' = Release(b)
      /\ size' = m.size /\ prev' = m.prev /\ next' = m.next
      /\ live' = Restrict(live, DOMAIN live \ {p}) /\ freed' = freed \union {p}
      /\ soiled' = soiled
  BY <1>2, <1>3 DEF Free, FreeHeap
<1>5. m = Merged(Links, b, allocated')
  BY <1>4 DEF Links
<1> HIDE DEF m
<1>6. /\ \E B1 \in SUBSET B : B1 \in SUBSET Addr /\ BlockInv(B1)'
      /\ \A a \in Addr : allocated'[a] => size'[a] = size[a]
  BY <1>1, <1>2, <1>3, <1>4, <1>5, MergeKeepsBlocks
<1>7. \A B1 \in SUBSET B : Clean(B1)'
  BY <1>1, <1>4 DEF Clean
<1>8. QED
  BY <1>2, <1>3, <1>4, <1>6, <1>7 DEF GivesBack

LEMMA FreeKeepsInv ==
  ASSUME HeapInv, NEW p \in DOMAIN live, Free(p)
  PROVE  HeapInv'
<1>1. GivesBack(p) /\ \E B \in SUBSET Addr : BlockInv(B)' /\ Clean(B)'
  BY FreeGives
<1>2. PICK b \in Addr : allocated[b] /\ p = b + 16 /\ b \in Nat /\ p - 16 = b
  BY AddrType DEF HeapInv, ClientInv
<1>3. PICK B : UseInv(B, Links, allocated)
  BY DEF HeapInv, BlockInv
<1>4. /\ allocated \in [Addr -> BOOLEAN] /\ ~allocated'[b]
      /\ \A a \in Addr \ {b} : allocated'[a] = allocated[a]
  BY <1>1, <1>2, <1>3 DEF GivesBack, UseInv
<1>5. DOMAIN live' = DOMAIN live \ {p} /\ \A q \in DOMAIN live' : live'[q] = live[q]
  BY <1>1 DEF GivesBack, Restrict
<1>6. DOMAIN live = {a + 16 : a \in {c \in Addr : allocated[c]}}
  BY DEF HeapInv, ClientInv
<1>7. DOMAIN live' = {a + 16 : a \in {c \in Addr : allocated'[c]}}
  <2>1. ASSUME NEW q \in DOMAIN live'
        PROVE  \E a \in Addr : allocated'[a] /\ q = a + 16
    BY <1>2, <1>4, <1>5, <1>6
  <2>2. ASSUME NEW a \in Addr, allocated'[a] PROVE a + 16 \in DOMAIN live'
    <3>1. a # b /\ allocated[a] /\ a + 16 # p
      BY <1>2, <1>4, <2>2, AddrType
    <3>2. QED
      BY <1>5, <1>6, <3>1
  <2>3. QED
    BY <2>1, <2>2
<1>8. ASSUME NEW q \in DOMAIN live' PROVE live'[q] \in Nat /\ size'[q - 16] >= live'[q]
  <2>1. q \in DOMAIN live /\ live'[q] = live[q] /\ live[q] \in Nat /\ size[q - 16] >= live[q]
    BY <1>5 DEF HeapInv, ClientInv
  <2>2. q - 16 \in Addr /\ allocated'[q - 16]
    BY <1>7, AddrType
  <2>3. size'[q - 16] = size[q - 16]
    BY <1>1, <2>2 DEF GivesBack
  <2>4. QED
    BY <2>1, <2>3
<1>9. freed' \in SUBSET {a + 16 : a \in Addr}
  BY <1>1, <1>2 DEF GivesBack, HeapInv, ClientInv
<1>10. ASSUME NEW q \in freed' PROVE ~allocated'[q - 16]
  <2>1. CASE q = p
    BY <1>2, <1>4, <2>1
  <2>2. CASE q # p
    <3>1. q \in freed /\ ~allocated[q - 16]
      BY <1>1, <2>2 DEF GivesBack, HeapInv, ClientInv
    <3>2. PICK a \in Addr : q = a + 16
      BY <3>1 DEF HeapInv, ClientInv
    <3>3. q - 16 \in Addr \ {b}
      BY <1>2, <2>2, <3>2, AddrType
    <3>4. QED
      BY <1>4, <3>1, <3>3
  <2>3. QED
    BY <2>1, <2>2
<1>11. ClientInv'
  BY <1>7, <1>8, <1>9, <1>10 DEF ClientInv
<1>12. QED
  BY <1>1, <1>11 DEF HeapInv

-----------------------------------------------------------------------------
(* The inductive invariant.                                                     *)
LEMMA InitInv == Init => IInv
<1> SUFFICES ASSUME Init PROVE IInv
  OBVIOUS
<1>1. /\ size = [a \in Addr |-> IF a = 32 THEN HeapSize - 16 ELSE 0]
      /\ allocated = [a \in Addr |-> FALSE] /\ prev = [a \in Addr |-> 0]
      /\ next = [a \in Addr |-> 0] /\ total_allocated = 0
      /\ live = [p \in {} |-> 0] /\ freed = {} /\ soiled = {} /\ status = "ok"
  BY DEF Init
<1>2. 32 \in Addr /\ HeapSize - 16 \in Nat /\ (HeapSize - 16) % 16 = 0
  BY AddrType, Sizes
<1>3. Links \in Shape
  BY <1>1, <1>2 DEF Links, Shape
<1>4. Links.size[32] = HeapSize - 16 /\ Links.next[32] = 0 /\ Links.prev[32] = 0
  BY <1>1, <1>2 DEF Links
<1>5. SumFunctionOnSet(Occupied(Links), {32}) = HeapSize
  <2> DEFINE f == Occupied(Links)
  <2>1. f \in [Addr -> Nat] /\ f[32] = 16 + (HeapSize - 16)
    BY <1>2, <1>3, <1>4, ShapeFields
  <2> HIDE DEF f
  <2>2. SumFunctionOnSet(f, {32}) = f[32] + SumFunctionOnSet(f, {32} \ {32})
    BY <1>2, <2>1, AddrSums
  <2>3. {32} \ {32} = {} /\ SumFunctionOnSet(f, {}) = 0
    BY SumOfNone
  <2>4. SumFunctionOnSet(f, {32}) = HeapSize
    BY <2>1, <2>2, <2>3, Sizes
  <2>5. QED
    BY <2>4 DEF f
<1>6. Tiles({32}, Links)
  <2>1. End(Links, 32) = Top
    BY <1>4, Sizes DEF End
  <2>2. \A a, b \in {32} : ~(a < b)
    OBVIOUS
  <2>3. QED
    BY <1>2, <1>3, <1>4, <1>5, <2>1, <2>2 DEF Tiles
<1>7. UseInv({32}, Links, allocated)
  BY <1>1, <1>2, <1>4 DEF UseInv
<1>8. total_allocated = SumFunctionOnSet(Occupied(Links), {b \in {32} : allocated[b]})
  <2>1. {b \in {32} : allocated[b]} = {}
    BY <1>1, <1>2
  <2>2. QED
    BY <1>1, <2>1, SumOfNone
<1>9. BlockInv({32})
  BY <1>6, <1>7, <1>8 DEF BlockInv
<1>10. ClientInv
  BY <1>1 DEF ClientInv
<1>11. HeapInv
  BY <1>1, <1>2, <1>9, <1>10 DEF HeapInv, Clean
<1>12. QED
  BY <1>1, <1>11 DEF IInv

LEMMA Requested ==
  ASSUME NoWrap, NEW n \in Requests
  PROVE  MayBeAsked(n)
  BY HeapAssumption, Sizes DEF NoWrap, MayBeAsked

(* A pointer that was given back heads no block in use: free_heap stops the kernel,  *)
(* unless it reads a flag that a client may have written.                         *)
LEMMA FreeAgainStops ==
  ASSUME HeapInv, FreeAgain
  PROVE  /\ UNCHANGED <<memory, total_allocated, live, freed, soiled>>
         /\ \/ status' = "panic" /\ freed # {}
            \/ status' = "corrupt" /\ \E p \in freed : p - 16 \in soiled
<1>1. PICK p \in freed : Free(p)
  BY DEF FreeAgain
<1>2. ~allocated[p - 16]
  BY DEF HeapInv, ClientInv
<1>3. CASE p - 16 \in soiled
  BY <1>1, <1>3 DEF Free, FreeHeap
<1>4. CASE p - 16 \notin soiled
  BY <1>1, <1>2, <1>4 DEF Free, FreeHeap
<1>5. QED
  BY <1>3, <1>4

LEMMA StepInv == NoWrap /\ IInv /\ [Next]_vars => IInv'
<1> SUFFICES ASSUME NoWrap, IInv, [Next]_vars PROVE IInv'
  OBVIOUS
<1>1. HeapInv
  BY DEF IInv
<1>2. ASSUME NEW n \in Requests, Alloc(n) PROVE IInv'
  <2>1. MayBeAsked(n)
    BY Requested
  <2>2. HeapInv' /\ status' = "ok"
    BY <1>1, <1>2, <2>1, AllocTakes, AllocKeepsInv
  <2>3. QED
    BY <2>2 DEF IInv
<1>3. ASSUME NEW p \in DOMAIN live, Free(p) PROVE IInv'
  <2>1. HeapInv' /\ status' = "ok"
    BY <1>1, <1>3, FreeGives, FreeKeepsInv
  <2>2. QED
    BY <2>1 DEF IInv
<1>4. CASE FreeAgain
  <2>1. /\ UNCHANGED <<memory, total_allocated, live, freed, soiled>>
        /\ \/ status' = "panic" /\ freed # {}
           \/ status' = "corrupt" /\ \E p \in freed : p - 16 \in soiled
    BY <1>1, <1>4, FreeAgainStops
  <2>2. HeapInv'
    BY <1>1, <2>1 DEF HeapInv, ClientInv, BlockInv, Clean, memory, Links
  <2>3. QED
    BY <2>1, <2>2 DEF IInv
<1>5. CASE UNCHANGED vars
  BY <1>5 DEF IInv, HeapInv, ClientInv, BlockInv, Clean, Links, vars, memory
<1>6. QED
  BY <1>2, <1>3, <1>4, <1>5 DEF Next, Malloc, Return

(* The blocks tile the heap, the counter and the clients' pointers agree with them. *)
THEOREM InductiveInvariant == NoWrap /\ Spec => []IInv
<1> SUFFICES ASSUME NoWrap PROVE Spec => []IInv
  OBVIOUS
<1>1. QED
  BY InitInv, StepInv, PTL DEF Spec

-----------------------------------------------------------------------------
(* What follows from it.                                                        *)
LEMMA InvTiles == HeapInv => BlocksTileTheHeap
<1> SUFFICES ASSUME HeapInv PROVE BlocksTileTheHeap
  OBVIOUS
<1>1. PICK B \in SUBSET Addr : BlockInv(B)
  BY DEF HeapInv
<1>2. Tiles(B, Links) /\ UseInv(B, Links, allocated)
  BY <1>1 DEF BlockInv
<1> DEFINE c == Chain
           n == Len(Chain)
<1>3. /\ c \in Seq(B) /\ n >= 1 /\ c[1] = 32 /\ n \in Nat
      /\ \A j \in 1 .. n - 1 : next[c[j]] = c[j + 1]
      /\ next[c[n]] = 0
  BY <1>2, ChainVisitsAll
<1> HIDE DEF c, n
<1>4. \A i \in 1 .. n : c[i] \in B
  BY <1>3 DEF c, n
<1>5. /\ \A b \in B : next[b] # 0 => next[b] = b + 16 + size[b] /\ prev[next[b]] = b
      /\ \A b \in B : next[b] # 0 => allocated[b] \/ allocated[next[b]]
      /\ \A b \in B : next[b] = 0 => b + 16 + size[b] = Top
      /\ \A b \in B : size[b] % 16 = 0
      /\ prev[32] = 0 /\ 0 \notin B
  BY <1>2, AddrType DEF Tiles, UseInv, Links, End
<1>6. ASSUME NEW i \in 1 .. n - 1
      PROVE  /\ c[i + 1] = c[i] + 16 + size[c[i]] /\ prev[c[i + 1]] = c[i]
             /\ allocated[c[i]] \/ allocated[c[i + 1]]
  <2>1. c[i] \in B /\ c[i + 1] \in B /\ next[c[i]] = c[i + 1]
    BY <1>3, <1>4
  <2>2. next[c[i]] # 0
    BY <1>5, <2>1
  <2>3. QED
    BY <1>5, <2>1, <2>2
<1>7. c[n] + 16 + size[c[n]] = Top
  BY <1>3, <1>4, <1>5
<1>8. QED
  BY <1>3, <1>4, <1>5, <1>6, <1>7 DEF BlocksTileTheHeap, c, n

LEMMA InvTotal == HeapInv => TotalIsExact
<1> SUFFICES ASSUME HeapInv PROVE TotalIsExact
  OBVIOUS
<1>1. PICK B \in SUBSET Addr : BlockInv(B)
  BY DEF HeapInv
<1>2. Blocks = B
  BY <1>1, ChainVisitsAll DEF BlockInv
<1>3. Occupied(Links) = [b \in Addr |-> 16 + size[b]]
  BY DEF Occupied, Links
<1>4. QED
  BY <1>1, <1>2, <1>3 DEF BlockInv, TotalIsExact

(* A block in use has a successor, behind its payload.                            *)
LEMMA InUseHasNext ==
  ASSUME HeapInv, NEW p \in DOMAIN live
  PROVE  /\ p - 16 \in Addr /\ p - 16 \in Blocks /\ allocated[p - 16] /\ p \in Nat
         /\ live[p] \in Nat /\ size[p - 16] \in Nat /\ size[p - 16] >= live[p]
         /\ p + size[p - 16] \in Addr
<1>1. PICK B \in SUBSET Addr : BlockInv(B)
  BY DEF HeapInv
<1>2. Tiles(B, Links) /\ UseInv(B, Links, allocated) /\ Blocks = B
  BY <1>1, ChainVisitsAll DEF BlockInv
<1>3. PICK b \in Addr : allocated[b] /\ p = b + 16
  BY DEF HeapInv, ClientInv
<1>4. b \in Nat /\ p - 16 = b /\ b \in B /\ next[b] # 0 /\ next[b] \in B
  BY <1>2, <1>3, AddrType DEF UseInv, Tiles, Links
<1>5. next[b] = b + 16 + size[b] /\ size[b] \in Nat
  <2>1. Links.next = next /\ Links.size = size
    BY DEF Links
  <2>2. next[b] = End(Links, b)
    BY <1>2, <1>4, <2>1 DEF Tiles
  <2>3. size[b] \in Nat
    BY <1>2, <1>4, <2>1, BlockEnds
  <2>4. QED
    BY <2>1, <2>2, <2>3 DEF End
<1>6. live[p] \in Nat /\ size[p - 16] >= live[p]
  BY DEF HeapInv, ClientInv
<1>7. QED
  BY <1>1, <1>2, <1>3, <1>4, <1>5, <1>6

LEMMA InvLive == HeapInv => LivePointersAreBlocks
<1> SUFFICES ASSUME HeapInv, NEW p \in DOMAIN live
             PROVE  /\ p - 16 \in Blocks /\ allocated[p - 16] /\ size[p - 16] >= live[p]
                    /\ IsValidHeapPtr(p)
  BY DEF LivePointersAreBlocks
<1>1. /\ p - 16 \in Addr /\ p - 16 \in Blocks /\ allocated[p - 16] /\ p \in Nat
      /\ size[p - 16] \in Nat /\ size[p - 16] >= live[p] /\ p + size[p - 16] \in Addr
  BY InUseHasNext
<1>2. (p - 16) % 16 = 0 /\ 32 <= p - 16 /\ (p + size[p - 16]) + 16 <= Top /\ Top \in Nat
  BY <1>1, AddrIs, AddrType, Sizes
<1>3. p % 16 = 0 /\ 33 <= p /\ p <= Top - 16
  BY <1>1, <1>2
<1>4. IsValidHeapPtr(p)
  BY <1>1, <1>3 DEF IsValidHeapPtr
<1>5. QED
  BY <1>1, <1>4

LEMMA InvNull == NoWrap /\ HeapInv => NullOnlyWhenFull
<1> SUFFICES ASSUME NoWrap, HeapInv, NEW n \in Requests, FirstFit(n) = 0,
                    NEW b \in Blocks, ~allocated[b],
                    ~(size[b] < AlignUp(n) + Hdr + MinAlloc)
             PROVE  FALSE
  BY DEF NullOnlyWhenFull
<1>1. PICK B \in SUBSET Addr : BlockInv(B)
  BY DEF HeapInv
<1>2. Tiles(B, Links) /\ Blocks = B
  BY <1>1, ChainVisitsAll DEF BlockInv
<1>3. MayBeAsked(n) /\ n \in Nat /\ n + 15 < Word
  BY Requested, Sizes DEF MayBeAsked
<1>4. AlignUp(n) \in Nat /\ n <= AlignUp(n)
  BY <1>3, AlignUpIs
<1>5. b \in Addr /\ size[b] \in Nat
  BY <1>2, BlockEnds DEF Links
<1>6. b \in FreeBlocks(B, n)
  BY <1>2, <1>3, <1>4, <1>5, FitsMeans DEF FreeBlocks
<1>7. ~Admits(n)
  BY <1>2, <1>6, AddrType, FirstFitIs DEF FreeBlocks
<1>8. total_allocated \in Nat /\ total_allocated + 16 + size[b] <= HeapSize
  <2> DEFINE f == Occupied(Links)
             used == {a \in B : allocated[a]}
  <2>1. /\ f \in [Addr -> Nat] /\ f[b] = 16 + size[b]
        /\ SumFunctionOnSet(f, B) = HeapSize /\ total_allocated = SumFunctionOnSet(f, used)
    <3>1. Links \in Shape /\ Links.size[b] = size[b]
      BY <1>2 DEF Tiles, Links
    <3>2. QED
      BY <1>1, <1>2, <1>5, <3>1, ShapeFields DEF Tiles, BlockInv
  <2>2. used \union {b} \in SUBSET B /\ b \notin used /\ used \in SUBSET Addr
    BY <1>2
  <2> HIDE DEF f, used
  <2>3. SumFunctionOnSet(f, used \union {b}) <= SumFunctionOnSet(f, B)
    BY <2>1, <2>2, AddrSums
  <2>4. SumFunctionOnSet(f, used \union {b}) = f[b] + SumFunctionOnSet(f, used)
    <3>1. (used \union {b}) \ {b} = used /\ b \in used \union {b} /\ used \union {b} \in SUBSET Addr
      BY <2>2
    <3>2. QED
      BY <2>1, <3>1, AddrSums
  <2>5. SumFunctionOnSet(f, used) \in Nat
    BY <2>1, <2>2, AddrSums
  <2>6. QED
    BY <1>5, <2>1, <2>3, <2>4, <2>5, Sizes
<1>9. total_allocated + 16 + n \in Nat /\ total_allocated + 16 + n <= HeapSize
  BY <1>3, <1>4, <1>5, <1>8, Sizes
<1>10. (total_allocated + 16 + n) % Word = total_allocated + 16 + n
  BY <1>9, Sizes, Wraps
<1>11. QED
  BY <1>7, <1>9, <1>10 DEF Admits

(* heap.c never leaves a gap, two free neighbours or a link that does not lead      *)
(* back, whatever is allocated and freed and in which order.                      *)
THEOREM HeapIsTiled == NoWrap /\ Spec => []BlocksTileTheHeap
<1>1. IInv => BlocksTileTheHeap
  BY InvTiles DEF IInv
<1>2. QED
  BY <1>1, InductiveInvariant, PTL

(* total_allocated does not drift from the blocks in use.                         *)
THEOREM CounterIsExact == NoWrap /\ Spec => []TotalIsExact
<1>1. IInv => TotalIsExact
  BY InvTotal DEF IInv
<1>2. QED
  BY <1>1, InductiveInvariant, PTL

(* What alloc_heap returns stays good until it is freed.                          *)
THEOREM PointersStayGood == NoWrap /\ Spec => []LivePointersAreBlocks
<1>1. IInv => LivePointersAreBlocks
  BY InvLive DEF IInv
<1>2. QED
  BY <1>1, InductiveInvariant, PTL

(* A header in use is never one that a client could have written; only a double free *)
(* stops the kernel, and it does unless that pointer's header was given to a client.  *)
THEOREM DoubleFreePanics == NoWrap /\ Spec => []DoubleFreeIsCaught
<1>1. IInv => DoubleFreeIsCaught
  <2> SUFFICES ASSUME IInv PROVE DoubleFreeIsCaught
    OBVIOUS
  <2>1. PICK B \in SUBSET Addr : BlockInv(B) /\ Clean(B)
    BY DEF IInv, HeapInv
  <2>2. \A b \in Blocks : b \notin soiled
    BY <2>1, ChainVisitsAll DEF BlockInv, Clean
  <2>3. QED
    BY <2>2 DEF IInv, HeapInv, ClientInv, DoubleFreeIsCaught
<1>2. QED
  BY <1>1, InductiveInvariant, PTL

(* alloc_heap fails only for want of a block, not by its counter.                  *)
THEOREM FailsOnlyWhenFull == NoWrap /\ Spec => []NullOnlyWhenFull
<1> SUFFICES ASSUME NoWrap PROVE Spec => []NullOnlyWhenFull
  OBVIOUS
<1>1. IInv => NullOnlyWhenFull
  BY InvNull DEF IInv
<1>2. QED
  BY <1>1, InductiveInvariant, PTL

-----------------------------------------------------------------------------
(* The heap implements the allocator of disjoint ranges.                          *)
RangeOf(p) == [ptr |-> p, len |-> size[p - Hdr]]

LiveIsApart ==
  /\ \A p \in DOMAIN live : 32 <= p /\ p + size[p - 16] <= Top
  /\ \A p, q \in DOMAIN live : p # q => A!Apart(RangeOf(p), RangeOf(q))

LEMMA LiveApart == HeapInv => LiveIsApart
<1> SUFFICES ASSUME HeapInv PROVE LiveIsApart
  OBVIOUS
<1>1. PICK B \in SUBSET Addr : BlockInv(B)
  BY DEF HeapInv
<1>2. Tiles(B, Links) /\ Blocks = B
  BY <1>1, ChainVisitsAll DEF BlockInv
<1>3. \A p \in DOMAIN live : /\ p - 16 \in B /\ p - 16 \in Addr /\ p \in Nat
                             /\ size[p - 16] \in Nat /\ p + size[p - 16] \in Addr
  BY <1>2, InUseHasNext
<1>4. ASSUME NEW p \in DOMAIN live PROVE 32 <= p /\ p + size[p - 16] <= Top
  <2>1. p - 16 >= 32 /\ p + size[p - 16] + 16 <= Top /\ p \in Nat /\ size[p - 16] \in Nat
    BY <1>3, AddrIs, AddrType
  <2>2. QED
    BY <2>1, Sizes
<1>5. ASSUME NEW p \in DOMAIN live, NEW q \in DOMAIN live, p < q
      PROVE  p + size[p - 16] <= q
  <2>1. p - 16 \in B /\ q - 16 \in B /\ p - 16 < q - 16 /\ p \in Nat /\ q \in Nat
    BY <1>3, <1>5
  <2>2. End(Links, p - 16) <= q - 16
    BY <1>2, <2>1 DEF Tiles
  <2>3. End(Links, p - 16) = p + size[p - 16]
    BY <1>3, <2>1 DEF End, Links
  <2>4. size[p - 16] \in Nat
    BY <1>3
  <2>5. QED
    BY <2>1, <2>2, <2>3, <2>4
<1>6. ASSUME NEW p \in DOMAIN live, NEW q \in DOMAIN live, p # q
      PROVE  A!Apart(RangeOf(p), RangeOf(q))
  <2>1. p < q \/ q < p
    BY <1>3, <1>6
  <2>2. p + size[p - 16] <= q \/ q + size[q - 16] <= p
    BY <1>5, <2>1
  <2>3. QED
    BY <2>2 DEF A!Apart, RangeOf
<1>7. QED
  BY <1>4, <1>6 DEF LiveIsApart

LEMMA AllocGivesRange ==
  ASSUME HeapInv, HeapInv', NEW n, NEW b \in Addr, Takes(n, b)
  PROVE  A!Next
<1> DEFINE p == b + 16
           r == [ptr |-> p, len |-> size'[b]]
<1>1. b \in Nat /\ p - 16 = b /\ b \notin {a \in Addr : allocated[a]} /\ p \notin DOMAIN live
  BY AddrType DEF Takes, HeapInv, ClientInv
<1>2. DOMAIN live' = DOMAIN live \union {p}
  BY DEF Takes
<1>3. \A q \in DOMAIN live : size'[q - 16] = size[q - 16]
  BY InUseHasNext DEF Takes
<1>4. Owned = {[ptr |-> q, len |-> size[q - 16]] : q \in DOMAIN live}
  BY DEF Owned
<1>5. Owned' = {[ptr |-> q, len |-> size'[q - 16]] : q \in DOMAIN live'}
  BY DEF Owned
<1>6. Owned' = Owned \union {r}
  BY <1>1, <1>2, <1>3, <1>4, <1>5
<1>7. /\ 32 <= p /\ p + size'[b] <= Top
      /\ \A q \in DOMAIN live' : q # p => A!Apart(RangeOf(p)', RangeOf(q)')
  <2>1. LiveIsApart'
    BY LiveApart, PTL
  <2>2. QED
    BY <1>1, <1>2, <2>1 DEF LiveIsApart
<1>8. \A s \in Owned : A!Apart(r, s) /\ r.ptr # s.ptr
  <2>1. ASSUME NEW q \in DOMAIN live
        PROVE  A!Apart(r, [ptr |-> q, len |-> size[q - 16]]) /\ p # q
    <3>1. q \in DOMAIN live' /\ q # p
      BY <1>1, <1>2
    <3>2. RangeOf(p)' = r /\ RangeOf(q)' = [ptr |-> q, len |-> size[q - 16]]
      BY <1>1, <1>3 DEF RangeOf
    <3>3. QED
      BY <1>7, <3>1, <3>2
  <2>2. QED
    BY <1>4, <2>1
<1>9. r \notin Owned
  BY <1>8
<1>10. A!Give(r)
  BY <1>6, <1>7, <1>8 DEF A!Give
<1>11. QED
  BY <1>6, <1>9, <1>10 DEF A!Next

LEMMA FreeTakesBackRange ==
  ASSUME HeapInv, NEW p \in DOMAIN live, GivesBack(p)
  PROVE  A!Next
<1>1. DOMAIN live' = DOMAIN live \ {p}
  BY DEF GivesBack, Restrict
<1>2. ASSUME NEW q \in DOMAIN live, q # p PROVE size'[q - 16] = size[q - 16]
  <2>1. q - 16 \in Addr /\ allocated[q - 16] /\ q \in Nat /\ p \in Nat
    BY InUseHasNext
  <2>2. allocated'[q - 16]
    <3>1. PICK B : UseInv(B, Links, allocated)
      BY DEF HeapInv, BlockInv
    <3>2. allocated \in [Addr -> BOOLEAN] /\ q - 16 # p - 16
      BY <1>2, <2>1, <3>1 DEF UseInv
    <3>3. QED
      BY <2>1, <3>2 DEF GivesBack
  <2>3. QED
    BY <2>1, <2>2 DEF GivesBack
<1>3. Owned' = Owned \ {RangeOf(p)}
  BY <1>1, <1>2 DEF Owned, RangeOf
<1>4. RangeOf(p) \in Owned
  BY DEF Owned, RangeOf
<1>5. QED
  BY <1>3, <1>4 DEF A!Next, A!TakeBack

(* Every call gives out one range, apart from all others, or takes one back.       *)
THEOREM Refinement == NoWrap /\ Spec => ImplementsAllocator
<1> SUFFICES ASSUME NoWrap PROVE Spec => ImplementsAllocator
  OBVIOUS
<1>1. Init => A!Init
  BY DEF Init, A!Init, Owned
<1>2. IInv /\ IInv' /\ [Next]_vars => [A!Next]_Owned
  <2> SUFFICES ASSUME IInv, IInv', [Next]_vars PROVE [A!Next]_Owned
    OBVIOUS
  <2>1. HeapInv /\ HeapInv'
    BY DEF IInv
  <2>2. ASSUME UNCHANGED <<live, size>> PROVE Owned' = Owned
    BY <2>2 DEF Owned
  <2>3. ASSUME NEW n \in Requests, Alloc(n) PROVE [A!Next]_Owned
    <3>1. MayBeAsked(n)
      BY Requested
    <3>2. UNCHANGED vars \/ \E b \in Addr : Takes(n, b)
      BY <2>1, <2>3, <3>1, AllocTakes
    <3>3. UNCHANGED vars => UNCHANGED <<live, size>>
      BY DEF vars, memory
    <3>4. QED
      BY <2>1, <2>2, <3>2, <3>3, AllocGivesRange
  <2>4. ASSUME NEW p \in DOMAIN live, Free(p) PROVE [A!Next]_Owned
    BY <2>1, <2>4, FreeGives, FreeTakesBackRange
  <2>5. CASE FreeAgain
    <3>1. UNCHANGED <<live, size>>
      BY <2>1, <2>5, FreeAgainStops DEF memory
    <3>2. QED
      BY <2>2, <3>1
  <2>6. CASE UNCHANGED vars
    BY <2>2, <2>6 DEF vars, memory
  <2>7. QED
    BY <2>3, <2>4, <2>5, <2>6 DEF Next, Malloc, Return
<1>3. QED
  BY <1>1, <1>2, InductiveInvariant, PTL DEF Spec, ImplementsAllocator, A!Spec
=============================================================================
