------------------------------- MODULE MCHeap -------------------------------
(* A heap of seven headers' worth, and sizes on both sides of HEAP_ALIGN.        *)
EXTENDS Heap

MCRequests == {0, 16, 17}
=============================================================================
