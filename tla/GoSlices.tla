------------------------------ MODULE GoSlices ------------------------------
(***************************************************************************)
(* Slices of Go, as far as values that share an array can tell them apart: *)
(* a heap is a sequence of arrays, the length of an array is its capacity, *)
(* and a slice is an index of the heap and a length.                       *)
(***************************************************************************)
EXTENDS Naturals, Sequences

Slice(array, len) == [array |-> array, len |-> len]
Shown(heap, slice) == SubSeq(heap[slice.array], 1, slice.len)

\* The capacity append asks for when there is none to spare (below 256 elements).
Grown(cap) == IF cap = 0 THEN 1 ELSE 2 * cap
Spare(n, zero) == [k \in 1..n |-> zero]

\* append of one element: into the spare capacity, which others may share, or into a new
\* array.
AppendTo(heap, slice, v, zero) ==
    LET old == heap[slice.array]
    IN IF slice.len < Len(old)
       THEN [heap |-> [heap EXCEPT ![slice.array][slice.len + 1] = v],
             slice |-> Slice(slice.array, slice.len + 1)]
       ELSE [heap |-> Append(heap, Append(old, v) \o Spare(Grown(Len(old)) - Len(old) - 1, zero)),
             slice |-> Slice(Len(heap) + 1, slice.len + 1)]

\* A copy with an array of its own, without spare capacity.
CloneOf(heap, slice) ==
    [heap |-> Append(heap, Shown(heap, slice)), slice |-> Slice(Len(heap) + 1, slice.len)]
=============================================================================
