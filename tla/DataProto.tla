------------------------------- MODULE DataProto -------------------------------
(* The row operations of DataProto, on a column: the sequence of a key's    *)
(* values, one per row. All columns of a DataProto undergo them together.   *)
EXTENDS Integers, Sequences, SequencesExt

(* repeat(n, interleave=True): every row n times before the next. *)
Interleaved(rows, n) == [i \in 1..(n * Len(rows)) |-> rows[(i - 1) \div n + 1]]

(* repeat(n, interleave=False): the whole batch n times. *)
Tiled(rows, n) == [i \in 1..(n * Len(rows)) |-> rows[((i - 1) % Len(rows)) + 1]]

(* reorder and select_idxs, with indices from 1. *)
Reordered(rows, indices) == [i \in DOMAIN indices |-> rows[indices[i]]]

(* chunk: equal parts, in order; the part of index c from 0. *)
Chunk(rows, chunks, c) ==
  LET size == Len(rows) \div chunks
  IN  SubSeq(rows, c * size + 1, (c + 1) * size)

(* split: parts of a given size, the last perhaps smaller. *)
Split(rows, size) ==
  [k \in 1..((Len(rows) + size - 1) \div size) |->
     SubSeq(rows, (k - 1) * size + 1, IF k * size > Len(rows) THEN Len(rows) ELSE k * size)]

(* concat *)
Concatenated(parts) == FlattenSeq(parts)
=============================================================================
