----------------------------- MODULE BatchTensors -----------------------------
(***************************************************************************)
(* The tensor helpers of batcher.cpp, as operators.                         *)
(*                                                                         *)
(* A tensor is a record of                                                  *)
(*   dtype   "raw" for every numeric type (the bytes are copied with        *)
(*           memcpy) or "string" (cells are read one by one with str_at);   *)
(*   n_rows  its rows;                                                      *)
(*   width   cells in a row (for a numeric type: n_cols * dtype_size);      *)
(*   data    its cells, row after row.                                      *)
(* Reading past the last cell is undefined behaviour in the code, and gives *)
(* Garbage here.                                                            *)
(***************************************************************************)
EXTENDS Integers, Sequences, SequencesExt

CONSTANT Garbage   \* what a read beyond the end of a buffer returns

Total(counts) ==
  LET sum[k \in 0 .. Len(counts)] == IF k = 0 THEN 0 ELSE sum[k - 1] + counts[k]
  IN sum[Len(counts)]

Cell(data, i) == IF i \in DOMAIN data THEN data[i] ELSE Garbage

\* Row k of a tensor.
RowOf(t, k) == [c \in 1..t.width |-> Cell(t.data, (k - 1) * t.width + c)]

\* The cells concat_rows reads from t when rows are taken to be w cells wide:
\* memcpy reads n_rows * w cells in a row, str_at addresses a row and a column.
CopiedCells(t, dtype, w) ==
  [i \in 1..(t.n_rows * w) |->
     LET row == (i - 1) \div w
         col == (i - 1) % w
     IN IF dtype = "raw" THEN Cell(t.data, i)
        ELSE IF col < t.width THEN Cell(t.data, row * t.width + col + 1)
        ELSE Garbage]

\* Stack tensors vertically. The first tensor's dtype and width serve for all.
concat_rows(ts) ==
  LET dtype == ts[1].dtype
      w     == ts[1].width
  IN [dtype  |-> dtype,
      n_rows |-> Total([k \in DOMAIN ts |-> ts[k].n_rows]),
      width  |-> w,
      data   |-> FlattenSeq([k \in DOMAIN ts |-> CopiedCells(ts[k], dtype, w)])]

\* Mutant of split_rows: advances by one row per request.
SplitByRequest(batched, counts) ==
  [k \in DOMAIN counts |->
     [batched EXCEPT
        !.n_rows = counts[k],
        !.data   = [i \in 1..(counts[k] * batched.width) |->
                      Cell(batched.data, (k - 1) * batched.width + i)]]]

\* Cut a stacked tensor into consecutive slices of counts[1], counts[2], ... rows.
split_rows(batched, counts) ==
  LET before(k) == Total(SubSeq(counts, 1, k - 1))
  IN [k \in DOMAIN counts |->
        [batched EXCEPT
           !.n_rows = counts[k],
           !.data   = [i \in 1..(counts[k] * batched.width) |->
                         Cell(batched.data, before(k) * batched.width + i)]]]
===============================================================================
