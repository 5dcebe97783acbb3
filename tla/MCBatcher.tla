------------------------------- MODULE MCBatcher -------------------------------
(* Small instances of Batcher for TLC. *)
EXTENDS Batcher, TLC

Shape(dtype, rows, width) == [dtype |-> dtype, n_rows |-> rows, width |-> width]

\* One input of one row: for runs about the threads.
PlainInputs == { [x |-> Shape("raw", 1, 1)] }
NoFilter == { {} }

\* One or two rows, one or two inputs, two widths, strings.
RowInputs == { [x |-> Shape("raw", 1, 2)],
               [x |-> Shape("raw", 2, 2)],
               [x |-> Shape("raw", 2, 1), y |-> Shape("string", 2, 2)],
               [x |-> Shape("raw", 1, 1), y |-> Shape("string", 1, 2)] }
RowFilters == { {}, {"p"}, {"q"} }

\* Requests that name different inputs.
MixedInputs == { [x |-> Shape("raw", 1, 1)], [y |-> Shape("raw", 1, 1)] }

Symmetry == Permutations(Requests)
===============================================================================
