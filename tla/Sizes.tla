------------------------------- MODULE Sizes -------------------------------
(***************************************************************************)
(* Lists of sizes in bytes, and what a comprehension with a filter keeps   *)
(* of a list.                                                              *)
(***************************************************************************)
EXTENDS Integers, Sequences

\* The sum of a list.
Added(sizes) ==
  LET sum[n \in 0..Len(sizes)] == IF n = 0 THEN 0 ELSE sum[n - 1] + sizes[n]
  IN  sum[Len(sizes)]

\* The members of a list that are wanted, in its order.
Selected(list, wanted) ==
  LET picked[n \in 0..Len(list)] ==
        IF n = 0 THEN <<>>
        ELSE IF list[n] \in wanted THEN Append(picked[n - 1], list[n]) ELSE picked[n - 1]
  IN  picked[Len(list)]
=============================================================================
