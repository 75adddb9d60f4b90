------------------------------ MODULE MCStores ------------------------------
(***************************************************************************)
(* Keys and events are model values; nothing here depends on which is      *)
(* which.                                                                  *)
(***************************************************************************)
EXTENDS Stores

\* Any range of an output is the same bytes in both, inside, across and past its end.
ASSUME
  \A content \in {<<>>, <<7>>, <<7, 8, 9>>} : \A offset, count \in -1..4 :
    MemRange(content, offset, count) = SqlRange(content, offset, count)

=============================================================================
