------------------------------- MODULE MCSfmm -------------------------------
(* Values for the constants of Sfmm.                                       *)
EXTENDS Sfmm, TLC

CONSTANTS p, q, r

\* Blocks of two, three and seven rows; a page has six.  Of the last two, the
\* padding of the first and 8 bytes more than the second are too much for an
\* int of 16 bits.
SomeRequests == {20, 38, 100, 32750, 32765}
ThreeHandles == {p, q, r}
HandleSymmetry == Permutations(ThreeHandles)

\* Behind a failed sf_malloc that has listed a block twice nothing is claimed.
ListsUndamaged == ~damaged
=============================================================================
