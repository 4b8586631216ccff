--------------------------- MODULE MCLatticeWatch ---------------------------
(***************************************************************************)
(* Instances of LatticeWatch for TLC.                                      *)
(***************************************************************************)
EXTENDS LatticeWatch

CONSTANTS n1, n2, w1, w2

\* Everything, both names by a list, one of them twice, and the empty list.
AnyRequest == {<<{n1, n2}>>, <<{n1}, {n2}>>, <<{n1}, {n2}, {n1}>>, <<>>}
\* Everything only.
AllRequest == {<<{n1, n2}>>}

=============================================================================
