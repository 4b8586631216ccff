--------------------------- MODULE MCLatticeReads ---------------------------
(***************************************************************************)
(* Instances of LatticeReads for TLC, with the requests of                 *)
(* MCLatticeService.                                                       *)
(***************************************************************************)
EXTENDS LatticeReads, MCLatticeService

\* Both names, in either order.
BothNames == {<<n1, n2>>, <<n2, n1>>}

=============================================================================
