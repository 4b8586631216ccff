------------------------- MODULE MCLatticeGenerator -------------------------
(***************************************************************************)
(* Instances of LatticeGenerator for TLC.                                  *)
(***************************************************************************)
EXTENDS LatticeGenerator, TLC

CONSTANTS c1, c2, c3, x1, x2, a1, a2

\* Two bootstraps with the control plane's xkey and one with another.
TwoKeys == c1 :> x1 @@ c2 :> x1 @@ c3 :> x2

=============================================================================
