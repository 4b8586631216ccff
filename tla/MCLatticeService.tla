-------------------------- MODULE MCLatticeService --------------------------
(***************************************************************************)
(* Instances of LatticeService for TLC.  The calls of a run are chosen      *)
(* from a set of requests; symmetry between the calls is sound because      *)
(* nothing tells one from another before it begins.                         *)
(***************************************************************************)
EXTENDS LatticeService, TLC

CONSTANTS n1, n2, cv

Add(n, v, g) == [kind |-> "add", name |-> n, version |-> v, given |-> g]
Update(n, m, g) == [kind |-> "update", name |-> n, mask |-> m, given |-> g]
DeleteOf(n) == [kind |-> "delete", name |-> n]

\* All three kinds on one name: adds with and without a version of their own,
\* one that names an account; updates of the description and the account; an add
\* and an update that are rejected.
RacingRequests ==
  {Add(n1, Nothing, {}), Add(n1, cv, {"account", "description"}),
   Update(n1, {"description"}, {"description"}),
   Update(n1, {"account", "unknown"}, {}),
   DeleteOf(n1), Add(NoName, Nothing, {}), Update(n1, {}, {})}

\* Two names, and the requests that are rejected or change nothing.
OddRequests ==
  {Add(n1, Nothing, {"deletable"}), Add(n2, Nothing, {}),
   Add(NoName, Nothing, {}),
   Update(n1, {}, {}), Update(n1, {"unknown"}, {"description"}),
   Update(n2, {"deletable"}, {"deletable"}),
   DeleteOf(n2)}

\* A lattice and updates of two of its fields, each with a mask of its own.
SeparateUpdates ==
  {Add(n1, Nothing, {}),
   Update(n1, {"description"}, {"description"}), Update(n1, {"deletable"}, {"deletable"})}

OpsSymmetry == Permutations(Ops)

=============================================================================
