------------------------- MODULE MCLatticeDispatch -------------------------
(***************************************************************************)
(* Instances of LatticeDispatch, and with it of Startup, for TLC.          *)
(***************************************************************************)
EXTENDS LatticeDispatch, TLC

CONSTANTS w1, a1, a2

\* A watch, and two adds, one of which must wait for the other.
WatchAndAdds == w1 :> "watch" @@ a1 :> "add" @@ a2 :> "add"

Sections(auth, h, u, l) ==
  [authorization |-> auth,
   component |-> [t \in Tasks |->
     CASE t = "host" -> h [] t = "user" -> u [] t = "lattice" -> l]]

\* Without callouts and with; the second pulls a component while a callout that
\* has its own runs already.
SomeConfigs ==
  {Sections(FALSE, "none", "none", "oci"), Sections(TRUE, "nats", "oci", "none")}

=============================================================================
