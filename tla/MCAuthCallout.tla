---------------------------- MODULE MCAuthCallout ----------------------------
(***************************************************************************)
(* Instances of AuthCallout for TLC.                                       *)
(***************************************************************************)
EXTENDS AuthCallout, TLC

Shape(e, b) == [envelope |-> e, body |-> b]

\* Every way through handle_message.
AllShapes ==
  {Shape("bare", "jwt"), Shape("plain", "jwt"), Shape("sealed", "jwt"),
   Shape("plain", "garbage"), Shape("sealed", "garbage"),
   Shape("plain", "binary"), Shape("badKey", "jwt"), Shape("unopenable", "jwt")}

IdSymmetry == Permutations(Ids)

=============================================================================
