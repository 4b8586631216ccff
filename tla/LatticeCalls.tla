---------------------------- MODULE LatticeCalls ----------------------------
(***************************************************************************)
(* What the Lattice service, however many instances of it there are,       *)
(* promises about each call: it goes to one place, is taken up there at    *)
(* most once, and only a call that is being handled is answered.  A call   *)
(* may be lost on the way or while it is handled, with any number of       *)
(* others; a call that is lost stays lost.                                 *)
(***************************************************************************)
EXTENDS Integers

CONSTANT Calls   \* the invocations clients make

VARIABLES
  call,    \* call[c]: the state of call c
  taken    \* taken[c]: how often c was taken up

callVars == <<call, taken>>

States == {"idle", "refused", "queued", "handled", "answered", "lost"}

Init ==
  /\ call = [c \in Calls |-> "idle"]
  /\ taken = [c \in Calls |-> 0]

Moves(c, from, to) ==
  /\ call[c] = from
  /\ call' = [call EXCEPT ![c] = to]

\* Nobody is there to take the call.
Refuse(c) == Moves(c, "idle", "refused") /\ UNCHANGED taken

\* One instance receives it.
Queue(c) == Moves(c, "idle", "queued") /\ UNCHANGED taken

\* It is taken up.
Take(c) ==
  /\ Moves(c, "queued", "handled")
  /\ taken' = [taken EXCEPT ![c] = @ + 1]

\* Its handler returns.
Answer(c) == Moves(c, "handled", "answered") /\ UNCHANGED taken

\* An instance is gone with all the calls it had, or a handler failed.
Lose ==
  /\ \E gone \in SUBSET {c \in Calls : call[c] \in {"queued", "handled"}} :
       call' = [c \in Calls |-> IF c \in gone THEN "lost" ELSE call[c]]
  /\ UNCHANGED taken

Next == Lose \/ \E c \in Calls : Refuse(c) \/ Queue(c) \/ Take(c) \/ Answer(c)

Spec == Init /\ [][Next]_callVars

=============================================================================
