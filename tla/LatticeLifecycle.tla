-------------------------- MODULE LatticeLifecycle --------------------------
(***************************************************************************)
(* What the Lattice service promises about the record of each name, with   *)
(* every call in one step and no instance, revision or retry in sight.     *)
(*                                                                         *)
(* It is weaker than one would write from the interface alone, because     *)
(* update_lattice and delete_lattice put back what they read: a Rewrite or *)
(* a MarkDeleting may start from any record the name ever had, not only    *)
(* from the present one.  What remains is that a record enters only by     *)
(* being provisioned under a new uid, that provisioning finishes in place, *)
(* that a rewrite takes a version its lattice never had, and that nothing  *)
(* else ever changes what is stored.                                       *)
(***************************************************************************)
CONSTANTS
  Names,
  Records,  \* what can be stored: records with uid, version, phase and data
  Nothing   \* no record

VARIABLES
  rec,      \* rec[n]: the record stored now under n, or Nothing
  past      \* past[n]: every record stored under n so far

lifecycleVars == <<rec, past>>

Init ==
  /\ rec = [n \in Names |-> Nothing]
  /\ past = [n \in Names |-> {}]

\* Some record is stored under n; it joins the past ones.
Stored(n) ==
  /\ rec' = [rec EXCEPT ![n] = rec'[n]]
  /\ rec'[n] \in Records
  /\ past' = [past EXCEPT ![n] = @ \cup {rec'[n]}]

\* add: under a new uid, whatever was there before.
Provision(n) ==
  /\ Stored(n)
  /\ rec'[n].phase = "Provisioning"
  /\ \A p \in past[n] : p.uid # rec'[n].uid

\* The end of an add: in place, from the record it provisioned.  Only the
\* component may have touched the data: it adds an account and its keys.
Finish(n) ==
  /\ rec[n] # Nothing
  /\ rec[n].phase = "Provisioning"
  /\ Stored(n)
  /\ rec'[n].phase = "Created"
  /\ rec'[n].uid = rec[n].uid
  /\ rec'[n].version = rec[n].version
  /\ \A f \in DOMAIN rec[n].data \ {"account", "signing_keys"} :
       rec'[n].data[f] = rec[n].data[f]
  /\ rec[n].data["account"] # Nothing => rec'[n].data = rec[n].data

\* update: some past record of the lattice under a version it never had.
Rewrite(n) ==
  /\ Stored(n)
  /\ \E p \in past[n] : p.uid = rec'[n].uid /\ p.phase = rec'[n].phase
  /\ \A p \in past[n] : p.uid = rec'[n].uid => p.version # rec'[n].version

\* delete, first half: some past record with the phase Deleting.
MarkDeleting(n) ==
  /\ Stored(n)
  /\ \E p \in past[n] : rec'[n] = [p EXCEPT !.phase = "Deleting"]

\* delete, second half.
Remove(n) ==
  /\ rec' = [rec EXCEPT ![n] = Nothing]
  /\ UNCHANGED past

Next ==
  \E n \in Names :
    Provision(n) \/ Finish(n) \/ Rewrite(n) \/ MarkDeleting(n) \/ Remove(n)

Spec == Init /\ [][Next]_lifecycleVars

=============================================================================
