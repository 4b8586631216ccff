----------------------------- MODULE SecretStore -----------------------------
(***************************************************************************)
(* The bucket WASMCLOUD_ACCOUNT_KEYS (src/src/secrets.rs) and the tool     *)
(* that fills it: lattice-ctl bootstrap stores the seeds of the operator   *)
(* signing key and of the system account, each under its public key.       *)
(*                                                                         *)
(* A seed is sealed with the xkey of the client that stores it, and only   *)
(* that xkey opens it, so all that matters of a stored seed is the xkey it *)
(* is sealed with.  get does not tell its caller why it failed.            *)
(***************************************************************************)
CONSTANTS
  Nothing,
  XKeys,        \* encryption keys in use
  Ctls,         \* runs of lattice-ctl bootstrap
  CtlKey        \* CtlKey[c]: the xkey of run c

SecretKeys == {"operator", "system"}

ASSUME SecretsAssumption ==
  /\ Nothing \notin XKeys
  /\ CtlKey \in [Ctls -> XKeys]

VARIABLES
  store,    \* store[k]: the xkey the seed under k is sealed with, or Nothing
  ctl,      \* ctl[c]: where bootstrap run c is
  put       \* history: put[c] is the secrets run c stored itself

secretVars == <<store, ctl, put>>

SecretInit ==
  /\ store = [k \in SecretKeys |-> Nothing]
  /\ ctl = [c \in Ctls |-> "getOperator"]
  /\ put = [c \in Ctls |-> {}]

\* SecretsClient::get by a client with xkey x finds and opens the seed.
Opens(x, k) == store[k] = x

\* Variant: the seed is stored as it is.
Set_Unsealed(x, k) == store' = [store EXCEPT ![k] = "plain"]

\* SecretsClient::set: sealed with the caller's own key.
Set(x, k) == store' = [store EXCEPT ![k] = x]

CtlStep(c, from, to) ==
  /\ ctl[c] = from
  /\ ctl' = [ctl EXCEPT ![c] = to]

\* Variant: any error of get is taken for a stored secret.
CtlGet_AssumesStored(c, k, from, missing, found) ==
  /\ CtlStep(c, from, found)
  /\ UNCHANGED <<store, put>>

\* The secret is there for this run, or get failed for whatever reason: the
\* secret is missing, sealed with another key, or the bucket did not answer.
CtlGet(c, k, from, missing, found) ==
  /\ \/ CtlStep(c, from, found) /\ Opens(CtlKey[c], k)
     \/ CtlStep(c, from, missing)
  /\ UNCHANGED <<store, put>>

\* A failed set panics; its effect may have taken place.
CtlSet(c, k, from, to) ==
  \/ /\ CtlStep(c, from, to) \/ CtlStep(c, from, "panicked")
     /\ Set(CtlKey[c], k)
     /\ put' = [put EXCEPT ![c] = @ \cup {k}]
  \/ /\ CtlStep(c, from, "panicked")
     /\ UNCHANGED <<store, put>>

Bootstrap(c) ==
  \/ CtlGet(c, "operator", "getOperator", "setOperator", "getSystem")
  \/ CtlSet(c, "operator", "setOperator", "getSystem")
  \/ CtlGet(c, "system", "getSystem", "setSystem", "done")
  \/ CtlSet(c, "system", "setSystem", "done")

-----------------------------------------------------------------------------
CtlPCs == {"getOperator", "setOperator", "getSystem", "setSystem", "done", "panicked"}

SecretTypeOK ==
  /\ store \in [SecretKeys -> XKeys \cup {Nothing}]
  /\ ctl \in [Ctls -> CtlPCs]
  /\ put \in [Ctls -> SUBSET SecretKeys]

\* A bootstrap that succeeded leaves both seeds stored, and a client with its
\* xkey opens them unless a bootstrap with another xkey stored its own over
\* them: two of them at once never leave a seed missing.
BootstrapLeavesSecrets ==
  \A c \in Ctls : ctl[c] = "done" =>
    \A k \in SecretKeys :
      \/ Opens(CtlKey[c], k)
      \/ \E d \in Ctls : CtlKey[d] # CtlKey[c] /\ k \in put[d] /\ Opens(CtlKey[d], k)

=============================================================================
