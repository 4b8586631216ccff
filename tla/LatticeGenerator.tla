-------------------------- MODULE LatticeGenerator --------------------------
(***************************************************************************)
(* Provisioning the NATS account of a lattice: the lattice-generator       *)
(* component (src/components/lattice-generator/src/lib.rs), the host       *)
(* functions it calls (src/src/vm.rs: secrets get and reveal, account      *)
(* update) and what add_lattice does with its result.                      *)
(*                                                                         *)
(* Keys are abstract: creation o draws the account key, a signing key and  *)
(* one key for each of the scopes user and rpc, named by their roles.      *)
(***************************************************************************)
EXTENDS SecretStore

CONSTANTS
  Creations,    \* add_lattice calls that reach the component
  ServiceKey,   \* the xkey of the control plane
  HasSysClient  \* creations on instances with a connection to the SYS account

ASSUME GeneratorAssumption ==
  /\ ServiceKey \in XKeys
  /\ HasSysClient \subseteq Creations
  /\ Nothing \notin Creations

VARIABLES
  pc,        \* pc[o]: where creation o is
  sent,      \* account JWTs sent to the NATS cluster (external)
  accepted,  \* accounts the cluster knows
  record,    \* record[o]: the lattice add_lattice stored as Created
  failedAt   \* history: failedAt[o] is the step at which creation o failed

genVars == <<pc, sent, accepted, record, failedAt>>
vars == <<secretVars, genVars>>

GenPCs == {"getOperator", "revealOperator", "getSystem", "revealSystem",
           "push", "finish"}

Init ==
  /\ SecretInit
  /\ pc = [o \in Creations |-> "idle"]
  /\ sent = {}
  /\ accepted = {}
  /\ record = [o \in Creations |-> Nothing]
  /\ failedAt = [o \in Creations |-> Nothing]

Step(o, from, to) ==
  /\ pc[o] = from
  /\ pc' = [pc EXCEPT ![o] = to]

Fails(o, from) ==
  /\ Step(o, from, "failed")
  /\ failedAt' = [failedAt EXCEPT ![o] = from]

-----------------------------------------------------------------------------
(* create *)

\* The lattice names its account: the component returns it as it is.
CreateNamed(o) ==
  /\ Step(o, "idle", "done")
  /\ record' = [record EXCEPT ![o] = [account |-> Nothing, signing_keys |-> {}]]
  /\ UNCHANGED <<secretVars, sent, accepted, failedAt>>

\* Both arguments are there: an instance that has the component has both.
CreateBegin(o) ==
  /\ Step(o, "idle", "getOperator")
  /\ UNCHANGED <<secretVars, sent, accepted, record, failedAt>>

\* store.get reads the seed, only to see that it is there; reveal reads it
\* again and gives an empty string if that fails, which get_secret refuses.
ReadSecret(o, k, from, to) ==
  /\ \/ Step(o, from, to) /\ Opens(ServiceKey, k) /\ UNCHANGED failedAt
     \/ Fails(o, from)
  /\ UNCHANGED <<secretVars, sent, accepted, record>>

GetOperator(o) ==
  ReadSecret(o, "operator", "getOperator", "revealOperator")

\* Variant: a scope's key is not inserted into the account's claims.
ScopedSigners_NotInserted == {}

\* scoped_signers inserts the keys of both scopes into the account's claims.
ScopedSigners == {"user", "rpc"}

\* The claims sign with the account's own public key and the scopes' keys.  (The
\* imports, and the activation tokens set on copies of them, never reach them.)
Jwt(o) ==
  [account |-> o, signing_keys |-> {"account"} \cup ScopedSigners]

\* Variant: the system account's seed is read after the push.
RevealOperator_PushesFirst(o) ==
  /\ Opens(ServiceKey, "operator")
  /\ Step(o, "revealOperator", "getSystem")
  /\ sent' = sent \cup {Jwt(o)}
  /\ accepted' = accepted \cup {o}
  /\ UNCHANGED <<secretVars, record, failedAt>>

RevealOperator(o) ==
  ReadSecret(o, "operator", "revealOperator", "getSystem")

GetSystem(o) ==
  ReadSecret(o, "system", "getSystem", "revealSystem")

RevealSystem(o) ==
  ReadSecret(o, "system", "revealSystem", "push")

\* The lattice lists the scopes' keys and the signing key.
Provisioned(o) ==
  [account |-> o, signing_keys |-> {"user", "rpc"} \cup {"signing"}]

\* Variant: the error of the push is dropped.
Push_IgnoresError(o) ==
  /\ Step(o, "push", "finish")
  /\ \/ sent' = sent \cup {Jwt(o)} /\ accepted' = accepted \cup {o}
     \/ UNCHANGED <<sent, accepted>>
  /\ UNCHANGED <<secretVars, record, failedAt>>

\* The request $SYS.REQ.CLAIMS.UPDATE: any reply counts as success, also one in
\* which the cluster refuses the JWT; without a reply the creation fails, and
\* the cluster may have taken the JWT.
Push(o) ==
  /\ pc[o] = "push"
  /\ \/ /\ o \in HasSysClient
        /\ sent' = sent \cup {Jwt(o)}
        /\ accepted' \in {accepted, accepted \cup {o}}
        /\ \/ Step(o, "push", "finish") /\ UNCHANGED failedAt
           \/ Fails(o, "push")
     \/ /\ Fails(o, "push")
        /\ UNCHANGED <<sent, accepted>>
  /\ UNCHANGED <<secretVars, record>>

\* Back in add_lattice: the response's account, seeds included, is dropped, and
\* the record is finished unless it was changed meanwhile.
Finish(o) ==
  /\ \/ /\ Step(o, "finish", "done")
        /\ record' = [record EXCEPT ![o] = Provisioned(o)]
        /\ UNCHANGED failedAt
     \/ /\ Fails(o, "finish")
        /\ record' \in {record, [record EXCEPT ![o] = Provisioned(o)]}
  /\ UNCHANGED <<secretVars, sent, accepted>>

\* The instance dies.
Lost(o) ==
  /\ pc[o] \in GenPCs
  /\ pc' = [pc EXCEPT ![o] = "lost"]
  /\ failedAt' = [failedAt EXCEPT ![o] = pc[o]]
  /\ UNCHANGED <<secretVars, sent, accepted, record>>

Create(o) ==
  \/ CreateNamed(o) \/ CreateBegin(o)
  \/ GetOperator(o) \/ RevealOperator(o) \/ GetSystem(o) \/ RevealSystem(o)
  \/ Push(o) \/ Finish(o) \/ Lost(o)

Next ==
  \/ \E c \in Ctls : Bootstrap(c) /\ UNCHANGED genVars
  \/ \E o \in Creations : Create(o)

Spec == Init /\ [][Next]_vars

-----------------------------------------------------------------------------
\* The types of the variables.
TypeOK ==
  /\ SecretTypeOK
  /\ pc \in [Creations -> {"idle", "done", "failed", "lost"} \cup GenPCs]
  /\ sent \subseteq {Jwt(o) : o \in Creations}
  /\ accepted \in SUBSET Creations
  /\ \A o \in Creations :
       record[o] \in {Nothing, Provisioned(o), [account |-> Nothing, signing_keys |-> {}]}
  /\ failedAt \in [Creations -> {Nothing} \cup GenPCs]

Generated(o) == record[o] # Nothing /\ record[o].account = o

\* A lattice is not stored as Created with a generated account before the
\* account's JWT went to the cluster.
CreatedWasPushed ==
  \A o \in Creations : Generated(o) => \E j \in sent : j.account = o

\* An account the cluster knows belongs to a creation that got through or that
\* failed or died at the push or after it: no creation that lacks a seed leaves
\* an account behind.
OrphanHasCause ==
  \A o \in accepted :
    pc[o] \in {"finish", "done"} \/ failedAt[o] \in {"push", "finish"}

\* The keys a Created lattice lists for the scopes user and rpc can sign for its
\* account: the JWT that was sent names them.
ScopeKeysSign ==
  \A o \in Creations : Generated(o) =>
    \E j \in sent :
      j.account = o /\ record[o].signing_keys \cap {"user", "rpc"} \subseteq j.signing_keys

=============================================================================
