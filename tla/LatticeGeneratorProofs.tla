------------------------ MODULE LatticeGeneratorProofs ------------------------
(***************************************************************************)
(* Proofs about LatticeGenerator for any creations, bootstraps and xkeys.  *)
(***************************************************************************)
EXTENDS LatticeGenerator, TLAPS

-----------------------------------------------------------------------------
(* What a creation has sent. *)

\* An account's JWT is sent, and the account known, only by a creation that came
\* to the push, and which did not fail before; a record with a generated account
\* is of a creation that sent it.
PushInv ==
  /\ pc \in [Creations -> {"idle", "done", "failed", "lost"} \cup GenPCs]
  /\ failedAt \in [Creations -> {Nothing} \cup GenPCs]
  /\ DOMAIN record = Creations
  /\ accepted \subseteq Creations
  /\ \A o \in Creations : pc[o] = "finish" => Jwt(o) \in sent
  /\ \A o \in Creations : Generated(o) => record[o] = Provisioned(o) /\ Jwt(o) \in sent
  /\ \A o \in accepted :
       \/ pc[o] \in {"finish", "done"}
       \/ pc[o] \in {"failed", "lost"} /\ failedAt[o] \in {"push", "finish"}

LEMMA PushInvInit == Init => PushInv
BY DEF Init, PushInv, GenPCs, Generated

LEMMA PushInvStep ==
  ASSUME PushInv, NEW o \in Creations, Create(o)
  PROVE  PushInv'
<1>. USE DEF PushInv, GenPCs, Generated
<1>1. CASE CreateNamed(o)
  BY <1>1, GeneratorAssumption DEF CreateNamed, Step
<1>2. CASE CreateBegin(o)
  BY <1>2 DEF CreateBegin, Step
<1>3. ASSUME NEW k, NEW from \in {"getOperator", "revealOperator", "getSystem", "revealSystem"},
             NEW to \in GenPCs \ {"finish"}, ReadSecret(o, k, from, to)
      PROVE  PushInv'
  BY <1>3 DEF ReadSecret, Step, Fails
<1>4. CASE GetOperator(o) \/ RevealOperator(o) \/ GetSystem(o) \/ RevealSystem(o)
  BY <1>3, <1>4 DEF GetOperator, RevealOperator, GetSystem, RevealSystem
<1>5. CASE Push(o)
  BY <1>5 DEF Push, Step, Fails
<1>6. CASE Finish(o)
  <2>1. pc[o] = "finish" /\ Jwt(o) \in sent /\ UNCHANGED <<sent, accepted>>
    BY <1>6 DEF Finish, Step, Fails
  <2>2. \/ record' = record
        \/ record' = [record EXCEPT ![o] = Provisioned(o)]
    BY <1>6 DEF Finish
  <2>3. \A p \in Creations :
          Generated(p)' => record'[p] = Provisioned(p) /\ Jwt(p) \in sent
    BY <2>1, <2>2
  <2>4. \/ pc' = [pc EXCEPT ![o] = "done"] /\ failedAt' = failedAt
        \/ pc' = [pc EXCEPT ![o] = "failed"] /\ failedAt' = [failedAt EXCEPT ![o] = "finish"]
    BY <1>6 DEF Finish, Step, Fails
  <2>5. DOMAIN record' = Creations
    BY <2>2
  <2>. QED  BY <2>1, <2>3, <2>4, <2>5
<1>7. CASE Lost(o)
  BY <1>7 DEF Lost
<1>. QED  BY <1>1, <1>2, <1>4, <1>5, <1>6, <1>7 DEF Create

\* The invariant holds in every reachable state.
THEOREM Invariance == Spec => []PushInv
<1>1. PushInv /\ UNCHANGED genVars => PushInv'
  BY DEF PushInv, genVars, Generated
<1>2. PushInv /\ [Next]_vars => PushInv'
  BY <1>1, PushInvStep DEF Next, vars
<1>. QED  BY <1>2, PushInvInit, PTL DEF Spec

\* A record with a generated account was not stored before the account's JWT
\* went to the cluster, whatever fails or dies on the way.
THEOREM PushedCorrect == Spec => []CreatedWasPushed
<1>1. PushInv => CreatedWasPushed
  BY DEF PushInv, CreatedWasPushed, Jwt
<1>. QED  BY <1>1, Invariance, PTL

\* No creation that did not come to the push leaves an account in the cluster.
THEOREM OrphanCorrect == Spec => []OrphanHasCause
<1>1. PushInv => OrphanHasCause
  BY DEF PushInv, OrphanHasCause
<1>. QED  BY <1>1, Invariance, PTL

\* The keys listed for the scopes are in the JWT that was sent.
THEOREM ScopeKeysCorrect == Spec => []ScopeKeysSign
<1>1. \A o : /\ Jwt(o).account = o
             /\ Provisioned(o).signing_keys \cap {"user", "rpc"} \subseteq Jwt(o).signing_keys
  BY DEF Jwt, Provisioned, ScopedSigners
<1>2. PushInv => ScopeKeysSign
  BY <1>1 DEF PushInv, ScopeKeysSign
<1>. QED  BY <1>2, Invariance, PTL

-----------------------------------------------------------------------------
(* Bootstraps, concurrent with creations and with each other. *)

\* Once a run is past a seed, the seed is stored: with its own xkey, or with
\* the xkey of a run that stored it later.
Kept(c, k) ==
  \/ Opens(CtlKey[c], k)
  \/ \E d \in Ctls : CtlKey[d] # CtlKey[c] /\ k \in put[d] /\ Opens(CtlKey[d], k)

SecretInv ==
  /\ SecretTypeOK
  /\ \A c \in Ctls : ctl[c] \in {"getSystem", "setSystem", "done"} => Kept(c, "operator")
  /\ \A c \in Ctls : ctl[c] = "done" => Kept(c, "system")

LEMMA SecretInvInit == Init => SecretInv
BY DEF Init, SecretInit, SecretInv, SecretTypeOK, CtlPCs, SecretKeys

\* A seed that is stored anew is kept for every run.
LEMMA SetKeeps ==
  ASSUME SecretInv, NEW c \in Ctls, NEW k \in SecretKeys,
         Set(CtlKey[c], k), put' = [put EXCEPT ![c] = @ \cup {k}]
  PROVE  /\ \A d \in Ctls : Kept(d, k)'
         /\ \A d \in Ctls, l \in SecretKeys : l # k /\ Kept(d, l) => Kept(d, l)'
BY SecretsAssumption DEF SecretInv, SecretTypeOK, Kept, Opens, Set

LEMMA SecretInvStep == SecretInv /\ [Next]_vars => SecretInv'
<1>1. ASSUME SecretInv, UNCHANGED secretVars PROVE SecretInv'
  BY <1>1 DEF SecretInv, SecretTypeOK, secretVars, Kept, Opens
<1>2. ASSUME SecretInv, NEW c \in Ctls, NEW k \in SecretKeys, NEW from, NEW missing, NEW found,
             <<k, from, missing, found>> \in
               {<<"operator", "getOperator", "setOperator", "getSystem">>,
                <<"system", "getSystem", "setSystem", "done">>},
             CtlGet(c, k, from, missing, found)
      PROVE  SecretInv'
  BY <1>2 DEF CtlGet, CtlStep, SecretInv, SecretTypeOK, CtlPCs, Kept, Opens
<1>3. ASSUME SecretInv, NEW c \in Ctls, NEW k \in SecretKeys, NEW from, NEW to,
             <<k, from, to>> \in {<<"operator", "setOperator", "getSystem">>,
                                  <<"system", "setSystem", "done">>},
             CtlSet(c, k, from, to)
      PROVE  SecretInv'
  <2>1. ctl[c] = from /\ ctl' \in {[ctl EXCEPT ![c] = to], [ctl EXCEPT ![c] = "panicked"]}
    BY <1>3 DEF CtlSet, CtlStep
  <2>2. CASE UNCHANGED <<store, put>> /\ ctl' = [ctl EXCEPT ![c] = "panicked"]
    BY <1>3, <2>2 DEF SecretInv, SecretTypeOK, CtlPCs, Kept, Opens
  <2>3. CASE Set(CtlKey[c], k) /\ put' = [put EXCEPT ![c] = @ \cup {k}]
    <3>1. /\ \A d \in Ctls : Kept(d, k)'
          /\ \A d \in Ctls, l \in SecretKeys : l # k /\ Kept(d, l) => Kept(d, l)'
      BY <1>3, <2>3, SetKeeps
    <3>2. SecretTypeOK'
      BY <1>3, <2>1, <2>3, SecretsAssumption DEF Set, SecretInv, SecretTypeOK, CtlPCs
    <3>3. \A d \in Ctls : ctl'[d] \in {"getSystem", "setSystem", "done"} => Kept(d, "operator")'
      BY <1>3, <2>1, <3>1 DEF SecretInv, SecretTypeOK, SecretKeys
    <3>4. \A d \in Ctls : ctl'[d] = "done" => Kept(d, "system")'
      BY <1>3, <2>1, <3>1 DEF SecretInv, SecretTypeOK, SecretKeys
    <3>. QED  BY <3>2, <3>3, <3>4 DEF SecretInv
  <2>. QED  BY <1>3, <2>2, <2>3 DEF CtlSet, CtlStep
<1>4. Next => UNCHANGED secretVars \/ \E c \in Ctls : Bootstrap(c)
  BY DEF Next, Create, CreateNamed, CreateBegin, GetOperator, RevealOperator,
         GetSystem, RevealSystem, ReadSecret, Push, Finish, Lost
<1>5. "operator" \in SecretKeys /\ "system" \in SecretKeys
  BY DEF SecretKeys
<1>. QED  BY <1>1, <1>2, <1>3, <1>4, <1>5 DEF Bootstrap, vars

\* A bootstrap that succeeded leaves both seeds for its xkey, unless one with
\* another xkey stored its own over them.
THEOREM SecretsCorrect == Spec => []BootstrapLeavesSecrets
<1>1. SecretInv => BootstrapLeavesSecrets
  BY DEF SecretInv, BootstrapLeavesSecrets, Kept, SecretKeys
<1>. QED  BY <1>1, SecretInvInit, SecretInvStep, PTL DEF Spec

-----------------------------------------------------------------------------
(* Types *)

GenTypes ==
  /\ pc \in [Creations -> {"idle", "done", "failed", "lost"} \cup GenPCs]
  /\ sent \subseteq {Jwt(o) : o \in Creations}
  /\ accepted \in SUBSET Creations
  /\ DOMAIN record = Creations
  /\ \A o \in Creations :
       record[o] \in {Nothing, Provisioned(o), [account |-> Nothing, signing_keys |-> {}]}
  /\ failedAt \in [Creations -> {Nothing} \cup GenPCs]

LEMMA GenTypesStep ==
  ASSUME GenTypes, NEW o \in Creations, Create(o)
  PROVE  GenTypes'
<1>. USE DEF GenTypes, GenPCs
<1>1. ASSUME NEW k, NEW from \in GenPCs, NEW to \in GenPCs, ReadSecret(o, k, from, to)
      PROVE  GenTypes'
  BY <1>1 DEF ReadSecret, Step, Fails
<1>2. CASE GetOperator(o) \/ RevealOperator(o) \/ GetSystem(o) \/ RevealSystem(o)
  BY <1>1, <1>2 DEF GetOperator, RevealOperator, GetSystem, RevealSystem
<1>3. CASE CreateNamed(o) \/ CreateBegin(o) \/ Lost(o)
  BY <1>3 DEF CreateNamed, CreateBegin, Lost, Step
<1>4. CASE Push(o)
  BY <1>4 DEF Push, Step, Fails
<1>5. CASE Finish(o)
  BY <1>5 DEF Finish, Step, Fails
<1>. QED  BY <1>2, <1>3, <1>4, <1>5 DEF Create

\* The variables keep their types for any creations, bootstraps and xkeys.
THEOREM TypeCorrect == Spec => []TypeOK
<1>1. Init => GenTypes
  BY DEF Init, GenTypes, GenPCs
<1>2. GenTypes /\ [Next]_vars => GenTypes'
  <2>1. GenTypes /\ UNCHANGED genVars => GenTypes'
    BY DEF GenTypes, genVars
  <2>. QED  BY <2>1, GenTypesStep DEF Next, vars
<1>3. SecretInv /\ GenTypes => TypeOK
  BY DEF SecretInv, GenTypes, TypeOK
<1>. QED  BY <1>1, <1>2, <1>3, SecretInvInit, SecretInvStep, PTL DEF Spec

=============================================================================
