--------------------------- MODULE LatticeService ---------------------------
(***************************************************************************)
(* The calls of the Lattice service that change state: add_lattice,        *)
(* update_lattice and delete_lattice of src/src/lattice_wrpc.rs.           *)
(*                                                                         *)
(* The service keeps nothing in memory: an instance runs up to sixteen     *)
(* invocations of each function concurrently, instances share the queue    *)
(* group "lattices", and all of them work on one bucket.  A call is        *)
(* therefore an element of Ops that runs on its own, and one step of it is *)
(* one await: the remote operation it names and what the handler does      *)
(* until the next await.  A remote operation may fail before it has an     *)
(* effect (CallFails) or after it (the "failed" alternative of each write: *)
(* the acknowledgement is lost), and an instance may crash with any of the *)
(* calls it is running.                                                    *)
(*                                                                         *)
(* Ulid::new() and Uuid::new_v4() are abstracted to the call that draws    *)
(* them: the fresh uid and the fresh version of call o are both o.         *)
(***************************************************************************)
EXTENDS LatticeBucket

CONSTANTS
  Ops,            \* the calls; each one is made once
  Requests,       \* what a call may ask for
  ClientVersions, \* versions a client may put in a lattice it adds
  NoName,         \* the empty string where a name is expected
  HasComponent    \* is a lattice-generator component configured?

Fields == {"account", "description", "signing_keys", "deletable"}
Paths == Fields \cup {"unknown"}

AddRequest ==
  [kind: {"add"}, name: Names \cup {NoName},
   version: ClientVersions \cup {Nothing}, given: SUBSET Fields]
UpdateRequest ==
  [kind: {"update"}, name: Names, mask: SUBSET Paths, given: SUBSET Fields]
DeleteRequest == [kind: {"delete"}, name: Names]

ASSUME RequestsAssumption ==
  Requests \subseteq AddRequest \cup UpdateRequest \cup DeleteRequest
ASSUME DistinctAssumption ==
  /\ Nothing \notin Ops \cup ClientVersions
  /\ Nothing \notin Requests
  /\ NoName \notin Names
  /\ Ops \cap ClientVersions = {}
ASSUME HasComponentAssumption == HasComponent \in BOOLEAN

Phases == {"Provisioning", "Created", "Deleting"}

\* A stored lattice.  data[f] is the call that gave field f its value, Nothing
\* when f is None (false, for deletable).
Lattice ==
  [name: Names, uid: Ops, version: Ops \cup ClientVersions,
   phase: Phases, data: [Fields -> Ops \cup {Nothing}]]

ASSUME NothingIsNoLattice == Nothing \notin Lattice

VARIABLES
  aux,      \* aux[b]: the names n for which the bucket b_n exists
  apps,     \* names whose wadm lists at least one application (external)
  pc,       \* pc[o]: the await call o is at
  call,     \* call[o]: the request of call o
  lat,      \* lat[o]: the handler's local `lattice`
  rev,      \* rev[o]: add_lattice's local `revision`
  written   \* history: written[n] is every record ever put under n

localVars == <<pc, call, lat, rev>>
vars == <<kv, seq, aux, apps, pc, call, lat, rev, written>>

AddPCs == {"data", "config", "put", "component", "finish"}
UpdatePCs == {"read", "rewrite"}
DeletePCs == {"find", "apps", "mark", "remove"}
InFlightPCs == AddPCs \cup UpdatePCs \cup DeletePCs
Ended == {"done", "failed", "lost"}
PCs == {"idle"} \cup InFlightPCs \cup Ended
InFlight == {o \in Ops : pc[o] \in InFlightPCs}

Calls(kind) == {o \in Ops : call[o] # Nothing /\ call[o].kind = kind}
Acked(kind) == {o \in Calls(kind) : pc[o] = "done"}

Init ==
  /\ BucketInit
  /\ aux = [b \in {"LATTICEDATA", "CONFIGDATA"} |-> {}]
  /\ apps = {}
  /\ pc = [o \in Ops |-> "idle"]
  /\ call = [o \in Ops |-> Nothing]
  /\ lat = [o \in Ops |-> Nothing]
  /\ rev = [o \in Ops |-> 0]
  /\ written = [n \in Names |-> {}]

-----------------------------------------------------------------------------
Step(o, from, to) ==
  /\ pc[o] = from
  /\ pc' = [pc EXCEPT ![o] = to]

\* A write whose acknowledgement arrives leads to `to`, one whose
\* acknowledgement is lost makes the handler return its error.
WriteStep(o, from, to) == Step(o, from, to) \/ Step(o, from, "failed")

Target(o) == call[o].name

\* The record is packed and put under the call's name.
Store(n, l) ==
  /\ Put(n, l)
  /\ written' = [written EXCEPT ![n] = @ \cup {l}]

SetLat(o, l) == lat' = [lat EXCEPT ![o] = l]
SetCall(o, r) == call' = [call EXCEPT ![o] = r]

-----------------------------------------------------------------------------
(* add_lattice *)

NewLattice(o, r) ==
  [name    |-> r.name,
   uid     |-> o,
   version |-> IF r.version = Nothing THEN o ELSE r.version,
   phase   |-> "Provisioning",
   data    |-> [f \in Fields |-> IF f \in r.given THEN o ELSE Nothing]]

AddRejected(o, r) ==
  /\ r.kind = "add"
  /\ r.name = NoName
  /\ Step(o, "idle", "failed")
  /\ SetCall(o, r)
  /\ UNCHANGED <<kv, seq, aux, apps, lat, rev, written>>

AddBegin(o, r) ==
  /\ r.kind = "add"
  /\ r.name # NoName
  /\ Step(o, "idle", "data")
  /\ SetCall(o, r)
  /\ SetLat(o, NewLattice(o, r))
  /\ UNCHANGED <<kv, seq, aux, apps, rev, written>>

\* create_key_value succeeds when the bucket already exists.
CreateKeyValue(b, n) == aux' = [aux EXCEPT ![b] = @ \cup {n}]

AddCreateData(o) ==
  /\ WriteStep(o, "data", "config")
  /\ CreateKeyValue("LATTICEDATA", Target(o))
  /\ UNCHANGED <<kv, seq, apps, call, lat, rev, written>>

\* Variant: an error of the second create_key_value is not returned.
AddCreateConfig_IgnoresError(o) ==
  /\ Step(o, "config", "put")
  /\ CreateKeyValue("CONFIGDATA", Target(o)) \/ UNCHANGED aux
  /\ UNCHANGED <<kv, seq, apps, call, lat, rev, written>>

AddCreateConfig(o) ==
  /\ WriteStep(o, "config", "put")
  /\ CreateKeyValue("CONFIGDATA", Target(o))
  /\ UNCHANGED <<kv, seq, apps, call, lat, rev, written>>

AfterPut == IF HasComponent THEN "component" ELSE "finish"

AddPut(o) ==
  /\ WriteStep(o, "put", AfterPut)
  /\ Store(Target(o), lat[o])
  /\ rev' = [rev EXCEPT ![o] = seq + 1]
  /\ UNCHANGED <<aux, apps, call, lat>>

\* A lattice crosses to the component's types and back, field by field and
\* phase by phase; account, signing keys, description and deletable are `data`.
Copied(l) ==
  [name |-> l.name, uid |-> l.uid, version |-> l.version,
   phase |-> [p \in Phases |-> p][l.phase],
   data |-> [f \in Fields |-> l.data[f]]]

ToGenerator(l) == Copied(l)

\* Variant: the description is not copied back.
FromGenerator_DropsDescription(l) ==
  [Copied(l) EXCEPT !.data["description"] = Nothing]

FromGenerator(l) == Copied(l)

\* Variant: the component does not look whether an account was named.
Generated_AlwaysNew(o, l) ==
  [l EXCEPT !.data = [@ EXCEPT !["account"] = o, !["signing_keys"] = o]]

\* The lattice-generator component leaves a lattice that names an account
\* alone and otherwise gives it an account and signing keys.
Generated(o, l) ==
  IF l.data["account"] # Nothing THEN l
  ELSE [l EXCEPT !.data = [@ EXCEPT !["account"] = o, !["signing_keys"] = o]]

AddComponent(o) ==
  /\ Step(o, "component", "finish")
  /\ SetLat(o, FromGenerator(Generated(o, ToGenerator(lat[o]))))
  /\ UNCHANGED <<kv, seq, aux, apps, call, rev, written>>

\* Variant: the phase is not assigned before the last write.
Created_KeepsPhase(o) == lat[o]

Created(o) == [lat[o] EXCEPT !.phase = "Created"]

\* Variant: bucket.put where the code has bucket.update.
AddFinish_BlindPut(o) ==
  /\ WriteStep(o, "finish", "done")
  /\ Store(Target(o), Created(o))
  /\ SetLat(o, Created(o))
  /\ UNCHANGED <<aux, apps, call, rev>>

AddFinish(o) ==
  /\ WriteStep(o, "finish", "done")
  /\ Matches(Target(o), rev[o])
  /\ Store(Target(o), Created(o))
  /\ SetLat(o, Created(o))
  /\ UNCHANGED <<aux, apps, call, rev>>

\* Variant: a conflict is retried with the revision that just failed.
AddConflict_RetriesForever(o) ==
  /\ pc[o] = "finish"
  /\ ~Matches(Target(o), rev[o])
  /\ UNCHANGED vars

AddConflict(o) ==
  /\ Step(o, "finish", "failed")
  /\ ~Matches(Target(o), rev[o])
  /\ SetLat(o, Created(o))
  /\ UNCHANGED <<kv, seq, aux, apps, call, rev, written>>

-----------------------------------------------------------------------------
(* update_lattice *)

UpdateRejected(o, r) ==
  /\ r.kind = "update"
  /\ r.mask = {}
  /\ Step(o, "idle", "failed")
  /\ SetCall(o, r)
  /\ UNCHANGED <<kv, seq, aux, apps, lat, rev, written>>

UpdateBegin(o, r) ==
  /\ r.kind = "update"
  /\ r.mask # {}
  /\ Step(o, "idle", "read")
  /\ SetCall(o, r)
  /\ UNCHANGED <<kv, seq, aux, apps, lat, rev, written>>

Modifies(r) == r.mask \cap Fields # {}

\* Variant: the update does not draw a new version.
Patched_KeepsVersion(o, l) ==
  [l EXCEPT !.data = [f \in Fields |->
     IF f \notin call[o].mask THEN l.data[f]
     ELSE IF f \in call[o].given THEN o ELSE Nothing]]

\* Variant: the update stores an empty version.
Patched_NoVersion(o, l) == [Patched_KeepsVersion(o, l) EXCEPT !.version = Nothing]

\* A masked field takes the value of the request, None included; the version
\* is new.
Patched(o, l) ==
  [l EXCEPT
    !.version = o,
    !.data = [f \in Fields |->
                IF f \notin call[o].mask THEN l.data[f]
                ELSE IF f \in call[o].given THEN o ELSE Nothing]]

\* A get that finds a lattice keeps it; one that finds none ends the call.
Find(o, from, to) ==
  \/ /\ Step(o, from, to)
     /\ Live(Target(o))
     /\ SetLat(o, Get(Target(o)))
  \/ /\ Step(o, from, "failed")
     /\ ~Live(Target(o))
     /\ UNCHANGED lat

UpdateRead(o) ==
  /\ pc[o] = "read"
  /\ \/ Modifies(call[o]) /\ Find(o, "read", "rewrite")
     \/ ~Modifies(call[o]) /\ Find(o, "read", "done")
  /\ UNCHANGED <<kv, seq, aux, apps, call, rev, written>>

\* Variant: the update answers although its put failed.
UpdateRewrite_IgnoresError(o) ==
  /\ Step(o, "rewrite", "done")
  /\ Store(Target(o), Patched(o, lat[o])) \/ UNCHANGED <<kv, seq, written>>
  /\ SetLat(o, Patched(o, lat[o]))
  /\ UNCHANGED <<aux, apps, call, rev>>

UpdateRewrite(o) ==
  /\ WriteStep(o, "rewrite", "done")
  /\ Store(Target(o), Patched(o, lat[o]))
  /\ SetLat(o, Patched(o, lat[o]))
  /\ UNCHANGED <<aux, apps, call, rev>>

-----------------------------------------------------------------------------
(* delete_lattice *)

DeleteBegin(o, r) ==
  /\ r.kind = "delete"
  /\ Step(o, "idle", "find")
  /\ SetCall(o, r)
  /\ UNCHANGED <<kv, seq, aux, apps, lat, rev, written>>

DeleteFind(o) ==
  /\ Find(o, "find", "apps")
  /\ UNCHANGED <<kv, seq, aux, apps, call, rev, written>>

DeleteCheckApps(o) ==
  /\ \/ Step(o, "apps", "mark") /\ Target(o) \notin apps
     \/ Step(o, "apps", "failed") /\ Target(o) \in apps
  /\ UNCHANGED <<kv, seq, aux, apps, call, lat, rev, written>>

Deleting(l) == [l EXCEPT !.phase = "Deleting"]

DeleteMark(o) ==
  /\ WriteStep(o, "mark", "remove")
  /\ Store(Target(o), Deleting(lat[o]))
  /\ SetLat(o, Deleting(lat[o]))
  /\ UNCHANGED <<aux, apps, call, rev>>

\* Variant: the delete answers although the removal failed.
DeleteRemove_IgnoresError(o) ==
  /\ Step(o, "remove", "done")
  /\ Delete(Target(o)) \/ UNCHANGED bucketVars
  /\ UNCHANGED <<aux, apps, call, lat, rev, written>>

DeleteRemove(o) ==
  /\ WriteStep(o, "remove", "done")
  /\ Delete(Target(o))
  /\ UNCHANGED <<aux, apps, call, lat, rev, written>>

-----------------------------------------------------------------------------
\* A remote operation fails without effect, or the component returns an error
\* or traps: the handler returns.
CallFails(o) ==
  /\ pc[o] \in InFlightPCs
  /\ pc' = [pc EXCEPT ![o] = "failed"]
  /\ UNCHANGED <<kv, seq, aux, apps, call, lat, rev, written>>

\* An instance dies with the calls it is running; their clients get no answer.
Crash ==
  \E lost \in SUBSET InFlight :
    /\ lost # {}
    /\ pc' = [o \in Ops |-> IF o \in lost THEN "lost" ELSE pc[o]]
    /\ UNCHANGED <<kv, seq, aux, apps, call, lat, rev, written>>

\* Applications are deployed and undeployed through wadm, at any time.
AppsChange(n) ==
  /\ apps' = IF n \in apps THEN apps \ {n} ELSE apps \cup {n}
  /\ UNCHANGED <<kv, seq, aux, localVars, written>>

Begin(o) ==
  \E r \in Requests :
    \/ AddRejected(o, r)
    \/ AddBegin(o, r)
    \/ UpdateRejected(o, r)
    \/ UpdateBegin(o, r)
    \/ DeleteBegin(o, r)

\* The handler's own steps, the component's apart.
Advance(o) ==
  \/ AddCreateData(o) \/ AddCreateConfig(o) \/ AddPut(o)
  \/ AddFinish(o) \/ AddConflict(o)
  \/ UpdateRead(o) \/ UpdateRewrite(o)
  \/ DeleteFind(o) \/ DeleteCheckApps(o) \/ DeleteMark(o) \/ DeleteRemove(o)

Next ==
  \/ \E o \in Ops : Begin(o) \/ Advance(o) \/ AddComponent(o) \/ CallFails(o)
  \/ Crash
  \/ \E n \in Names : AppsChange(n)

Spec == Init /\ [][Next]_vars

\* Every remote operation the handlers await has a client-side timeout, so the
\* handler's steps are weakly fair; the component has no effective time limit
\* (nothing advances the engine's epoch), so its step is not.
FairSpec == Spec /\ \A o \in Ops : WF_vars(Advance(o))

-----------------------------------------------------------------------------
(* Type invariant *)

\* The types of the variables.
TypeOK ==
  /\ kv \in [Names -> Entry(Lattice)]
  /\ seq \in Nat
  /\ aux \in [{"LATTICEDATA", "CONFIGDATA"} -> SUBSET Names]
  /\ apps \in SUBSET Names
  /\ pc \in [Ops -> PCs]
  /\ call \in [Ops -> Requests \cup {Nothing}]
  /\ lat \in [Ops -> Lattice \cup {Nothing}]
  /\ rev \in [Ops -> Nat]
  /\ written \in [Names -> SUBSET Lattice]

-----------------------------------------------------------------------------
(* Safety *)

\* A lattice is never in the bucket, and never was, without the two buckets
\* its hosts read: add_lattice creates both before it stores anything, and no
\* failure or crash between the three leaves a lattice without them.
AuxBeforeRecord ==
  \A n \in Names : written[n] # {} => \A b \in DOMAIN aux : n \in aux[b]

\* The version identifies what a client can read: records of one lattice (one
\* uid) with the same version agree on description and deletable, however
\* adds, updates and deletes interleave.  (The component adds account and
\* keys, and add and delete move the phase, without a new version.)
VersionIdentifiesData ==
  \A n \in Names : \A r, s \in written[n] :
    r.uid = s.uid /\ r.version = s.version =>
      \A f \in {"description", "deletable"} : r.data[f] = s.data[f]

\* What a successful call told its client (the version of an add or an update,
\* the lattice of a delete) was stored in exactly that form.
AckedWasStored ==
  \A o \in Ops : pc[o] = "done" => lat[o] \in written[Target(o)]

\* Once a delete was acknowledged, only the blind put of an update, or of
\* another delete, can bring the lattice back: an add that was still
\* provisioning it never does.
OnlyRewritesResurrect ==
  \A n \in Names : Live(n) =>
    \A o \in Acked("delete") :
      Get(n).uid = lat[o].uid =>
        Get(n).phase = "Deleting" \/ Get(n).version \in Calls("update")

\* A lattice is found Provisioning only while its add is running or after that
\* add failed or died, or because an update put back what it had read: an
\* acknowledged add has left a Created lattice.
ProvisioningHasCause ==
  \A n \in Names : Live(n) /\ Get(n).phase = "Provisioning" =>
    \/ pc[Get(n).uid] \in {"component", "finish", "failed", "lost"}
    \/ Get(n).version \in Calls("update")

\* A lattice is found Deleting only while a delete of it is about to remove it
\* or after such a delete failed or died, or because an update put back what
\* it had read: no acknowledged delete leaves the marked record behind.
DeletingHasCause ==
  \A n \in Names : Live(n) /\ Get(n).phase = "Deleting" =>
    \/ \E o \in Calls("delete") :
         /\ lat[o] = Get(n)
         /\ pc[o] \in {"remove", "failed", "lost"}
    \/ Get(n).version \in Calls("update")

-----------------------------------------------------------------------------
(* Action properties *)

\* The last write of an add replaces the record that very add provisioned and
\* nothing else: not what an update, a delete or an add of the same name did
\* while the component ran.  (bucket.update with the revision of the put.)
FinishReplacesOwnRecord ==
  [][\A o \in Ops :
       pc[o] = "finish" /\ kv' # kv /\ pc'[o] # pc[o] =>
         /\ Live(Target(o))
         /\ Get(Target(o)).uid = o
         /\ Get(Target(o)).version = lat[o].version
         /\ Get(Target(o)).phase = "Provisioning"]_vars

-----------------------------------------------------------------------------
(* What the interface says and the handlers do not do *)

\* The uid "is to distinguish between objects with the same name that may have
\* existed in different points in time" (src/wit/lattice.wit): the writes of a
\* delete touch only the lattice the delete looked up.
DeleteTouchesItsLattice ==
  [][\A o \in Calls("delete") :
       pc[o] \in {"mark", "remove"} /\ kv' # kv /\ pc'[o] # pc[o] /\ Live(Target(o)) =>
         Get(Target(o)).uid = lat[o].uid]_vars

\* The mask names "the fields to update on the lattice" (src/wit/lattice.wit):
\* an update of a lattice leaves the fields outside its mask as they are.
UpdateKeepsOtherFields ==
  [][\A o \in Calls("update") :
       pc[o] = "rewrite" /\ pc'[o] = "done" /\ Live(Target(o)) =>
         (Get(Target(o)).uid = lat[o].uid =>
            \A f \in Fields \ call[o].mask :
              kv'[Target(o)].val.data[f] = Get(Target(o)).data[f])]_vars

-----------------------------------------------------------------------------
(* Refinement *)

Record(n) == IF Live(n) THEN Get(n) ELSE Nothing

Lifecycle == INSTANCE LatticeLifecycle
  WITH Records <- Lattice, rec <- [n \in Names |-> Record(n)], past <- written

\* The bucket's content under each name follows LatticeLifecycle.
FollowsLifecycle == Lifecycle!Spec

-----------------------------------------------------------------------------
(* Liveness *)

\* Every call ends, or it is inside the component: no conflict, crash or lost
\* acknowledgement leaves a handler waiting.
EveryCallEnds ==
  \A o \in Ops : o \in InFlight ~> pc[o] \in Ended \cup {"component"}

=============================================================================
