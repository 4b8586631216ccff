------------------------ MODULE LatticeServiceProofs ------------------------
(***************************************************************************)
(* Proofs about LatticeService, and that it implements LatticeLifecycle,   *)
(* for any sets of names, calls, requests and client versions, with and    *)
(* without a component.                                                    *)
(***************************************************************************)
EXTENDS LatticeService, TLAPS

-----------------------------------------------------------------------------
(* What the handlers rely on at each await. *)

\* The program counters at which the local `lattice` has been assigned.
HasLatPCs == AddPCs \cup {"rewrite", "apps", "mark", "remove", "done"}

\* A running call has a request of its own kind with a proper name, and, from
\* the moment it is assigned, a lattice in hand.
CallOK(o) ==
  /\ pc[o] \in InFlightPCs \cup {"done"} => call[o] \in Requests /\ Target(o) \in Names
  /\ pc[o] \in AddPCs => call[o].kind = "add"
  /\ pc[o] \in UpdatePCs => call[o].kind = "update"
  /\ pc[o] \in DeletePCs => call[o].kind = "delete"
  /\ pc[o] \in HasLatPCs => lat[o] \in Lattice

\* A key whose last message is a put holds a lattice.
KeyOK(n) == Live(n) => Get(n) \in Lattice

TypeInv ==
  /\ TypeOK
  /\ \A o \in Ops : CallOK(o)
  /\ \A n \in Names : KeyOK(n)

-----------------------------------------------------------------------------
(* Lemmas: the helpers preserve the types. *)

\* A version or a phase is replaced, the component adds an account: the result
\* is still a lattice.
LEMMA DerivedLattices ==
  ASSUME NEW o \in Ops, NEW l \in Lattice
  PROVE  /\ Patched(o, l) \in Lattice
         /\ Deleting(l) \in Lattice
         /\ Generated(o, l) \in Lattice
         /\ lat[o] = l => Created(o) \in Lattice
BY DEF Patched, Deleting, Created, Generated, Lattice, Phases, Fields

\* A lattice survives the way to the component's types and back: no field and
\* no phase is lost or changed.
LEMMA CopiesAreFaithful ==
  ASSUME NEW l \in Lattice
  PROVE  ToGenerator(l) = l /\ FromGenerator(l) = l
<1>1. [p \in Phases |-> p][l.phase] = l.phase
  BY DEF Lattice
<1>2. l.data = [f \in Fields |-> l.data[f]]
  BY DEF Lattice
<1>3. Copied(l) = l
  BY <1>1, <1>2 DEF Copied, Lattice
<1>. QED  BY <1>3 DEF ToGenerator, FromGenerator

\* The component touches an account and signing keys, nothing else.
LEMMA GeneratedKeeps ==
  ASSUME NEW o \in Ops, NEW l \in Lattice
  PROVE  /\ Generated(o, l).uid = l.uid
         /\ Generated(o, l).version = l.version
         /\ Generated(o, l).phase = l.phase
         /\ \A f \in {"description", "deletable"} : Generated(o, l).data[f] = l.data[f]
BY DEF Generated, Lattice, Fields

\* What the service has after the component answered is what the component made.
LEMMA ComponentAnswer ==
  ASSUME NEW o \in Ops, lat[o] \in Lattice, AddComponent(o)
  PROVE  SetLat(o, Generated(o, lat[o])) /\ Generated(o, lat[o]) \in Lattice
<1>1. Generated(o, lat[o]) \in Lattice
  BY DerivedLattices
<1>. QED  BY <1>1, CopiesAreFaithful DEF AddComponent

LEMMA NewLatticeType ==
  ASSUME NEW o \in Ops, NEW r \in Requests, r.kind = "add", r.name # NoName
  PROVE  /\ r.name \in Names
         /\ NewLattice(o, r) \in Lattice
         /\ NewLattice(o, r).uid = o
         /\ NewLattice(o, r).version \in {o} \cup ClientVersions
<1>1. r \in AddRequest
  BY RequestsAssumption DEF AddRequest, UpdateRequest, DeleteRequest
<1>2. r.name \in Names /\ r.version \in ClientVersions \cup {Nothing}
  BY <1>1 DEF AddRequest
<1>. QED  BY <1>2 DEF NewLattice, Lattice, Phases, Fields

\* Updates and deletes always name a key.
LEMMA OtherRequestNames ==
  ASSUME NEW r \in Requests, r.kind \in {"update", "delete"}
  PROVE  r.name \in Names
BY RequestsAssumption DEF AddRequest, UpdateRequest, DeleteRequest

-----------------------------------------------------------------------------
(* Type correctness *)

LEMMA TypeInit == Init => TypeInv
BY DEF Init, BucketInit, NoEntry, TypeInv, TypeOK, CallOK, KeyOK, Live, Entry,
       PCs, InFlightPCs, AddPCs, UpdatePCs, DeletePCs, Ended, HasLatPCs

LEMMA TypeStep ==
  ASSUME TypeInv, Next
  PROVE  TypeInv'
<1>. USE DEF TypeInv, TypeOK, CallOK, KeyOK, Target,
             PCs, InFlightPCs, AddPCs, UpdatePCs, DeletePCs, Ended, HasLatPCs
<1>1. ASSUME NEW o \in Ops, NEW r \in Requests, AddRejected(o, r)
      PROVE  TypeInv'
  BY <1>1 DEF AddRejected, Step, SetCall, Live, Get
<1>2. ASSUME NEW o \in Ops, NEW r \in Requests, AddBegin(o, r)
      PROVE  TypeInv'
  BY <1>2, NewLatticeType DEF AddBegin, Step, SetCall, SetLat, Live, Get
<1>3. ASSUME NEW o \in Ops, NEW r \in Requests, UpdateRejected(o, r)
      PROVE  TypeInv'
  BY <1>3 DEF UpdateRejected, Step, SetCall, Live, Get
<1>4. ASSUME NEW o \in Ops, NEW r \in Requests, UpdateBegin(o, r)
      PROVE  TypeInv'
  BY <1>4, OtherRequestNames DEF UpdateBegin, Step, SetCall, Live, Get
<1>5. ASSUME NEW o \in Ops, NEW r \in Requests, DeleteBegin(o, r)
      PROVE  TypeInv'
  BY <1>5, OtherRequestNames DEF DeleteBegin, Step, SetCall, Live, Get
<1>6. ASSUME NEW o \in Ops, AddCreateData(o) PROVE TypeInv'
  BY <1>6 DEF AddCreateData, WriteStep, Step, CreateKeyValue, Live, Get
<1>7. ASSUME NEW o \in Ops, AddCreateConfig(o) PROVE TypeInv'
  BY <1>7 DEF AddCreateConfig, WriteStep, Step, CreateKeyValue, Live, Get
<1>8. ASSUME NEW o \in Ops, AddPut(o) PROVE TypeInv'
  BY <1>8 DEF AddPut, AfterPut, WriteStep, Step, Store, Put, Message, Entry, Live, Get
<1>9. ASSUME NEW o \in Ops, AddComponent(o) PROVE TypeInv'
  <2>1. pc[o] = "component" /\ lat[o] \in Lattice
    BY <1>9 DEF AddComponent, Step
  <2>2. SetLat(o, Generated(o, lat[o])) /\ Generated(o, lat[o]) \in Lattice
    BY <1>9, <2>1, ComponentAnswer
  <2>. QED  BY <1>9, <2>2 DEF AddComponent, Step, SetLat, Live, Get
<1>10. ASSUME NEW o \in Ops, AddFinish(o) PROVE TypeInv'
  <2>1. pc[o] = "finish" /\ Target(o) \in Names
    BY <1>10 DEF AddFinish, WriteStep, Step
  <2>2. Created(o) \in Lattice
    BY <2>1, DerivedLattices
  <2>3. TypeOK'
    BY <1>10, <2>1, <2>2
       DEF AddFinish, WriteStep, Step, SetLat, Store, Put, Message, Entry
  <2>4. \A p \in Ops : CallOK(p)'
    BY <1>10, <2>1, <2>2 DEF AddFinish, WriteStep, Step, SetLat
  <2>5. \A n \in Names : KeyOK(n)'
    BY <1>10, <2>1, <2>2 DEF AddFinish, Store, Put, Message, Live, Get
  <2>. QED  BY <2>3, <2>4, <2>5
<1>11. ASSUME NEW o \in Ops, AddConflict(o) PROVE TypeInv'
  BY <1>11, DerivedLattices DEF AddConflict, Step, SetLat, Live, Get
<1>12. ASSUME NEW o \in Ops, UpdateRead(o) PROVE TypeInv'
  BY <1>12 DEF UpdateRead, Find, Step, SetLat, Live, Get
<1>13. ASSUME NEW o \in Ops, UpdateRewrite(o) PROVE TypeInv'
  <2>1. pc[o] = "rewrite" /\ Target(o) \in Names /\ lat[o] \in Lattice
    BY <1>13 DEF UpdateRewrite, WriteStep, Step
  <2>2. Patched(o, lat[o]) \in Lattice
    BY <2>1, DerivedLattices
  <2>3. TypeOK'
    BY <1>13, <2>1, <2>2
       DEF UpdateRewrite, WriteStep, Step, SetLat, Store, Put, Message, Entry
  <2>4. \A p \in Ops : CallOK(p)'
    BY <1>13, <2>1, <2>2 DEF UpdateRewrite, WriteStep, Step, SetLat
  <2>5. \A n \in Names : KeyOK(n)'
    BY <1>13, <2>1, <2>2 DEF UpdateRewrite, Store, Put, Message, Live, Get
  <2>. QED  BY <2>3, <2>4, <2>5
<1>14. ASSUME NEW o \in Ops, DeleteFind(o) PROVE TypeInv'
  BY <1>14 DEF DeleteFind, Find, Step, SetLat, Live, Get
<1>15. ASSUME NEW o \in Ops, DeleteCheckApps(o) PROVE TypeInv'
  BY <1>15 DEF DeleteCheckApps, Step, Live, Get
<1>16. ASSUME NEW o \in Ops, DeleteMark(o) PROVE TypeInv'
  <2>1. pc[o] = "mark" /\ Target(o) \in Names /\ lat[o] \in Lattice
    BY <1>16 DEF DeleteMark, WriteStep, Step
  <2>2. Deleting(lat[o]) \in Lattice
    BY <2>1, DerivedLattices
  <2>3. TypeOK'
    BY <1>16, <2>1, <2>2
       DEF DeleteMark, WriteStep, Step, SetLat, Store, Put, Message, Entry
  <2>4. \A p \in Ops : CallOK(p)'
    BY <1>16, <2>1, <2>2 DEF DeleteMark, WriteStep, Step, SetLat
  <2>5. \A n \in Names : KeyOK(n)'
    BY <1>16, <2>1, <2>2 DEF DeleteMark, Store, Put, Message, Live, Get
  <2>. QED  BY <2>3, <2>4, <2>5
<1>17. ASSUME NEW o \in Ops, DeleteRemove(o) PROVE TypeInv'
  BY <1>17 DEF DeleteRemove, WriteStep, Step, Delete, Message, Entry, Live, Get
<1>18. ASSUME NEW o \in Ops, CallFails(o) PROVE TypeInv'
  BY <1>18 DEF CallFails, Live, Get
<1>19. ASSUME Crash PROVE TypeInv'
  BY <1>19 DEF Crash, InFlight, Live, Get
<1>20. ASSUME NEW n \in Names, AppsChange(n) PROVE TypeInv'
  BY <1>20 DEF AppsChange, localVars, Live, Get
<1>. QED
  BY <1>1, <1>2, <1>3, <1>4, <1>5, <1>6, <1>7, <1>8, <1>9, <1>10, <1>11, <1>12,
     <1>13, <1>14, <1>15, <1>16, <1>17, <1>18, <1>19, <1>20
     DEF Next, Begin, Advance

LEMMA TypeStutter == TypeInv /\ UNCHANGED vars => TypeInv'
BY DEF vars, TypeInv, TypeOK, CallOK, KeyOK, Live, Get, Target

\* The variables keep their types, and every running call has what its next
\* step needs.
THEOREM TypeCorrect == Spec => []TypeOK
<1>1. Spec => []TypeInv
  <2>1. TypeInv /\ [Next]_vars => TypeInv'
    BY TypeStep, TypeStutter
  <2>. QED  BY <2>1, TypeInit, PTL DEF Spec
<1>2. TypeInv => TypeOK
  BY DEF TypeInv
<1>. QED  BY <1>1, <1>2, PTL

-----------------------------------------------------------------------------
(* What a call holds, and what it said, was stored. *)

StoredInv ==
  /\ \A n \in Names : Live(n) => Get(n) \in written[n]
  /\ \A o \in Ops :
       pc[o] \in {"rewrite", "apps", "mark", "remove", "done"} =>
         lat[o] \in written[Target(o)]

LEMMA StoredInit == Init => StoredInv
BY DEF Init, BucketInit, NoEntry, StoredInv, Live

LEMMA StoredStep ==
  ASSUME TypeInv, StoredInv, Next
  PROVE  StoredInv'
<1>. USE DEF StoredInv, TypeInv, TypeOK, CallOK, KeyOK, Entry, Live, Get, Target, PCs, InFlightPCs, AddPCs, UpdatePCs,
             DeletePCs, Ended, HasLatPCs
<1>1. ASSUME NEW o \in Ops, NEW r \in Requests, AddRejected(o, r) PROVE StoredInv'
  BY <1>1 DEF AddRejected, Step, SetCall
<1>2. ASSUME NEW o \in Ops, NEW r \in Requests, AddBegin(o, r) PROVE StoredInv'
  BY <1>2 DEF AddBegin, Step, SetCall, SetLat, NewLattice
<1>3. ASSUME NEW o \in Ops, NEW r \in Requests, UpdateRejected(o, r) PROVE StoredInv'
  BY <1>3 DEF UpdateRejected, Step, SetCall
<1>4. ASSUME NEW o \in Ops, NEW r \in Requests, UpdateBegin(o, r) PROVE StoredInv'
  BY <1>4 DEF UpdateBegin, Step, SetCall
<1>5. ASSUME NEW o \in Ops, NEW r \in Requests, DeleteBegin(o, r) PROVE StoredInv'
  BY <1>5 DEF DeleteBegin, Step, SetCall
<1>6. ASSUME NEW o \in Ops, AddCreateData(o) PROVE StoredInv'
  BY <1>6 DEF AddCreateData, WriteStep, Step, CreateKeyValue
<1>7. ASSUME NEW o \in Ops, AddCreateConfig(o) PROVE StoredInv'
  BY <1>7 DEF AddCreateConfig, WriteStep, Step, CreateKeyValue
<1>8. ASSUME NEW o \in Ops, AddPut(o) PROVE StoredInv'
  BY <1>8 DEF AddPut, AfterPut, WriteStep, Step, Store, Put, Message
<1>9. ASSUME NEW o \in Ops, AddComponent(o) PROVE StoredInv'
  <2>1. pc[o] = "component" /\ lat[o] \in Lattice
    BY <1>9 DEF AddComponent, Step
  <2>2. SetLat(o, Generated(o, lat[o])) /\ Generated(o, lat[o]) \in Lattice
    BY <1>9, <2>1, ComponentAnswer
  <2>. QED  BY <1>9, <2>2 DEF AddComponent, Step, SetLat, Generated
<1>10. ASSUME NEW o \in Ops, AddFinish(o) PROVE StoredInv'
  BY <1>10 DEF AddFinish, WriteStep, Step, SetLat, Created, Store, Put, Message
<1>11. ASSUME NEW o \in Ops, AddConflict(o) PROVE StoredInv'
  BY <1>11 DEF AddConflict, Step, SetLat
<1>12. ASSUME NEW o \in Ops, UpdateRead(o) PROVE StoredInv'
  BY <1>12 DEF UpdateRead, Find, Step, SetLat
<1>13. ASSUME NEW o \in Ops, UpdateRewrite(o) PROVE StoredInv'
  BY <1>13 DEF UpdateRewrite, WriteStep, Step, SetLat, Store, Put, Message
<1>14. ASSUME NEW o \in Ops, DeleteFind(o) PROVE StoredInv'
  BY <1>14 DEF DeleteFind, Find, Step, SetLat
<1>15. ASSUME NEW o \in Ops, DeleteCheckApps(o) PROVE StoredInv'
  BY <1>15 DEF DeleteCheckApps, Step
<1>16. ASSUME NEW o \in Ops, DeleteMark(o) PROVE StoredInv'
  BY <1>16 DEF DeleteMark, WriteStep, Step, SetLat, Store, Put, Message
<1>17. ASSUME NEW o \in Ops, DeleteRemove(o) PROVE StoredInv'
  BY <1>17 DEF DeleteRemove, WriteStep, Step, Delete, Message
<1>18. ASSUME NEW o \in Ops, CallFails(o) PROVE StoredInv'
  BY <1>18 DEF CallFails
<1>19. ASSUME Crash PROVE StoredInv'
  BY <1>19 DEF Crash, InFlight
<1>20. ASSUME NEW n \in Names, AppsChange(n) PROVE StoredInv'
  BY <1>20 DEF AppsChange, localVars
<1>. QED
  BY <1>1, <1>2, <1>3, <1>4, <1>5, <1>6, <1>7, <1>8, <1>9, <1>10, <1>11, <1>12, <1>13, <1>14, <1>15, <1>16, <1>17, <1>18, <1>19, <1>20
     DEF Next, Begin, Advance

-----------------------------------------------------------------------------
(* The auxiliary buckets exist before the record. *)

AuxInv ==
  /\ \A o \in Ops :
       /\ pc[o] \in {"config", "put", "component", "finish"} => Target(o) \in aux["LATTICEDATA"]
       /\ pc[o] \in {"put", "component", "finish"} => Target(o) \in aux["CONFIGDATA"]
  /\ AuxBeforeRecord

LEMMA AuxInit == Init => AuxInv
BY DEF Init, AuxInv, AuxBeforeRecord

LEMMA AuxStep ==
  ASSUME TypeInv, StoredInv, AuxInv, Next
  PROVE  AuxInv'
<1>. USE DEF StoredInv, AuxInv, AuxBeforeRecord, TypeInv, TypeOK, CallOK, KeyOK, Entry, Live, Get, Target, PCs, InFlightPCs, AddPCs, UpdatePCs,
             DeletePCs, Ended, HasLatPCs
<1>1. ASSUME NEW o \in Ops, NEW r \in Requests, AddRejected(o, r) PROVE AuxInv'
  BY <1>1 DEF AddRejected, Step, SetCall
<1>2. ASSUME NEW o \in Ops, NEW r \in Requests, AddBegin(o, r) PROVE AuxInv'
  BY <1>2 DEF AddBegin, Step, SetCall, SetLat, NewLattice
<1>3. ASSUME NEW o \in Ops, NEW r \in Requests, UpdateRejected(o, r) PROVE AuxInv'
  BY <1>3 DEF UpdateRejected, Step, SetCall
<1>4. ASSUME NEW o \in Ops, NEW r \in Requests, UpdateBegin(o, r) PROVE AuxInv'
  BY <1>4 DEF UpdateBegin, Step, SetCall
<1>5. ASSUME NEW o \in Ops, NEW r \in Requests, DeleteBegin(o, r) PROVE AuxInv'
  BY <1>5 DEF DeleteBegin, Step, SetCall
<1>6. ASSUME NEW o \in Ops, AddCreateData(o) PROVE AuxInv'
  BY <1>6 DEF AddCreateData, WriteStep, Step, CreateKeyValue
<1>7. ASSUME NEW o \in Ops, AddCreateConfig(o) PROVE AuxInv'
  BY <1>7 DEF AddCreateConfig, WriteStep, Step, CreateKeyValue
<1>8. ASSUME NEW o \in Ops, AddPut(o) PROVE AuxInv'
  BY <1>8 DEF AddPut, AfterPut, WriteStep, Step, Store, Put, Message
<1>9. ASSUME NEW o \in Ops, AddComponent(o) PROVE AuxInv'
  <2>1. pc[o] = "component" /\ lat[o] \in Lattice
    BY <1>9 DEF AddComponent, Step
  <2>2. SetLat(o, Generated(o, lat[o])) /\ Generated(o, lat[o]) \in Lattice
    BY <1>9, <2>1, ComponentAnswer
  <2>. QED  BY <1>9, <2>2 DEF AddComponent, Step, SetLat, Generated
<1>10. ASSUME NEW o \in Ops, AddFinish(o) PROVE AuxInv'
  BY <1>10 DEF AddFinish, WriteStep, Step, SetLat, Created, Store, Put, Message
<1>11. ASSUME NEW o \in Ops, AddConflict(o) PROVE AuxInv'
  BY <1>11 DEF AddConflict, Step, SetLat
<1>12. ASSUME NEW o \in Ops, UpdateRead(o) PROVE AuxInv'
  BY <1>12 DEF UpdateRead, Find, Step, SetLat
<1>13. ASSUME NEW o \in Ops, UpdateRewrite(o) PROVE AuxInv'
  BY <1>13 DEF UpdateRewrite, WriteStep, Step, SetLat, Store, Put, Message
<1>14. ASSUME NEW o \in Ops, DeleteFind(o) PROVE AuxInv'
  BY <1>14 DEF DeleteFind, Find, Step, SetLat
<1>15. ASSUME NEW o \in Ops, DeleteCheckApps(o) PROVE AuxInv'
  BY <1>15 DEF DeleteCheckApps, Step
<1>16. ASSUME NEW o \in Ops, DeleteMark(o) PROVE AuxInv'
  BY <1>16 DEF DeleteMark, WriteStep, Step, SetLat, Store, Put, Message
<1>17. ASSUME NEW o \in Ops, DeleteRemove(o) PROVE AuxInv'
  BY <1>17 DEF DeleteRemove, WriteStep, Step, Delete, Message
<1>18. ASSUME NEW o \in Ops, CallFails(o) PROVE AuxInv'
  BY <1>18 DEF CallFails
<1>19. ASSUME Crash PROVE AuxInv'
  BY <1>19 DEF Crash, InFlight
<1>20. ASSUME NEW n \in Names, AppsChange(n) PROVE AuxInv'
  BY <1>20 DEF AppsChange, localVars
<1>. QED
  BY <1>1, <1>2, <1>3, <1>4, <1>5, <1>6, <1>7, <1>8, <1>9, <1>10, <1>11, <1>12, <1>13, <1>14, <1>15, <1>16, <1>17, <1>18, <1>19, <1>20
     DEF Next, Begin, Advance

-----------------------------------------------------------------------------
(* A revision names one message: if the key still has the revision of an     *)
(* add's put, it still has the record of that put.                           *)

OwnInv ==
  /\ \A n \in Names : kv[n].rev <= seq
  /\ \A o \in Ops : pc[o] \in AddPCs => lat[o].uid = o /\ lat[o].phase = "Provisioning"
  /\ \A o \in Ops : pc[o] \in {"component", "finish"} =>
       /\ rev[o] <= seq
       /\ Matches(Target(o), rev[o]) =>
            /\ Live(Target(o))
            /\ Get(Target(o)).uid = o
            /\ Get(Target(o)).version = lat[o].version
            /\ Get(Target(o)).phase = "Provisioning"

LEMMA OwnInit == Init => OwnInv
BY DEF Init, BucketInit, NoEntry, OwnInv, AddPCs

LEMMA OwnStep ==
  ASSUME TypeInv, OwnInv, Next
  PROVE  OwnInv'
<1>. USE DEF OwnInv, Matches, TypeInv, TypeOK, CallOK, KeyOK, Entry, Live, Get, Target, PCs, InFlightPCs, AddPCs, UpdatePCs,
             DeletePCs, Ended, HasLatPCs
<1>1. ASSUME NEW o \in Ops, NEW r \in Requests, AddRejected(o, r) PROVE OwnInv'
  BY <1>1 DEF AddRejected, Step, SetCall
<1>2. ASSUME NEW o \in Ops, NEW r \in Requests, AddBegin(o, r) PROVE OwnInv'
  BY <1>2 DEF AddBegin, Step, SetCall, SetLat, NewLattice
<1>3. ASSUME NEW o \in Ops, NEW r \in Requests, UpdateRejected(o, r) PROVE OwnInv'
  BY <1>3 DEF UpdateRejected, Step, SetCall
<1>4. ASSUME NEW o \in Ops, NEW r \in Requests, UpdateBegin(o, r) PROVE OwnInv'
  BY <1>4 DEF UpdateBegin, Step, SetCall
<1>5. ASSUME NEW o \in Ops, NEW r \in Requests, DeleteBegin(o, r) PROVE OwnInv'
  BY <1>5 DEF DeleteBegin, Step, SetCall
<1>6. ASSUME NEW o \in Ops, AddCreateData(o) PROVE OwnInv'
  BY <1>6 DEF AddCreateData, WriteStep, Step, CreateKeyValue
<1>7. ASSUME NEW o \in Ops, AddCreateConfig(o) PROVE OwnInv'
  BY <1>7 DEF AddCreateConfig, WriteStep, Step, CreateKeyValue
<1>8. ASSUME NEW o \in Ops, AddPut(o) PROVE OwnInv'
  BY <1>8 DEF AddPut, AfterPut, WriteStep, Step, Store, Put, Message
<1>9. ASSUME NEW o \in Ops, AddComponent(o) PROVE OwnInv'
  <2>1. pc[o] = "component" /\ lat[o] \in Lattice
    BY <1>9 DEF AddComponent, Step
  <2>2. SetLat(o, Generated(o, lat[o])) /\ Generated(o, lat[o]) \in Lattice
    BY <1>9, <2>1, ComponentAnswer
  <2>. QED  BY <1>9, <2>1, <2>2, GeneratedKeeps DEF AddComponent, Step, SetLat
<1>10. ASSUME NEW o \in Ops, AddFinish(o) PROVE OwnInv'
  BY <1>10 DEF AddFinish, WriteStep, Step, SetLat, Created, Store, Put, Message
<1>11. ASSUME NEW o \in Ops, AddConflict(o) PROVE OwnInv'
  BY <1>11 DEF AddConflict, Step, SetLat
<1>12. ASSUME NEW o \in Ops, UpdateRead(o) PROVE OwnInv'
  BY <1>12 DEF UpdateRead, Find, Step, SetLat
<1>13. ASSUME NEW o \in Ops, UpdateRewrite(o) PROVE OwnInv'
  BY <1>13 DEF UpdateRewrite, WriteStep, Step, SetLat, Store, Put, Message
<1>14. ASSUME NEW o \in Ops, DeleteFind(o) PROVE OwnInv'
  BY <1>14 DEF DeleteFind, Find, Step, SetLat
<1>15. ASSUME NEW o \in Ops, DeleteCheckApps(o) PROVE OwnInv'
  BY <1>15 DEF DeleteCheckApps, Step
<1>16. ASSUME NEW o \in Ops, DeleteMark(o) PROVE OwnInv'
  BY <1>16 DEF DeleteMark, WriteStep, Step, SetLat, Store, Put, Message
<1>17. ASSUME NEW o \in Ops, DeleteRemove(o) PROVE OwnInv'
  BY <1>17 DEF DeleteRemove, WriteStep, Step, Delete, Message
<1>18. ASSUME NEW o \in Ops, CallFails(o) PROVE OwnInv'
  BY <1>18 DEF CallFails
<1>19. ASSUME Crash PROVE OwnInv'
  BY <1>19 DEF Crash, InFlight
<1>20. ASSUME NEW n \in Names, AppsChange(n) PROVE OwnInv'
  BY <1>20 DEF AppsChange, localVars
<1>. QED
  BY <1>1, <1>2, <1>3, <1>4, <1>5, <1>6, <1>7, <1>8, <1>9, <1>10, <1>11, <1>12, <1>13, <1>14, <1>15, <1>16, <1>17, <1>18, <1>19, <1>20
     DEF Next, Begin, Advance

-----------------------------------------------------------------------------
(* A version is given once: until its call stores it, no record has it.       *)

\* Two records show a client the same description and deletable.
Agree(l, m) == \A f \in {"description", "deletable"} : l.data[f] = m.data[f]

\* Before its put, the uid of an add is unused.
FreshUids ==
  \A o \in Ops : pc[o] \in {"idle", "data", "config", "put"} =>
    \A n \in Names : \A r \in written[n] : r.uid # o

\* Before its put, the version of an update is unused.
FreshVersions ==
  \A o \in Ops : pc[o] \in {"idle", "read", "rewrite"} =>
    \A n \in Names : \A r \in written[n] : r.version # o

\* An add works on a lattice of its own uid, with its version or the client's.
AddIdentity ==
  \A o \in Ops : pc[o] \in AddPCs =>
    lat[o].uid = o /\ lat[o].version \in {o} \cup ClientVersions

\* While an add runs its component, its record and its local lattice agree.
AddAgrees ==
  \A o \in Ops : pc[o] \in {"component", "finish"} =>
    \A r \in written[Target(o)] :
      r.uid = o /\ r.version = lat[o].version => Agree(r, lat[o])

VersionInv ==
  /\ FreshUids
  /\ FreshVersions
  /\ AddIdentity
  /\ AddAgrees
  /\ VersionIdentifiesData

LEMMA VersionInit == Init => VersionInv
BY DEF Init, VersionInv, FreshUids, FreshVersions, AddIdentity, AddAgrees,
       VersionIdentifiesData, AddPCs

LEMMA VersionStep ==
  ASSUME TypeInv, StoredInv, VersionInv, Next
  PROVE  VersionInv'
<1>. USE DEF StoredInv, VersionInv, FreshUids, FreshVersions, AddIdentity, AddAgrees,
             VersionIdentifiesData, Agree, TypeInv, TypeOK, CallOK, KeyOK, Entry, Live, Get, Target, PCs, InFlightPCs, AddPCs, UpdatePCs,
             DeletePCs, Ended, HasLatPCs
<1>1. ASSUME NEW o \in Ops, NEW r \in Requests, AddRejected(o, r) PROVE VersionInv'
  BY <1>1 DEF AddRejected, Step, SetCall
<1>2. ASSUME NEW o \in Ops, NEW r \in Requests, AddBegin(o, r) PROVE VersionInv'
  <2>1. NewLattice(o, r).uid = o /\ NewLattice(o, r).version \in {o} \cup ClientVersions
    BY <1>2, NewLatticeType DEF AddBegin
  <2>. QED  BY <1>2, <2>1 DEF AddBegin, Step, SetCall, SetLat
<1>3. ASSUME NEW o \in Ops, NEW r \in Requests, UpdateRejected(o, r) PROVE VersionInv'
  BY <1>3 DEF UpdateRejected, Step, SetCall
<1>4. ASSUME NEW o \in Ops, NEW r \in Requests, UpdateBegin(o, r) PROVE VersionInv'
  BY <1>4 DEF UpdateBegin, Step, SetCall
<1>5. ASSUME NEW o \in Ops, NEW r \in Requests, DeleteBegin(o, r) PROVE VersionInv'
  BY <1>5 DEF DeleteBegin, Step, SetCall
<1>6. ASSUME NEW o \in Ops, AddCreateData(o) PROVE VersionInv'
  BY <1>6 DEF AddCreateData, WriteStep, Step, CreateKeyValue
<1>7. ASSUME NEW o \in Ops, AddCreateConfig(o) PROVE VersionInv'
  BY <1>7 DEF AddCreateConfig, WriteStep, Step, CreateKeyValue
<1>8. ASSUME NEW o \in Ops, AddPut(o) PROVE VersionInv'
  BY <1>8, DistinctAssumption DEF AddPut, AfterPut, WriteStep, Step, Store, Put, Message
<1>9. ASSUME NEW o \in Ops, AddComponent(o) PROVE VersionInv'
  <2>1. pc[o] = "component" /\ lat[o] \in Lattice
    BY <1>9 DEF AddComponent, Step
  <2>2. SetLat(o, Generated(o, lat[o])) /\ Generated(o, lat[o]) \in Lattice
    BY <1>9, <2>1, ComponentAnswer
  <2>. QED  BY <1>9, <2>1, <2>2, GeneratedKeeps DEF AddComponent, Step, SetLat
<1>10. ASSUME NEW o \in Ops, AddFinish(o) PROVE VersionInv'
  <2>1. pc[o] = "finish" /\ lat[o] \in Lattice /\ Target(o) \in Names
    BY <1>10 DEF AddFinish, WriteStep, Step
  <2>2. /\ Created(o).uid = o
        /\ Created(o).version = lat[o].version
        /\ Created(o).data = lat[o].data
    BY <2>1 DEF Created, Lattice
  <2>3. FreshUids'
    BY <1>10, <2>1, <2>2 DEF AddFinish, WriteStep, Step, SetLat, Store
  <2>4. FreshVersions'
    BY <1>10, <2>1, <2>2, DistinctAssumption DEF AddFinish, WriteStep, Step, SetLat, Store
  <2>5. AddIdentity'
    BY <1>10, <2>1, <2>2 DEF AddFinish, WriteStep, Step, SetLat, Store
  <2>6. AddAgrees'
    BY <1>10, <2>1, <2>2 DEF AddFinish, WriteStep, Step, SetLat, Store
  <2>7. VersionIdentifiesData'
    BY <1>10, <2>1, <2>2 DEF AddFinish, WriteStep, Step, SetLat, Store
  <2>. QED  BY <2>3, <2>4, <2>5, <2>6, <2>7
<1>11. ASSUME NEW o \in Ops, AddConflict(o) PROVE VersionInv'
  BY <1>11 DEF AddConflict, Step, SetLat
<1>12. ASSUME NEW o \in Ops, UpdateRead(o) PROVE VersionInv'
  BY <1>12 DEF UpdateRead, Find, Step, SetLat
<1>13. ASSUME NEW o \in Ops, UpdateRewrite(o) PROVE VersionInv'
  <2>1. pc[o] = "rewrite" /\ lat[o] \in Lattice /\ Target(o) \in Names
    BY <1>13 DEF UpdateRewrite, WriteStep, Step
  <2>2. /\ Patched(o, lat[o]).uid = lat[o].uid
        /\ Patched(o, lat[o]).version = o
        /\ o \notin ClientVersions
    BY <2>1, DistinctAssumption DEF Patched, Lattice
  <2>3. FreshUids'
    BY <1>13, <2>1, <2>2 DEF UpdateRewrite, WriteStep, Step, SetLat, Store
  <2>4. FreshVersions'
    BY <1>13, <2>1, <2>2 DEF UpdateRewrite, WriteStep, Step, SetLat, Store
  <2>5. AddIdentity'
    BY <1>13, <2>1, <2>2 DEF UpdateRewrite, WriteStep, Step, SetLat, Store
  <2>6. AddAgrees'
    BY <1>13, <2>1, <2>2 DEF UpdateRewrite, WriteStep, Step, SetLat, Store
  <2>7. VersionIdentifiesData'
    BY <1>13, <2>1, <2>2 DEF UpdateRewrite, WriteStep, Step, SetLat, Store
  <2>. QED  BY <2>3, <2>4, <2>5, <2>6, <2>7
<1>14. ASSUME NEW o \in Ops, DeleteFind(o) PROVE VersionInv'
  <2>1. /\ pc[o] = "find"
        /\ \A p \in Ops : p # o => pc'[p] = pc[p] /\ lat'[p] = lat[p]
        /\ pc'[o] \in {"apps", "failed"}
        /\ UNCHANGED <<call, written>>
    BY <1>14 DEF DeleteFind, Find, Step, SetLat
  <2>. QED  BY <2>1
<1>15. ASSUME NEW o \in Ops, DeleteCheckApps(o) PROVE VersionInv'
  BY <1>15 DEF DeleteCheckApps, Step
<1>16. ASSUME NEW o \in Ops, DeleteMark(o) PROVE VersionInv'
  <2>1. pc[o] = "mark" /\ lat[o] \in written[Target(o)] /\ Target(o) \in Names
    BY <1>16 DEF DeleteMark, WriteStep, Step
  <2>2. /\ Deleting(lat[o]).uid = lat[o].uid
        /\ Deleting(lat[o]).version = lat[o].version
        /\ Deleting(lat[o]).data = lat[o].data
    BY <2>1 DEF Deleting, Lattice
  <2>3. FreshUids'
    BY <1>16, <2>1, <2>2 DEF DeleteMark, WriteStep, Step, SetLat, Store
  <2>4. FreshVersions'
    BY <1>16, <2>1, <2>2 DEF DeleteMark, WriteStep, Step, SetLat, Store
  <2>5. AddIdentity'
    BY <1>16, <2>1, <2>2 DEF DeleteMark, WriteStep, Step, SetLat, Store
  <2>6. AddAgrees'
    BY <1>16, <2>1, <2>2 DEF DeleteMark, WriteStep, Step, SetLat, Store
  <2>7. VersionIdentifiesData'
    BY <1>16, <2>1, <2>2 DEF DeleteMark, WriteStep, Step, SetLat, Store
  <2>. QED  BY <2>3, <2>4, <2>5, <2>6, <2>7
<1>17. ASSUME NEW o \in Ops, DeleteRemove(o) PROVE VersionInv'
  BY <1>17 DEF DeleteRemove, WriteStep, Step, Delete, Message
<1>18. ASSUME NEW o \in Ops, CallFails(o) PROVE VersionInv'
  BY <1>18 DEF CallFails
<1>19. ASSUME Crash PROVE VersionInv'
  BY <1>19 DEF Crash, InFlight
<1>20. ASSUME NEW n \in Names, AppsChange(n) PROVE VersionInv'
  BY <1>20 DEF AppsChange, localVars
<1>. QED
  BY <1>1, <1>2, <1>3, <1>4, <1>5, <1>6, <1>7, <1>8, <1>9, <1>10, <1>11, <1>12, <1>13, <1>14, <1>15, <1>16, <1>17, <1>18, <1>19, <1>20
     DEF Next, Begin, Advance

-----------------------------------------------------------------------------
(* The inductive invariant and what follows from it. *)

IInv == TypeInv /\ StoredInv /\ AuxInv /\ OwnInv /\ VersionInv

LEMMA IInvInit == Init => IInv
BY TypeInit, StoredInit, AuxInit, OwnInit, VersionInit DEF IInv

LEMMA IInvStep == IInv /\ [Next]_vars => IInv'
<1>1. ASSUME IInv, Next PROVE IInv'
  BY <1>1, TypeStep, StoredStep, AuxStep, OwnStep, VersionStep DEF IInv
<1>2. ASSUME IInv, UNCHANGED vars PROVE IInv'
  <2>1. TypeInv'
    BY <1>2, TypeStutter DEF IInv
  <2>2. StoredInv' /\ AuxInv' /\ OwnInv'
    BY <1>2 DEF IInv, vars, StoredInv, AuxInv, AuxBeforeRecord, OwnInv, Live, Get,
                Target, Matches
  <2>3. VersionInv'
    BY <1>2 DEF IInv, vars, VersionInv, FreshUids, FreshVersions, AddIdentity,
                AddAgrees, VersionIdentifiesData, Target
  <2>. QED  BY <2>1, <2>2, <2>3 DEF IInv
<1>. QED  BY <1>1, <1>2

\* The inductive invariant holds in every reachable state.
THEOREM Invariance == Spec => []IInv
BY IInvInit, IInvStep, PTL DEF Spec

\* No failure or crash between the three writes of an add leaves a lattice
\* without its LATTICEDATA and CONFIGDATA buckets.
THEOREM AuxCorrect == Spec => []AuxBeforeRecord
<1>1. IInv => AuxBeforeRecord
  BY DEF IInv, AuxInv
<1>. QED  BY <1>1, Invariance, PTL

\* Whatever a call answered was stored in exactly that form.
THEOREM AnswersCorrect == Spec => []AckedWasStored
<1>1. IInv => AckedWasStored
  BY DEF IInv, StoredInv, AckedWasStored
<1>. QED  BY <1>1, Invariance, PTL

\* Records of one lattice with the same version show the same description and
\* deletable, whatever calls interleave, fail or crash.
THEOREM VersionsCorrect == Spec => []VersionIdentifiesData
<1>1. IInv => VersionIdentifiesData
  BY DEF IInv, VersionInv
<1>. QED  BY <1>1, Invariance, PTL

\* The conditional write at the end of an add replaces the record that add
\* provisioned, and no other.
THEOREM FinishCorrect == Spec => FinishReplacesOwnRecord
<1>. DEFINE Own(o) ==
       pc[o] = "finish" /\ kv' # kv /\ pc'[o] # pc[o] =>
         /\ Live(Target(o))
         /\ Get(Target(o)).uid = o
         /\ Get(Target(o)).version = lat[o].version
         /\ Get(Target(o)).phase = "Provisioning"
<1>1. ASSUME IInv, NEW o \in Ops, pc[o] = "finish", kv' # kv, pc'[o] # pc[o], Next
      PROVE  AddFinish(o)
  BY <1>1
     DEF IInv, TypeInv, TypeOK, Next, Begin, Advance,
         AddRejected, AddBegin, UpdateRejected, UpdateBegin, DeleteBegin,
         AddCreateData, AddCreateConfig, AddPut, AddComponent, AddFinish,
         AddConflict, UpdateRead, UpdateRewrite, Find, DeleteFind,
         DeleteCheckApps, DeleteMark, DeleteRemove, CallFails, Crash,
         AppsChange, localVars, WriteStep, Step, InFlight
<1>2. ASSUME IInv, [Next]_vars, NEW o \in Ops PROVE Own(o)
  <2>1. CASE UNCHANGED vars
    BY <2>1 DEF vars
  <2>2. CASE Next
    BY <1>1, <1>2, <2>2 DEF AddFinish, IInv, OwnInv, AddPCs
  <2>. QED  BY <1>2, <2>1, <2>2
<1>3. IInv /\ [Next]_vars => [\A o \in Ops : Own(o)]_vars
  BY <1>2
<1>. QED  BY <1>3, Invariance, PTL DEF Spec, FinishReplacesOwnRecord

-----------------------------------------------------------------------------
(* LatticeService implements LatticeLifecycle, and what leaves a lattice     *)
(* Provisioning, Deleting or back from a deletion.  First, which steps write *)
(* and what they leave under a name.                                         *)

\* Only five of the handlers' steps touch the bucket.
Writes(o) ==
  AddPut(o) \/ AddFinish(o) \/ UpdateRewrite(o) \/ DeleteMark(o) \/ DeleteRemove(o)

LEMMA OnlyWritersWrite ==
  ASSUME Next
  PROVE  UNCHANGED <<kv, seq, written>> \/ \E o \in Ops : Writes(o)
BY DEF Next, Begin, Advance, Writes,
       AddRejected, AddBegin, UpdateRejected, UpdateBegin, DeleteBegin,
       AddCreateData, AddCreateConfig, AddComponent, AddConflict, UpdateRead,
       DeleteFind, DeleteCheckApps, CallFails, Crash, AppsChange

\* After a Store, the name holds the record, which joins the past ones, and the
\* other names are as they were.
LEMMA StoreLeaves ==
  ASSUME TypeInv, NEW n \in Names, NEW l \in Lattice, Store(n, l)
  PROVE  /\ kv'[n] = Message("put", l)
         /\ written'[n] = written[n] \cup {l}
         /\ written' = [written EXCEPT ![n] = @ \cup {l}]
         /\ \A m \in Names : m # n => kv'[m] = kv[m] /\ written'[m] = written[m]
         /\ \A m \in Names : Record(m)' = IF m = n THEN l ELSE Record(m)
BY DEF Store, Put, Message, TypeInv, TypeOK, Record, Live, Get

-----------------------------------------------------------------------------
(* LatticeService implements LatticeLifecycle. *)

\* What the component may have made of data d.
FromComponent(d, e) ==
  /\ \A f \in Fields \ {"account", "signing_keys"} : e[f] = d[f]
  /\ d["account"] # Nothing => e = d

\* While the key has the revision of an add's put, it has the very record of
\* the put; the add's local lattice differs by the component's work alone.
DataInv ==
  \A o \in Ops : pc[o] \in {"component", "finish"} /\ Matches(Target(o), rev[o]) =>
    LET r == Get(Target(o)) IN
    /\ pc[o] = "component" => r = lat[o]
    /\ pc[o] = "finish" => FromComponent(r.data, lat[o].data)

LEMMA DataInit == Init => DataInv
BY DEF Init, DataInv

\* A write gives the name a revision no running add has.
LEMMA NewRevision ==
  ASSUME IInv, NEW n \in Names, NEW r, kv' = [kv EXCEPT ![n] = r], r.rev = seq + 1,
         NEW o \in Ops, pc[o] \in {"component", "finish"},
         UNCHANGED <<Target(o), rev[o]>>, Matches(Target(o), rev[o])'
  PROVE  kv'[Target(o)] = kv[Target(o)] /\ Matches(Target(o), rev[o])
<1>1. /\ Target(o) \in Names /\ kv \in [Names -> Entry(Lattice)]
      /\ rev[o] \in Nat /\ seq \in Nat /\ rev[o] <= seq
  BY DEF IInv, TypeInv, TypeOK, CallOK, OwnInv, InFlightPCs, AddPCs
<1>2. kv'[Target(o)].rev = rev[o]
  BY DEF Matches
<1>3. Target(o) # n
  BY <1>1, <1>2
<1>. QED  BY <1>1, <1>2, <1>3 DEF Matches

LEMMA DataStep ==
  ASSUME IInv, DataInv, Next
  PROVE  DataInv'
<1>. SUFFICES ASSUME NEW o \in Ops, pc'[o] \in {"component", "finish"},
                     Matches(Target(o), rev[o])'
              PROVE  LET r == Get(Target(o))' IN
                     /\ pc'[o] = "component" => r = lat'[o]
                     /\ pc'[o] = "finish" => FromComponent(r.data, lat'[o].data)
  BY DEF DataInv
<1>. USE DEF Target
<1>1. CASE AddPut(o)
  <2>1. Target(o) \in Names /\ lat[o] \in Lattice
    BY <1>1 DEF IInv, TypeInv, CallOK, AddPut, WriteStep, Step, InFlightPCs, AddPCs, HasLatPCs
  <2>2. Store(Target(o), lat[o]) /\ UNCHANGED <<call, lat>>
    BY <1>1 DEF AddPut
  <2>3. kv'[Target(o)].val = lat[o]
    BY <2>1, <2>2 DEF IInv, TypeInv, TypeOK, Store, Put, Message
  <2>. QED  BY <2>2, <2>3 DEF Get, FromComponent
<1>2. CASE AddComponent(o)
  <2>1. /\ pc[o] = "component" /\ pc'[o] = "finish"
        /\ lat[o] \in Lattice
        /\ UNCHANGED <<kv, call, rev>>
    BY <1>2 DEF IInv, TypeInv, TypeOK, CallOK, AddComponent, Step, HasLatPCs, AddPCs
  <2>2. lat'[o] = Generated(o, lat[o])
    BY <1>2, <2>1, ComponentAnswer DEF SetLat, IInv, TypeInv, TypeOK
  <2>3. Get(Target(o)) = lat[o]
    BY <2>1 DEF DataInv, Matches
  <2>4. FromComponent(lat[o].data, Generated(o, lat[o]).data)
    BY <2>1 DEF FromComponent, Generated, Lattice, Fields
  <2>. QED  BY <2>1, <2>2, <2>3, <2>4 DEF Get
<1>3. CASE ~AddPut(o) /\ ~AddComponent(o)
  <2>1. pc'[o] = pc[o] /\ lat'[o] = lat[o] /\ rev'[o] = rev[o] /\ call'[o] = call[o]
    BY <1>3
       DEF IInv, TypeInv, TypeOK, PCs, Next, Begin, Advance,
           AddRejected, AddBegin, UpdateRejected, UpdateBegin, DeleteBegin,
           AddCreateData, AddCreateConfig, AddPut, AddFinish, AddConflict,
           AddComponent, UpdateRead, UpdateRewrite, Find, DeleteFind,
           DeleteCheckApps, DeleteMark, DeleteRemove, CallFails, Crash,
           AppsChange, localVars, WriteStep, Step, SetCall, SetLat, InFlight
  <2>2. kv'[Target(o)] = kv[Target(o)] /\ Matches(Target(o), rev[o])
    <3>1. CASE UNCHANGED <<kv, seq, written>>
      BY <2>1, <3>1 DEF Matches
    <3>2. ASSUME NEW p \in Ops, Writes(p)
          PROVE  \E n \in Names, r \in [rev: {seq + 1}, op: {"put", "delete"}, val: Lattice \cup {Nothing}] :
                   kv' = [kv EXCEPT ![n] = r]
      <4>1. Target(p) \in Names /\ lat[p] \in Lattice
        BY <3>2 DEF IInv, TypeInv, CallOK, Writes, AddPut, AddFinish, UpdateRewrite,
                    DeleteMark, DeleteRemove, WriteStep, Step, InFlightPCs, AddPCs,
                    UpdatePCs, DeletePCs, HasLatPCs
      <4>2. Patched(p, lat[p]) \in Lattice /\ Deleting(lat[p]) \in Lattice /\ Created(p) \in Lattice
        BY <4>1, DerivedLattices
      <4>. QED
        BY <3>2, <4>1, <4>2 DEF Writes, AddPut, AddFinish, UpdateRewrite, DeleteMark,
                    DeleteRemove, Store, Put, Delete, Message
    <3>. QED  BY <2>1, <3>1, <3>2, OnlyWritersWrite, NewRevision
  <2>. QED  BY <2>1, <2>2 DEF DataInv, Get
<1>. QED  BY <1>1, <1>2, <1>3


\* A write of the service is one of LatticeLifecycle.
LEMMA StoreIsStored ==
  ASSUME TypeInv, NEW n \in Names, NEW l \in Lattice, Store(n, l)
  PROVE  Lifecycle!Stored(n) /\ Record(n)' = l
<1>1. /\ written' = [written EXCEPT ![n] = @ \cup {l}]
      /\ \A m \in Names : Record(m)' = IF m = n THEN l ELSE Record(m)
  BY StoreLeaves
<1>. QED  BY <1>1 DEF Lifecycle!Stored

\* What a writer has in hand.
LEMMA WriterHas ==
  ASSUME TypeInv, NEW o \in Ops, Writes(o)
  PROVE  /\ Target(o) \in Names
         /\ lat[o] \in Lattice
         /\ Created(o) \in Lattice
         /\ Patched(o, lat[o]) \in Lattice
         /\ Deleting(lat[o]) \in Lattice
<1>1. Target(o) \in Names /\ lat[o] \in Lattice
  BY DEF TypeInv, CallOK, Writes, AddPut, AddFinish, UpdateRewrite,
         DeleteMark, DeleteRemove, WriteStep, Step, InFlightPCs, AddPCs,
         UpdatePCs, DeletePCs, HasLatPCs
<1>. QED  BY <1>1, DerivedLattices

LEMMA ProvisionStep ==
  ASSUME IInv, NEW o \in Ops, NEW n \in Names, n = Target(o), AddPut(o)
  PROVE  Lifecycle!Provision(n)
<1>1. n \in Names /\ lat[o] \in Lattice
  BY WriterHas DEF IInv, Writes
<1>2. pc[o] = "put" /\ Store(n, lat[o])
  BY DEF AddPut, WriteStep, Step
<1>3. Lifecycle!Stored(n) /\ Record(n)' = lat[o]
  BY <1>1, <1>2, StoreIsStored DEF IInv
<1>4. lat[o].phase = "Provisioning" /\ lat[o].uid = o
  BY <1>2 DEF IInv, OwnInv, AddPCs
<1>5. \A p \in written[n] : p.uid # o
  BY <1>1, <1>2 DEF IInv, VersionInv, FreshUids
<1>. QED  BY <1>1, <1>3, <1>4, <1>5 DEF Lifecycle!Provision

LEMMA FinishStep ==
  ASSUME IInv, DataInv, NEW o \in Ops, NEW n \in Names, n = Target(o), AddFinish(o)
  PROVE  Lifecycle!Finish(n)
<1>1. n \in Names /\ lat[o] \in Lattice /\ Created(o) \in Lattice
  BY WriterHas DEF IInv, Writes
<1>2. pc[o] = "finish" /\ Matches(n, rev[o]) /\ Store(n, Created(o))
  BY DEF AddFinish, WriteStep, Step
<1>3. Lifecycle!Stored(n) /\ Record(n)' = Created(o)
  BY <1>1, <1>2, StoreIsStored DEF IInv
<1>4. /\ Created(o).phase = "Created"
      /\ Created(o).uid = lat[o].uid
      /\ Created(o).version = lat[o].version
      /\ Created(o).data = lat[o].data
  BY <1>1 DEF Created, Lattice
<1>5. /\ Live(n) /\ Get(n).uid = o
      /\ Get(n).version = lat[o].version
      /\ Get(n).phase = "Provisioning"
      /\ lat[o].uid = o
      /\ FromComponent(Get(n).data, lat[o].data)
  BY <1>2 DEF IInv, OwnInv, DataInv, AddPCs
<1>6. Record(n) = Get(n) /\ Get(n) \in Lattice
  BY <1>1, <1>5 DEF Record, IInv, TypeInv, KeyOK
<1>7. Record(n) # Nothing /\ DOMAIN Record(n).data = Fields
  BY <1>6, NothingIsNoLattice DEF Lattice
<1>. QED
  BY <1>1, <1>3, <1>4, <1>5, <1>6, <1>7 DEF Lifecycle!Finish, FromComponent

LEMMA RewriteStep ==
  ASSUME IInv, NEW o \in Ops, NEW n \in Names, n = Target(o), UpdateRewrite(o)
  PROVE  Lifecycle!Rewrite(n)
<1>1. n \in Names /\ lat[o] \in Lattice /\ Patched(o, lat[o]) \in Lattice
  BY WriterHas DEF IInv, Writes
<1>2. pc[o] = "rewrite" /\ Store(n, Patched(o, lat[o]))
  BY DEF UpdateRewrite, WriteStep, Step
<1>3. Lifecycle!Stored(n) /\ Record(n)' = Patched(o, lat[o])
  BY <1>1, <1>2, StoreIsStored DEF IInv
<1>4. lat[o] \in written[n]
  BY <1>2 DEF IInv, StoredInv
<1>5. /\ Patched(o, lat[o]).uid = lat[o].uid
      /\ Patched(o, lat[o]).phase = lat[o].phase
      /\ Patched(o, lat[o]).version = o
  BY <1>1 DEF Patched, Lattice
<1>6. \A p \in written[n] : p.version # o
  BY <1>1, <1>2 DEF IInv, VersionInv, FreshVersions
<1>. QED  BY <1>1, <1>3, <1>4, <1>5, <1>6 DEF Lifecycle!Rewrite

LEMMA MarkStep ==
  ASSUME IInv, NEW o \in Ops, NEW n \in Names, n = Target(o), DeleteMark(o)
  PROVE  Lifecycle!MarkDeleting(n)
<1>1. n \in Names /\ Deleting(lat[o]) \in Lattice
  BY WriterHas DEF IInv, Writes
<1>2. pc[o] = "mark" /\ Store(n, Deleting(lat[o]))
  BY DEF DeleteMark, WriteStep, Step
<1>3. Lifecycle!Stored(n) /\ Record(n)' = Deleting(lat[o])
  BY <1>1, <1>2, StoreIsStored DEF IInv
<1>4. lat[o] \in written[n]
  BY <1>2 DEF IInv, StoredInv
<1>. QED  BY <1>1, <1>3, <1>4 DEF Lifecycle!MarkDeleting, Deleting

LEMMA RemoveStep ==
  ASSUME IInv, NEW o \in Ops, NEW n \in Names, n = Target(o), DeleteRemove(o)
  PROVE  Lifecycle!Remove(n)
<1>1. n \in Names
  BY WriterHas DEF IInv, Writes
<1>2. \A m \in Names : Record(m)' = IF m = n THEN Nothing ELSE Record(m)
  BY <1>1 DEF DeleteRemove, Delete, Message, Record, Live, Get, IInv, TypeInv, TypeOK
<1>. QED  BY <1>1, <1>2 DEF Lifecycle!Remove, DeleteRemove

LEMMA LifecycleInit == Init => Lifecycle!Init
BY DEF Init, BucketInit, NoEntry, Lifecycle!Init, Record, Live

LEMMA LifecycleStep ==
  ASSUME IInv, DataInv, [Next]_vars
  PROVE  [Lifecycle!Next]_(Lifecycle!lifecycleVars)
<1>1. CASE UNCHANGED <<kv, written>>
  BY <1>1 DEF Lifecycle!lifecycleVars, Record, Live, Get
<1>2. ASSUME NEW o \in Ops, Writes(o) PROVE Lifecycle!Next
  <2>1. Target(o) \in Names
    BY <1>2, WriterHas DEF IInv
  <2>. QED
    BY <1>2, <2>1, ProvisionStep, FinishStep, RewriteStep, MarkStep, RemoveStep
       DEF Writes, Lifecycle!Next
<1>3. Next => UNCHANGED <<kv, written>> \/ \E o \in Ops : Writes(o)
  BY OnlyWritersWrite
<1>. QED  BY <1>1, <1>2, <1>3 DEF vars

LEMMA DataInvariance == Spec => []DataInv
<1>1. IInv /\ DataInv /\ [Next]_vars => DataInv'
  <2>1. ASSUME DataInv, UNCHANGED vars PROVE DataInv'
    BY <2>1 DEF DataInv, vars, Matches, Target, Get
  <2>. QED  BY <2>1, DataStep
<1>. QED  BY <1>1, DataInit, Invariance, PTL DEF Spec

\* Whatever calls interleave, fail or crash on whichever instances, the records
\* under every name change only in the whole steps of LatticeLifecycle.
THEOREM LifecycleCorrect == Spec => FollowsLifecycle
<1>1. IInv /\ DataInv /\ [Next]_vars => [Lifecycle!Next]_(Lifecycle!lifecycleVars)
  BY LifecycleStep
<1>. QED
  BY <1>1, LifecycleInit, Invariance, DataInvariance, PTL
     DEF Spec, FollowsLifecycle, Lifecycle!Spec

-----------------------------------------------------------------------------
(* Where a record came from, and why it is still there. *)

\* A call has no request before it begins, and a uid belongs to an add of the
\* name under which its records are.
UidInv ==
  /\ \A o \in Ops : pc[o] = "idle" => call[o] = Nothing
  /\ \A n \in Names : \A r \in written[n] : r.uid \in Calls("add") /\ Target(r.uid) = n

\* The version of a record in the bucket was given by an update.
Rewritten(n) == Get(n).version \in Calls("update")

CauseInv ==
  /\ UidInv
  /\ OnlyRewritesResurrect
  /\ ProvisioningHasCause
  /\ DeletingHasCause

LEMMA CauseInit == Init => CauseInv
BY DEF Init, BucketInit, NoEntry, CauseInv, UidInv, OnlyRewritesResurrect,
       ProvisioningHasCause, DeletingHasCause, Live, Calls, Acked

\* A call keeps its request; one that runs or ended has what it has.
LEMMA CallsStay ==
  ASSUME IInv, UidInv, Next, NEW o \in Ops, call[o] # Nothing
  PROVE  call'[o] = call[o] /\ pc[o] # "idle"
<1>1. pc[o] # "idle"
  BY DEF UidInv
<1>2. call'[o] = call[o]
  BY <1>1
     DEF IInv, TypeInv, TypeOK, Next, Begin, Advance,
         AddRejected, AddBegin, UpdateRejected, UpdateBegin, DeleteBegin,
         AddCreateData, AddCreateConfig, AddPut, AddFinish, AddConflict,
         AddComponent, UpdateRead, UpdateRewrite, DeleteFind, DeleteCheckApps,
         DeleteMark, DeleteRemove, CallFails, Crash, AppsChange, localVars,
         Step, SetCall
<1>. QED  BY <1>1, <1>2

\* What the writers leave: a new record of the name, or none.
LEMMA WriterLeaves ==
  ASSUME IInv, NEW o \in Ops, NEW n \in Names, n = Target(o), Writes(o)
  PROVE  /\ call' = call
         /\ \A m \in Names : m # n => kv'[m] = kv[m] /\ written'[m] = written[m]
         /\ \/ AddPut(o) /\ kv'[n] = Message("put", lat[o]) /\ written'[n] = written[n] \cup {lat[o]}
            \/ AddFinish(o) /\ kv'[n] = Message("put", Created(o)) /\ written'[n] = written[n] \cup {Created(o)}
            \/ UpdateRewrite(o) /\ kv'[n] = Message("put", Patched(o, lat[o])) /\ written'[n] = written[n] \cup {Patched(o, lat[o])}
            \/ DeleteMark(o) /\ kv'[n] = Message("put", Deleting(lat[o])) /\ written'[n] = written[n] \cup {Deleting(lat[o])}
            \/ DeleteRemove(o) /\ kv'[n] = Message("delete", Nothing) /\ written'[n] = written[n]
BY WriterHas, StoreLeaves
   DEF IInv, TypeInv, TypeOK, Writes, AddPut, AddFinish, UpdateRewrite,
       DeleteMark, DeleteRemove, Delete

\* How a step moves a call.
LEMMA CallMoves ==
  ASSUME IInv, Next, NEW o \in Ops
  PROVE  /\ pc'[o] = "idle" => pc[o] = "idle" /\ call'[o] = call[o]
         /\ pc[o] \in {"component", "finish", "failed", "lost"} =>
              pc'[o] \in {"component", "finish", "failed", "lost"} \/ AddFinish(o)
         /\ pc[o] \in {"remove", "failed", "lost"} =>
              /\ lat'[o] = lat[o]
              /\ pc'[o] \in {"remove", "failed", "lost"} \/ DeleteRemove(o)
         /\ pc[o] = "done" => pc'[o] = "done" /\ lat'[o] = lat[o]
         /\ pc'[o] = "done" /\ pc[o] # "done" /\ call'[o].kind = "delete" =>
              DeleteRemove(o) /\ lat'[o] = lat[o] /\ call'[o] = call[o]
<1>. USE DEF IInv, TypeInv, TypeOK, CallOK, PCs, Ended, InFlightPCs, AddPCs, UpdatePCs,
             DeletePCs, Next, Begin, Advance,
             AddRejected, AddBegin, UpdateRejected, UpdateBegin, DeleteBegin,
             AddCreateData, AddCreateConfig, AddPut, AfterPut, AddFinish, AddConflict,
             AddComponent, UpdateRead, UpdateRewrite, Find, DeleteFind,
             DeleteCheckApps, DeleteMark, DeleteRemove, CallFails, Crash,
             AppsChange, localVars, WriteStep, Step, SetCall, SetLat, InFlight
<1>1. pc'[o] = "idle" => pc[o] = "idle" /\ call'[o] = call[o]
  OBVIOUS
<1>2. pc[o] \in {"component", "finish", "failed", "lost"} =>
        pc'[o] \in {"component", "finish", "failed", "lost"} \/ AddFinish(o)
  OBVIOUS
<1>3. pc[o] \in {"remove", "failed", "lost"} =>
        lat'[o] = lat[o] /\ (pc'[o] \in {"remove", "failed", "lost"} \/ DeleteRemove(o))
  OBVIOUS
<1>4. pc[o] = "done" => pc'[o] = "done" /\ lat'[o] = lat[o]
  OBVIOUS
<1>5. pc'[o] = "done" /\ pc[o] # "done" /\ call'[o].kind = "delete" =>
        DeleteRemove(o) /\ lat'[o] = lat[o] /\ call'[o] = call[o]
  OBVIOUS
<1>. QED  BY <1>1, <1>2, <1>3, <1>4, <1>5

\* Of which call the uid, the phase and the version of a new record are.
LEMMA NewRecord ==
  ASSUME IInv, NEW o \in Ops, NEW n \in Names, n = Target(o), Writes(o),
         ~DeleteRemove(o)
  PROVE  \E l \in Lattice :
           /\ kv'[n] = Message("put", l)
           /\ written'[n] = written[n] \cup {l}
           /\ \/ /\ AddPut(o) /\ o \in Calls("add") /\ l.uid = o
                 /\ l.phase = "Provisioning"
              \/ /\ AddFinish(o) /\ o \in Calls("add") /\ l.uid = o /\ l.phase = "Created"
                 /\ l.version \in {o} \cup ClientVersions
                 /\ Live(n) /\ Get(n).uid = o /\ Get(n).version = l.version
                 /\ Get(n).phase = "Provisioning"
              \/ /\ UpdateRewrite(o) /\ o \in Calls("update") /\ l.version = o
                 /\ \E r \in written[n] : l.uid = r.uid
              \/ /\ DeleteMark(o) /\ o \in Calls("delete") /\ l.phase = "Deleting"
                 /\ l = lat'[o] /\ pc'[o] \in {"remove", "failed"}
                 /\ \E r \in written[n] : l.uid = r.uid
<1>. /\ n \in Names /\ lat[o] \in Lattice /\ Created(o) \in Lattice
     /\ Patched(o, lat[o]) \in Lattice /\ Deleting(lat[o]) \in Lattice
  BY WriterHas DEF IInv
<1>. USE WriterLeaves, DistinctAssumption
<1>1. CASE AddPut(o)
  <2>1. pc[o] = "put" BY <1>1 DEF AddPut, WriteStep, Step
  <2>2. o \in Calls("add") /\ lat[o].uid = o /\ lat[o].phase = "Provisioning"
    BY <2>1 DEF IInv, TypeInv, CallOK, OwnInv, Calls, InFlightPCs, AddPCs
  <2>. QED  BY <1>1, <2>1, <2>2 DEF AddFinish, UpdateRewrite, DeleteMark, WriteStep, Step
<1>2. CASE AddFinish(o)
  <2>1. pc[o] = "finish" /\ Matches(n, rev[o])
    BY <1>2 DEF AddFinish, WriteStep, Step
  <2>2. o \in Calls("add")
    BY <2>1 DEF IInv, TypeInv, CallOK, Calls, InFlightPCs, AddPCs
  <2>3. /\ lat[o].uid = o /\ lat[o].version \in {o} \cup ClientVersions
        /\ Live(n) /\ Get(n).uid = o
        /\ Get(n).version = lat[o].version /\ Get(n).phase = "Provisioning"
    BY <2>1 DEF IInv, OwnInv, VersionInv, AddIdentity, AddPCs
  <2>4. Created(o).uid = lat[o].uid /\ Created(o).version = lat[o].version /\ Created(o).phase = "Created"
    BY DEF Created, Lattice
  <2>5. kv'[n] = Message("put", Created(o)) /\ written'[n] = written[n] \cup {Created(o)}
    BY <1>2, <2>1 DEF AddPut, UpdateRewrite, DeleteMark, DeleteRemove, WriteStep, Step
  <2>. QED  BY <1>2, <2>2, <2>3, <2>4, <2>5
<1>3. CASE UpdateRewrite(o)
  <2>1. pc[o] = "rewrite" BY <1>3 DEF UpdateRewrite, WriteStep, Step
  <2>2. o \in Calls("update") /\ lat[o] \in written[n]
    BY <2>1 DEF IInv, TypeInv, CallOK, StoredInv, Calls, InFlightPCs, UpdatePCs
  <2>3. Patched(o, lat[o]).uid = lat[o].uid /\ Patched(o, lat[o]).version = o
    BY DEF Patched, Lattice
  <2>4. kv'[n] = Message("put", Patched(o, lat[o])) /\ written'[n] = written[n] \cup {Patched(o, lat[o])}
    BY <1>3, <2>1 DEF AddPut, AddFinish, DeleteMark, DeleteRemove, WriteStep, Step
  <2>. QED  BY <1>3, <2>2, <2>3, <2>4
<1>4. CASE DeleteMark(o)
  <2>1. pc[o] = "mark" /\ pc'[o] \in {"remove", "failed"} /\ lat'[o] = Deleting(lat[o])
    BY <1>4 DEF DeleteMark, WriteStep, Step, SetLat, IInv, TypeInv, TypeOK
  <2>2. o \in Calls("delete") /\ lat[o] \in written[n]
    BY <2>1 DEF IInv, TypeInv, CallOK, StoredInv, Calls, InFlightPCs, DeletePCs
  <2>3. Deleting(lat[o]).uid = lat[o].uid /\ Deleting(lat[o]).phase = "Deleting"
    BY DEF Deleting, Lattice
  <2>4. kv'[n] = Message("put", Deleting(lat[o])) /\ written'[n] = written[n] \cup {Deleting(lat[o])}
    BY <1>4, <2>1 DEF AddPut, AddFinish, UpdateRewrite, DeleteRemove, WriteStep, Step
  <2>. QED  BY <1>4, <2>1, <2>2, <2>3, <2>4
<1>. QED  BY <1>1, <1>2, <1>3, <1>4 DEF Writes

LEMMA UidStep ==
  ASSUME IInv, UidInv, Next
  PROVE  UidInv'
<1>1. ASSUME NEW n \in Names, NEW r \in written'[n]
      PROVE  r.uid \in Calls("add") /\ Target(r.uid) = n
  <2>1. CASE r \in written[n]
    BY <2>1 DEF UidInv
  <2>2. CASE r \notin written[n]
    <3>1. PICK o \in Ops : Writes(o)
      BY <2>2, OnlyWritersWrite
    <3>2. n = Target(o)
      <4>1. Target(o) \in Names
        BY <3>1, WriterHas DEF IInv
      <4>2. PICK m \in Names : m = Target(o)
        BY <4>1
      <4>. QED  BY <2>2, <3>1, <4>2, WriterLeaves
    <3>3. ~DeleteRemove(o)
      BY <2>2 DEF DeleteRemove
    <3>4. (r.uid = o /\ o \in Calls("add")) \/ \E s \in written[n] : r.uid = s.uid
      BY <2>2, <3>1, <3>2, <3>3, NewRecord
    <3>. QED  BY <3>2, <3>4 DEF UidInv
  <2>. QED  BY <2>1, <2>2
<1>2. ASSUME NEW o \in Calls("add") PROVE o \in Calls("add")' /\ Target(o)' = Target(o)
  BY CallsStay DEF Calls, Target
<1>3. \A n \in Names : \A r \in written'[n] : r.uid \in Calls("add")' /\ Target(r.uid)' = n
  BY <1>1, <1>2, CallsStay DEF Calls, Target
<1>4. \A o \in Ops : pc'[o] = "idle" => call'[o] = Nothing
  BY CallMoves DEF UidInv
<1>. QED  BY <1>3, <1>4 DEF UidInv

\* A name changes exactly when a call of it writes.
LEMMA NameChanges ==
  ASSUME IInv, Next, NEW n \in Names
  PROVE  /\ kv'[n] # kv[n] => \E o \in Ops : n = Target(o) /\ Writes(o)
         /\ \A o \in Ops : (n = Target(o) /\ Writes(o)) => kv'[n] # kv[n]
<1>1. ASSUME kv'[n] # kv[n]
      PROVE  \E o \in Ops : n = Target(o) /\ Writes(o)
  <2>1. PICK o \in Ops : Writes(o)
    BY <1>1, OnlyWritersWrite
  <2>2. PICK m \in Names : m = Target(o)
    BY <2>1, WriterHas DEF IInv
  <2>. QED  BY <1>1, <2>1, <2>2, WriterLeaves
<1>2. ASSUME NEW o \in Ops, n = Target(o), Writes(o)
      PROVE  kv'[n] # kv[n]
  <2>0. \E op, v : kv'[n] = Message(op, v)
    BY <1>2, WriterLeaves
  <2>1. kv'[n].rev = seq + 1
    BY <2>0 DEF Message
  <2>2. kv[n].rev \in Nat /\ seq \in Nat /\ kv[n].rev <= seq
    BY DEF IInv, TypeInv, TypeOK, Entry, OwnInv
  <2>. QED  BY <2>1, <2>2
<1>. QED  BY <1>1, <1>2

\* Requests stay with their calls.
LEMMA CallsGrow ==
  ASSUME IInv, UidInv, Next, NEW k
  PROVE  Calls(k) \subseteq Calls(k)'
BY CallsStay DEF Calls

LEMMA ProvisioningStep ==
  ASSUME IInv, UidInv, ProvisioningHasCause, Next
  PROVE  ProvisioningHasCause'
<1>. SUFFICES ASSUME NEW n \in Names, Live(n)', Get(n)'.phase = "Provisioning"
              PROVE  \/ pc'[Get(n)'.uid] \in {"component", "finish", "failed", "lost"}
                     \/ Get(n)'.version \in Calls("update")'
  BY DEF ProvisioningHasCause
<1>1. CASE kv'[n] = kv[n]
  <2>1. Live(n) /\ Get(n)' = Get(n) /\ Get(n) \in written[n] /\ Get(n).uid \in Calls("add")
    BY <1>1 DEF Live, Get, IInv, StoredInv, UidInv
  <2>2. PICK u \in Ops : u = Get(n).uid /\ Target(u) = n
    BY <2>1 DEF UidInv, Calls
  <2>3. ~AddFinish(u)
    BY <1>1, <2>2, NameChanges DEF Writes
  <2>4. pc[u] \in {"component", "finish", "failed", "lost"} \/ Get(n).version \in Calls("update")
    BY <2>1, <2>2 DEF ProvisioningHasCause
  <2>5. pc[u] \in {"component", "finish", "failed", "lost"} =>
          pc'[u] \in {"component", "finish", "failed", "lost"}
    BY <2>3, CallMoves
  <2>. QED  BY <2>1, <2>2, <2>4, <2>5, CallsGrow
<1>2. CASE kv'[n] # kv[n]
  <2>1. PICK o \in Ops : n = Target(o) /\ Writes(o)
    BY <1>2, NameChanges
  <2>2. ~DeleteRemove(o)
    BY <2>1, WriterHas DEF DeleteRemove, Delete, Message, Live, IInv, TypeInv, TypeOK
  <2>3. PICK l \in Lattice :
          /\ kv'[n] = Message("put", l)
          /\ \/ AddPut(o) /\ l.uid = o
             \/ l.phase \in {"Created", "Deleting"}
             \/ l.version = o /\ o \in Calls("update")
    BY <2>1, <2>2, NewRecord
  <2>4. Get(n)' = l
    BY <2>3 DEF Get, Message
  <2>5. AddPut(o) => pc'[o] \in {"component", "finish", "failed"}
    BY DEF AddPut, AfterPut, WriteStep, Step, IInv, TypeInv, TypeOK
  <2>. QED  BY <2>3, <2>4, <2>5, CallsGrow
<1>. QED  BY <1>1, <1>2

LEMMA DeletingStep ==
  ASSUME IInv, UidInv, DeletingHasCause, Next
  PROVE  DeletingHasCause'
<1>. SUFFICES ASSUME NEW n \in Names, Live(n)', Get(n)'.phase = "Deleting"
              PROVE  \/ \E o \in Calls("delete")' :
                          lat'[o] = Get(n)' /\ pc'[o] \in {"remove", "failed", "lost"}
                     \/ Get(n)'.version \in Calls("update")'
  BY DEF DeletingHasCause
<1>1. CASE kv'[n] = kv[n]
  <2>1. Live(n) /\ Get(n)' = Get(n) /\ Get(n) \in written[n]
    BY <1>1 DEF Live, Get, IInv, StoredInv
  <2>2. ASSUME NEW o \in Calls("delete"), lat[o] = Get(n),
               pc[o] \in {"remove", "failed", "lost"}
        PROVE  lat'[o] = Get(n)' /\ pc'[o] \in {"remove", "failed", "lost"}
    <3>1. o \in Ops
      BY DEF Calls
    <3>2. ~DeleteRemove(o)
      <4>1. SUFFICES ASSUME DeleteRemove(o) PROVE Target(o) = n
        BY <1>1, <3>1, NameChanges DEF Writes
      <4>2. lat[o] \in written[Target(o)] /\ Target(o) \in Names
        BY <3>1, <4>1, WriterHas DEF Writes, DeleteRemove, WriteStep, Step, IInv, StoredInv
      <4>. QED  BY <2>1, <2>2, <4>2 DEF UidInv
    <3>. QED  BY <2>1, <2>2, <3>1, <3>2, CallMoves
  <2>3. \/ \E o \in Calls("delete") : lat[o] = Get(n) /\ pc[o] \in {"remove", "failed", "lost"}
        \/ Get(n).version \in Calls("update")
    BY <2>1 DEF DeletingHasCause
  <2>. QED  BY <2>1, <2>2, <2>3, CallsGrow
<1>2. CASE kv'[n] # kv[n]
  <2>1. PICK o \in Ops : n = Target(o) /\ Writes(o)
    BY <1>2, NameChanges
  <2>2. ~DeleteRemove(o)
    BY <2>1, WriterHas DEF DeleteRemove, Delete, Message, Live, IInv, TypeInv, TypeOK
  <2>3. PICK l \in Lattice :
          /\ kv'[n] = Message("put", l)
          /\ \/ l.phase \in {"Provisioning", "Created"}
             \/ l.version = o /\ o \in Calls("update")
             \/ o \in Calls("delete") /\ l = lat'[o] /\ pc'[o] \in {"remove", "failed"}
    BY <2>1, <2>2, NewRecord
  <2>4. Get(n)' = l
    BY <2>3 DEF Get, Message
  <2>. QED  BY <2>3, <2>4, CallsGrow
<1>. QED  BY <1>1, <1>2

LEMMA ResurrectStep ==
  ASSUME IInv, UidInv, OnlyRewritesResurrect, Next
  PROVE  OnlyRewritesResurrect'
<1>. SUFFICES ASSUME NEW n \in Names, Live(n)', NEW o \in Ops, o \in Acked("delete")',
                     Get(n)'.uid = lat'[o].uid
              PROVE  Get(n)'.phase = "Deleting" \/ Get(n)'.version \in Calls("update")'
  BY DEF OnlyRewritesResurrect, Acked, Calls
<1>1. CASE pc[o] = "done"
  <2>1. lat'[o] = lat[o] /\ o \in Acked("delete")
    <3>1. call[o] # Nothing
      BY <1>1, DistinctAssumption DEF IInv, TypeInv, CallOK
    <3>. QED  BY <1>1, <3>1, CallMoves, CallsStay DEF Acked, Calls
  <2>2. CASE kv'[n] = kv[n]
    BY <2>1, <2>2, CallsGrow DEF OnlyRewritesResurrect, Live, Get
  <2>3. CASE kv'[n] # kv[n]
    <3>1. PICK p \in Ops : n = Target(p) /\ Writes(p)
      BY <2>3, NameChanges
    <3>2. ~DeleteRemove(p)
      BY <3>1, WriterHas DEF DeleteRemove, Delete, Message, Live, IInv, TypeInv, TypeOK
    <3>3. PICK l \in Lattice :
            /\ kv'[n] = Message("put", l)
            /\ \/ AddPut(p) /\ l.uid = p
               \/ /\ p \in Calls("add") /\ l.uid = p
                  /\ l.version \in {p} \cup ClientVersions
                  /\ Live(n) /\ Get(n).uid = p /\ Get(n).version = l.version
                  /\ Get(n).phase = "Provisioning"
               \/ l.version = p /\ p \in Calls("update")
               \/ l.phase = "Deleting"
      BY <3>1, <3>2, NewRecord
    <3>4. Get(n)' = l
      BY <3>3 DEF Get, Message
    <3>5. ~(AddPut(p) /\ l.uid = p)
      <4>1. lat[o] \in written[Target(o)] /\ Target(o) \in Names
        BY <1>1 DEF IInv, TypeInv, CallOK, StoredInv
      <4>2. AddPut(p) => lat[o].uid # p
        BY <4>1 DEF AddPut, WriteStep, Step, IInv, VersionInv, FreshUids
      <4>. QED  BY <2>1, <3>4, <4>2
    <3>6. ASSUME p \in Calls("add"), l.uid = p, l.version \in {p} \cup ClientVersions,
                 Live(n), Get(n).uid = p, Get(n).version = l.version,
                 Get(n).phase = "Provisioning"
          PROVE  FALSE
      <4>1. l.version \in Calls("update")
        BY <2>1, <3>4, <3>6 DEF OnlyRewritesResurrect
      <4>2. p \notin Calls("update") /\ Calls("update") \cap ClientVersions = {}
        BY <3>6, DistinctAssumption DEF Calls
      <4>. QED  BY <3>6, <4>1, <4>2
    <3>. QED  BY <3>3, <3>4, <3>5, <3>6, CallsGrow
  <2>. QED  BY <2>2, <2>3
<1>2. CASE pc[o] # "done"
  <2>1. DeleteRemove(o) /\ lat'[o] = lat[o]
    BY <1>2, CallMoves DEF Acked, Calls
  <2>2. PICK m \in Names : m = Target(o)
    BY <2>1, WriterHas DEF IInv, Writes
  <2>3. lat[o] \in written[m]
    BY <2>1, <2>2 DEF DeleteRemove, WriteStep, Step, IInv, StoredInv
  <2>4. kv'[m] = Message("delete", Nothing) /\ (n # m => kv'[n] = kv[n])
    BY <2>1, <2>2 DEF DeleteRemove, Delete, IInv, TypeInv, TypeOK
  <2>5. n # m /\ kv'[n] = kv[n]
    BY <2>4 DEF Live, Message
  <2>6. Get(n)' = Get(n) /\ Get(n) \in written[n]
    BY <2>5 DEF Get, Live, IInv, StoredInv
  <2>. QED  BY <2>1, <2>3, <2>5, <2>6 DEF UidInv
<1>. QED  BY <1>1, <1>2

LEMMA CauseInvariance == Spec => []CauseInv
<1>1. IInv /\ CauseInv /\ [Next]_vars => CauseInv'
  <2>1. ASSUME CauseInv, UNCHANGED vars PROVE CauseInv'
    BY <2>1 DEF CauseInv, UidInv, OnlyRewritesResurrect, ProvisioningHasCause,
                DeletingHasCause, vars, Live, Get, Acked, Calls, Target
  <2>. QED
    BY <2>1, UidStep, ProvisioningStep, DeletingStep, ResurrectStep DEF CauseInv
<1>. QED  BY <1>1, CauseInit, Invariance, PTL DEF Spec

\* An acknowledged delete is undone by another rewrite of the record only, never
\* by the add that provisioned it.
THEOREM ResurrectCorrect == Spec => []OnlyRewritesResurrect
<1>1. CauseInv => OnlyRewritesResurrect
  BY DEF CauseInv
<1>. QED  BY <1>1, CauseInvariance, PTL

\* An add leaves a Provisioning lattice only by failing or dying, unless an
\* update puts it back.
THEOREM ProvisioningCorrect == Spec => []ProvisioningHasCause
<1>1. CauseInv => ProvisioningHasCause
  BY DEF CauseInv
<1>. QED  BY <1>1, CauseInvariance, PTL

\* A delete leaves a Deleting lattice only by failing or dying, unless an
\* update puts it back.
THEOREM DeletingCorrect == Spec => []DeletingHasCause
<1>1. CauseInv => DeletingHasCause
  BY DEF CauseInv
<1>. QED  BY <1>1, CauseInvariance, PTL

=============================================================================
