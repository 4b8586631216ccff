-------------------------- MODULE WorkQueueProofs --------------------------
(***************************************************************************)
(* Proofs about WorkQueue for any instances, messages, limits of           *)
(* deliveries and numbers of faults.                                       *)
(***************************************************************************)
EXTENDS WorkQueue, FiniteSetTheorems, TLAPS

Tasks == [Messages -> [Deliveries -> up \cup {Nothing}]]

QueueTypes ==
  /\ up \subseteq Instances
  /\ state \in [Messages -> {"ready", "pending", "acked", "spent"}]
  /\ deliveries \in [Messages -> Nat]
  /\ handler \in Tasks
  /\ progress \in Tasks
  /\ disturbed \subseteq Messages

\* A message that no crash and no outage touched was delivered once at most,
\* and its progress task goes on whatever became of the handler: the server has
\* no reason to deliver it again.
Calm(m) ==
  /\ deliveries[m] \in {0, 1}
  /\ state[m] = "ready" => deliveries[m] = 0
  /\ deliveries[m] = 1 => progress[m][1] # Nothing
  /\ deliveries[m] = 0 => state[m] = "ready"
  /\ \A d \in Deliveries : handler[m][d] # Nothing => d <= deliveries[m]

QueueInv == QueueTypes /\ \A m \in Messages \ disturbed : Calm(m)

LEMMA FirstDelivery == 1 \in Deliveries
BY WorkQueueAssumption DEF Deliveries

\* One task of one message is spawned or ends.
LEMMA SetTask ==
  ASSUME NEW S, NEW h \in [Messages -> [Deliveries -> S]],
         NEW m \in Messages, NEW d \in Nat, NEW x \in S
  PROVE  /\ [h EXCEPT ![m][d] = x] \in [Messages -> [Deliveries -> S]]
         /\ \A n \in Messages : n # m => [h EXCEPT ![m][d] = x][n] = h[n]
         /\ \A e \in Deliveries :
              [h EXCEPT ![m][d] = x][m][e] = IF e = d THEN x ELSE h[m][e]
<1>1. [h[m] EXCEPT ![d] = x] \in [Deliveries -> S]
  OBVIOUS
<1>2. [h EXCEPT ![m][d] = x] = [h EXCEPT ![m] = [h[m] EXCEPT ![d] = x]]
  OBVIOUS
<1>. QED  BY <1>1, <1>2

LEMMA QueueInvInit == Init => QueueInv
BY DEF Init, NoTasks, QueueInv, QueueTypes, Tasks, Calm

LEMMA ReceiveStep ==
  ASSUME QueueInv, NEW i \in Instances, NEW m \in Messages, Receive(i, m)
  PROVE  QueueInv'
<1>. DEFINE d == deliveries[m] + 1
            S == up \cup {Nothing}
<1>1. /\ i \in up /\ state[m] = "ready" /\ d \in Nat
      /\ up' = up /\ disturbed' = disturbed
      /\ state' = [state EXCEPT ![m] = "pending"]
      /\ deliveries' = [deliveries EXCEPT ![m] = d]
      /\ handler' = [handler EXCEPT ![m][d] = i]
      /\ progress' = [progress EXCEPT ![m][d] = i]
  BY DEF Receive, SpawnHandler, historyVars, QueueInv, QueueTypes
<1>2. handler \in [Messages -> [Deliveries -> S]] /\ progress \in [Messages -> [Deliveries -> S]]
  BY DEF QueueInv, QueueTypes, Tasks
<1>3. handler' \in [Messages -> [Deliveries -> S]] /\ progress' \in [Messages -> [Deliveries -> S]]
  BY <1>1, <1>2, SetTask
<1>4. QueueTypes'
  BY <1>1, <1>3 DEF QueueInv, QueueTypes, Tasks
<1>5. ASSUME NEW n \in Messages \ disturbed PROVE Calm(n)'
  <2>1. Calm(n)
    BY <1>5 DEF QueueInv
  <2>2. CASE n = m
    <3>1. d = 1 /\ i # Nothing
      BY <1>1, <2>1, <2>2, WorkQueueAssumption DEF QueueInv, QueueTypes, Calm
    <3>2. progress'[n][1] = i
      BY <1>1, <1>2, <2>2, <3>1, SetTask, FirstDelivery
    <3>3. \A e \in Deliveries : handler'[n][e] # Nothing => e <= 1
      BY <1>1, <1>2, <2>1, <2>2, <3>1, SetTask DEF Calm, Deliveries
    <3>4. deliveries'[n] = 1 /\ state'[n] = "pending"
      BY <1>1, <2>2, <3>1 DEF QueueInv, QueueTypes
    <3>. QED  BY <3>1, <3>2, <3>3, <3>4 DEF Calm
  <2>3. CASE n # m
    <3>1. handler'[n] = handler[n] /\ progress'[n] = progress[n]
      BY <1>1, <1>2, <1>5, <2>3, SetTask
    <3>2. deliveries'[n] = deliveries[n] /\ state'[n] = state[n]
      BY <1>1, <1>5, <2>3 DEF QueueInv, QueueTypes
    <3>. QED  BY <2>1, <3>1, <3>2 DEF Calm
  <2>. QED  BY <2>2, <2>3
<1>. QED  BY <1>1, <1>4, <1>5 DEF QueueInv

LEMMA HandlerStep ==
  ASSUME QueueInv, NEW m \in Messages, NEW d \in Deliveries,
         HandlerPanics(m, d) \/ Acked(m, d) \/ AckFails(m, d)
  PROVE  QueueInv'
<1>. DEFINE S == up \cup {Nothing}
<1>1. /\ handler' = [handler EXCEPT ![m][d] = Nothing]
      /\ UNCHANGED <<up, deliveries, progress, disturbed>>
      /\ state' \in {state, [state EXCEPT ![m] = "acked"]}
      /\ handler[m][d] # Nothing /\ d \in Nat
  BY DEF HandlerPanics, Acked, AckFails, HandlerReturns, Deliveries
<1>2. handler \in [Messages -> [Deliveries -> S]] /\ Nothing \in S
  BY DEF QueueInv, QueueTypes, Tasks
<1>3. /\ handler' \in [Messages -> [Deliveries -> S]]
      /\ \A n \in Messages : \A e \in Deliveries :
           handler'[n][e] # Nothing => handler[n][e] # Nothing
  BY <1>1, <1>2, SetTask
<1>4. QueueTypes'
  BY <1>1, <1>3 DEF QueueInv, QueueTypes, Tasks
<1>5. ASSUME NEW n \in Messages \ disturbed PROVE Calm(n)'
  <2>1. Calm(n)
    BY <1>5 DEF QueueInv
  <2>2. \A e \in Deliveries : handler'[n][e] # Nothing => e <= deliveries[n]
    BY <1>3, <1>5, <2>1 DEF Calm
  <2>3. state'[n] = state[n] \/ (n = m /\ state'[n] = "acked" /\ deliveries[n] # 0)
    BY <1>1, <1>5, <2>1 DEF QueueInv, QueueTypes, Calm, Deliveries
  <2>. QED  BY <1>1, <2>1, <2>2, <2>3 DEF Calm
<1>. QED  BY <1>1, <1>4, <1>5 DEF QueueInv

LEMMA ServerStep ==
  ASSUME QueueInv, NEW m \in Messages, Expire(m) \/ Outage(m)
  PROVE  QueueInv'
<1>. USE DEF QueueInv, QueueTypes, Tasks, Expire, Outage, AckWaitElapses, taskVars
<1>1. QueueTypes'
  OBVIOUS
<1>2. Expire(m) => m \in disturbed
  BY FirstDelivery DEF Calm, InProgress
<1>3. ASSUME NEW n \in Messages \ disturbed' PROVE Calm(n)'
  BY <1>2, <1>3 DEF Calm
<1>. QED  BY <1>1, <1>3

LEMMA CrashStep ==
  ASSUME QueueInv, NEW i \in Instances, Crash(i)
  PROVE  QueueInv'
<1>. USE DEF QueueInv, QueueTypes, Tasks, Crash, Without
<1>1. QueueTypes'
  OBVIOUS
<1>2. ASSUME NEW n \in Messages \ disturbed' PROVE Calm(n)'
  <2>1. \A d \in Deliveries : progress[n][d] # i
    BY <1>2
  <2>2. CASE UNCHANGED <<state, deliveries>>
    BY <1>2, <2>1, <2>2, FirstDelivery DEF Calm
  <2>3. CASE up = {i} /\ deliveries' = [k \in Messages |-> 0]
             /\ state' = [k \in Messages |-> IF state[k] = "acked" THEN "acked" ELSE "ready"]
    <3>1. \A d \in Deliveries : progress[n][d] = Nothing
      BY <1>2, <2>1, <2>3
    <3>2. deliveries[n] = 0 /\ state[n] = "ready"
      BY <1>2, <3>1, FirstDelivery DEF Calm
    <3>. QED  BY <1>2, <2>3, <3>2 DEF Calm, Deliveries
  <2>. QED  BY <2>2, <2>3
<1>. QED  BY <1>1, <1>2

LEMMA QueueInvStep == QueueInv /\ [Next]_vars => QueueInv'
<1>. SUFFICES ASSUME QueueInv, [Next]_vars PROVE QueueInv'
  OBVIOUS
<1>1. ASSUME NEW i \in Instances, Start(i) PROVE QueueInv'
  BY <1>1 DEF Start, QueueInv, QueueTypes, Tasks, Calm, taskVars, historyVars
<1>2. CASE UNCHANGED vars
  BY <1>2 DEF vars, QueueInv, QueueTypes, Tasks, Calm, taskVars, historyVars
<1>. QED
  BY <1>1, <1>2, ReceiveStep, HandlerStep, ServerStep, CrashStep DEF Next, HandlerEnds

\* A message is delivered again only after a crash or an outage, however long
\* its handler takes and whether or not it acknowledges.
THEOREM RedeliveryCorrect == Spec => []RedeliveryHasCause
<1>1. QueueInv => RedeliveryHasCause
  BY DEF QueueInv, QueueTypes, Calm, RedeliveryHasCause
<1>. QED  BY <1>1, QueueInvInit, QueueInvStep, PTL DEF Spec

\* Two handlers never work on one message at a time, unless its instance
\* crashed or was cut off.
THEOREM OneHandlerCorrect == Spec => []OneHandler
<1>1. ASSUME QueueInv, NEW m \in Messages \ disturbed
      PROVE  Cardinality({d \in Deliveries : handler[m][d] # Nothing}) <= 1
  <2>. DEFINE H == {d \in Deliveries : handler[m][d] # Nothing}
  <2>1. H \subseteq {1}
    BY <1>1 DEF QueueInv, QueueTypes, Calm, Deliveries
  <2>2. IsFiniteSet({1}) /\ Cardinality({1}) = 1
    BY FS_Singleton
  <2>. QED  BY <2>1, <2>2, FS_Subset
<1>2. QueueInv => OneHandler
  BY <1>1 DEF OneHandler
<1>. QED  BY <1>2, QueueInvInit, QueueInvStep, PTL DEF Spec

-----------------------------------------------------------------------------
(* Types, and the bound on deliveries. *)

\* A message is delivered again only while it has deliveries left.
QueueBounds ==
  /\ TypeOK
  /\ \A m \in Messages : state[m] = "ready" => deliveries[m] < MaxDeliver

LEMMA BoundsInit == Init => QueueBounds
BY WorkQueueAssumption DEF Init, NoTasks, QueueBounds, TypeOK, Deliveries

LEMMA BoundsStep == QueueBounds /\ [Next]_vars => QueueBounds'
<1>. SUFFICES ASSUME QueueBounds, [Next]_vars PROVE QueueBounds'
  OBVIOUS
<1>. USE DEF QueueBounds, TypeOK
<1>1. ASSUME NEW i \in Instances, Start(i) PROVE QueueBounds'
  BY <1>1 DEF Start, taskVars, historyVars
<1>2. ASSUME NEW i \in Instances, NEW m \in Messages, Receive(i, m) PROVE QueueBounds'
  <2>. DEFINE d == deliveries[m] + 1
  <2>1. d \in 0..MaxDeliver /\ i \in up
    BY <1>2, WorkQueueAssumption DEF Receive
  <2>2. /\ handler' \in [Messages -> [Deliveries -> up \cup {Nothing}]]
        /\ progress' \in [Messages -> [Deliveries -> up \cup {Nothing}]]
    BY <1>2, <2>1, SetTask DEF Receive, SpawnHandler
  <2>. QED  BY <1>2, <2>1, <2>2 DEF Receive, historyVars
<1>3. ASSUME NEW m \in Messages, NEW d \in Deliveries,
             HandlerPanics(m, d) \/ Acked(m, d) \/ AckFails(m, d)
      PROVE  QueueBounds'
  <2>1. /\ handler' = [handler EXCEPT ![m][d] = Nothing]
        /\ UNCHANGED <<up, deliveries, progress, faults, disturbed>>
        /\ state' \in {state, [state EXCEPT ![m] = "acked"]}
        /\ unconfirmed' \in {unconfirmed, unconfirmed \cup {m}}
    BY <1>3 DEF HandlerPanics, Acked, AckFails, HandlerReturns
  <2>2. handler' \in [Messages -> [Deliveries -> up \cup {Nothing}]]
    BY <2>1, SetTask DEF Deliveries
  <2>. QED  BY <2>1, <2>2
<1>4. ASSUME NEW m \in Messages, Expire(m) \/ Outage(m) PROVE QueueBounds'
  BY <1>4, WorkQueueAssumption DEF Expire, Outage, AckWaitElapses, taskVars
<1>5. ASSUME NEW i \in Instances, Crash(i) PROVE QueueBounds'
  <2>1. /\ handler' \in [Messages -> [Deliveries -> up' \cup {Nothing}]]
        /\ progress' \in [Messages -> [Deliveries -> up' \cup {Nothing}]]
    BY <1>5 DEF Crash, Without
  <2>2. faults' \in 0..MaxFaults
    BY <1>5, WorkQueueAssumption DEF Crash
  <2>. QED  BY <1>5, <2>1, <2>2, WorkQueueAssumption DEF Crash
<1>6. CASE UNCHANGED vars
  BY <1>6 DEF vars
<1>. QED  BY <1>1, <1>2, <1>3, <1>4, <1>5, <1>6 DEF Next, HandlerEnds

\* The variables keep their types: no message is delivered more often than the
\* consumer allows, and every task belongs to an instance that runs.
THEOREM TypeCorrect == Spec => []TypeOK
<1>1. QueueBounds => TypeOK
  BY DEF QueueBounds
<1>. QED  BY <1>1, BoundsInit, BoundsStep, PTL DEF Spec

=============================================================================
