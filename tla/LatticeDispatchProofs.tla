----------------------- MODULE LatticeDispatchProofs -----------------------
(***************************************************************************)
(* Proofs about Startup and LatticeDispatch for any instances,             *)
(* configurations, calls and numbers of slots.                             *)
(***************************************************************************)
EXTENDS LatticeDispatch, FiniteSetTheorems, TLAPS

-----------------------------------------------------------------------------
(* The start-up: a task runs with its component or needs none. *)

StartupInv ==
  /\ config \in Config
  /\ proc \in [Instances -> Process]
  /\ NeverWithoutComponent

LEMMA StartupInvInit == StartupInit => StartupInv
BY ConfigsAssumption
   DEF StartupInit, StartupInv, Off, Process, NeverWithoutComponent

\* A step that leaves the tasks of a process alone, or ends some of them, or
\* lets the process begin anew.
LEMMA FewerTasksRun ==
  ASSUME StartupInv, UNCHANGED config, NEW i \in Instances, NEW p \in Process,
         proc' = [proc EXCEPT ![i] = p],
         p.running \subseteq proc[i].running,
         p.component = proc[i].component \/ p.running = {}
  PROVE  StartupInv'
BY DEF StartupInv, NeverWithoutComponent, Source, Process

\* A task is spawned only once it has the component it needs.
LEMMA SpawnStep ==
  ASSUME StartupInv, NEW i \in Instances, NEW t \in Tasks, NEW having \in SUBSET Tasks,
         proc[i].component \subseteq having, Source(t) # "none" => t \in having,
         Spawn(i, t, having)
  PROVE  StartupInv'
<1>. DEFINE p == [proc[i] EXCEPT !.at = After[t], !.load = "no",
                                 !.component = having, !.running = @ \cup {t}]
<1>1. proc[i] \in Process
  BY DEF StartupInv
<1>2. After[t] \in {"off", "bucket", "create", "join"} \cup Tasks
  BY DEF After, Tasks, Callouts
<1>3. /\ p \in Process
      /\ p.running = proc[i].running \cup {t}
      /\ p.component = having
  BY <1>1, <1>2 DEF Process
<1>4. proc' = [proc EXCEPT ![i] = p] /\ UNCHANGED config
  BY DEF Spawn
<1>5. proc' \in [Instances -> Process]
  BY <1>3, <1>4 DEF StartupInv
<1>6. NeverWithoutComponent'
  BY <1>3, <1>4 DEF StartupInv, NeverWithoutComponent, Source
<1>. QED  BY <1>4, <1>5, <1>6 DEF StartupInv

LEMMA StartupInvStep ==
  ASSUME StartupInv,
         NEW i \in Instances, ProcessStep(i) \/ LatticeTaskGone(i)
  PROVE  StartupInv'
<1>. proc[i] \in Process
  BY DEF StartupInv
<1>. Off \in Process /\ Off.running = {}
  BY DEF Off, Process
<1>0. ASSUME NEW place \in {"bucket", "create", "host", "lattice"}, NEW from,
             Go(i, from, place), UNCHANGED config
      PROVE  StartupInv'
  <2>. DEFINE p == [proc[i] EXCEPT !.at = place]
  <2>1. p \in Process /\ p.running = proc[i].running /\ p.component = proc[i].component
    BY <1>0 DEF Process, Tasks, Callouts
  <2>2. proc' = [proc EXCEPT ![i] = p]
    BY <1>0 DEF Go
  <2>. QED  BY <1>0, <2>1, <2>2, FewerTasksRun
<1>1. CASE Start(i) \/ GetBucket(i) \/ GetBucketFails(i) \/ CreateBucket(i)
  BY <1>0, <1>1 DEF Start, GetBucket, GetBucketFails, CreateBucket, AfterBucket
<1>2. CASE CreateBucketUnknown(i) \/ Exit(i) \/ Dies(i)
  BY <1>2, FewerTasksRun DEF CreateBucketUnknown, Exit, Dies
<1>3. ASSUME NEW t \in Tasks, BuildPlain(i, t) PROVE StartupInv'
  BY <1>3, SpawnStep DEF BuildPlain, Process
<1>4. ASSUME NEW t \in Tasks, NEW from, NEW to \in {"open", "read", "pull", "compile"},
             Load(i, t, from, to)
      PROVE  StartupInv'
  <2>. DEFINE p == [proc[i] EXCEPT !.load = to]
  <2>1. p \in Process /\ p.running = proc[i].running /\ p.component = proc[i].component
    BY <1>4 DEF Process
  <2>2. proc' = [proc EXCEPT ![i] = p] /\ UNCHANGED config
    BY <1>4 DEF Load
  <2>. QED  BY <2>1, <2>2, FewerTasksRun
<1>5. ASSUME NEW t \in Tasks,
             BuildBegin(i, t) \/ OpenObject(i, t) \/ PullImage(i, t) \/ ReadEnds(i, t)
      PROVE  StartupInv'
  BY <1>4, <1>5 DEF BuildBegin, OpenObject, PullImage, ReadEnds
<1>6. ASSUME NEW t \in Tasks, Compile(i, t) PROVE StartupInv'
  BY <1>6, SpawnStep DEF Compile, Process
<1>7. ASSUME NEW t \in Tasks, TaskEnds(i, t) PROVE StartupInv'
  <2>. DEFINE p == [proc[i] EXCEPT !.running = @ \ {t}, !.ended = @ \cup {t}]
  <2>1. p \in Process /\ p.running \subseteq proc[i].running /\ p.component = proc[i].component
    BY <1>7 DEF Process
  <2>2. proc' = [proc EXCEPT ![i] = p] /\ UNCHANGED config
    BY <1>7 DEF TaskEnds
  <2>. QED  BY <2>1, <2>2, FewerTasksRun
<1>. QED
  BY <1>1, <1>2, <1>3, <1>5, <1>6, <1>7
     DEF ProcessStep, LatticeTaskGone, Proceed, Fetch, Tasks

\* Only the steps of Startup change its variables.
LEMMA DispatchLeavesStartup ==
  ASSUME [Next]_vars
  PROVE  \/ UNCHANGED startupVars
         \/ \E i \in Instances : ProcessStep(i) \/ LatticeTaskGone(i)
BY DEF Next, vars, Serve, LeaveComponent, Accept, EnterComponent, Leave, Finish, Fails, Invoke

\* However the starts of the instances interleave, fail and are repeated, no
\* task of a configured component ever runs without it.
THEOREM ComponentsCorrect == Spec => []NeverWithoutComponent
<1>1. Init => StartupInv
  BY StartupInvInit DEF Init
<1>2. StartupInv /\ [Next]_vars => StartupInv'
  <2>. SUFFICES ASSUME StartupInv, [Next]_vars PROVE StartupInv'
    OBVIOUS
  <2>1. CASE UNCHANGED startupVars
    BY <2>1 DEF startupVars, StartupInv, NeverWithoutComponent, Source
  <2>2. CASE \E i \in Instances : ProcessStep(i) \/ LatticeTaskGone(i)
    BY <2>2, StartupInvStep
  <2>. QED  BY <2>1, <2>2, DispatchLeavesStartup
<1>3. StartupInv => NeverWithoutComponent
  BY DEF StartupInv
<1>. QED  BY <1>1, <1>2, <1>3, PTL DEF Spec

-----------------------------------------------------------------------------
(* The calls: a message is in one buffer, once, until it is accepted. *)

\* Call c is the k-th in the buffer of function f at instance i.
Queued(c, i, f, k) == k \in DOMAIN buffer[i][f] /\ buffer[i][f][k] = c

CallTypes ==
  /\ serving \subseteq Instances
  /\ buffer \in [Instances -> [Functions -> Seq(Calls)]]
  /\ client \in [Calls -> {"idle", "waiting", "answered", "refused"}]
  /\ taken \in [Calls -> Nat]

\* A call not made yet is nowhere and was never accepted.
IdleIsNowhere ==
  \A c \in Calls : client[c] = "idle" =>
    /\ taken[c] = 0
    /\ \A i \in Instances, f \in Functions : \A k \in Nat : ~Queued(c, i, f, k)

\* A call that waits in a buffer was not accepted.
QueuedIsNew ==
  \A c \in Calls, i \in Instances, f \in Functions : \A k \in Nat :
    Queued(c, i, f, k) => taken[c] = 0

\* It waits at one place.
QueuedOnce ==
  \A c \in Calls, i, j \in Instances, f, g \in Functions : \A k, l \in Nat :
    Queued(c, i, f, k) /\ Queued(c, j, g, l) => i = j /\ f = g /\ k = l

CallInv == CallTypes /\ IdleIsNowhere /\ QueuedIsNew /\ QueuedOnce /\ HandledOnce

LEMMA CallInvInit == Init => CallInv
BY DEF Init, CallInv, CallTypes, IdleIsNowhere, QueuedIsNew, QueuedOnce,
       HandledOnce, Queued, Idle

\* A step after which every call that waits is where it was, and that accepts
\* none, keeps the invariant.
LEMMA FewerWait ==
  ASSUME CallInv, CallTypes', UNCHANGED taken,
         \A c \in Calls : client'[c] = "idle" => client[c] = "idle",
         \A c \in Calls, i \in Instances, f \in Functions : \A k \in Nat :
           Queued(c, i, f, k)' => Queued(c, i, f, k)
  PROVE  CallInv'
BY DEF CallInv, IdleIsNowhere, QueuedIsNew, QueuedOnce, HandledOnce

\* What is at a place of a sequence after something was put at its end ...
LEMMA AppendPlaces ==
  ASSUME NEW S, NEW s \in Seq(S), NEW e \in S, NEW k \in DOMAIN Append(s, e)
  PROVE  (k \in DOMAIN s /\ Append(s, e)[k] = s[k]) \/ (k = Len(s) + 1 /\ Append(s, e)[k] = e)
OBVIOUS

\* ... and after its head was taken.
LEMMA TailPlaces ==
  ASSUME NEW S, NEW s \in Seq(S), s # <<>>, NEW k \in DOMAIN Tail(s)
  PROVE  k > 0 /\ k + 1 \in DOMAIN s /\ Tail(s)[k] = s[k + 1]
OBVIOUS

\* A call is put at the end of one buffer.
LEMMA InvokeStep ==
  ASSUME CallInv, NEW c \in Calls, Invoke(c)
  PROVE  CallInv'
<1>1. client[c] = "idle" /\ Function[c] \in Functions /\ UNCHANGED taken
  BY DEF Invoke, Functions
<1>2. CASE UNCHANGED buffer /\ client' = [client EXCEPT ![c] = "refused"]
  <2>1. CallTypes'
    BY <1>2 DEF Invoke, CallInv, CallTypes
  <2>. QED  BY <1>1, <1>2, <2>1, FewerWait DEF CallInv, CallTypes, Queued
<1>3. CASE Deliver(c) /\ client' = [client EXCEPT ![c] = "waiting"]
  <2>1. PICK j \in serving : Enqueue({j}, c)
    BY <1>3 DEF Deliver
  <2>. DEFINE g == Function[c]
  <2>2. /\ buffer \in [Instances -> [Functions -> Seq(Calls)]]
        /\ j \in Instances
        /\ buffer[j][g] \in Seq(Calls)
    BY <1>1 DEF CallInv, CallTypes
  <2>3. /\ buffer' \in [Instances -> [Functions -> Seq(Calls)]]
        /\ \A i \in Instances, f \in Functions :
             buffer'[i][f] = IF i = j /\ f = g THEN Append(buffer[i][f], c)
                             ELSE buffer[i][f]
    BY <1>1, <2>1, <2>2 DEF Enqueue
  <2>4. \A d \in Calls, i \in Instances, f \in Functions : \A k \in Nat :
          Queued(d, i, f, k)' =>
            \/ Queued(d, i, f, k)
            \/ d = c /\ i = j /\ f = g /\ k = Len(buffer[j][g]) + 1
    <3>. TAKE d \in Calls, i \in Instances, f \in Functions
    <3>1. buffer[i][f] \in Seq(Calls)
      BY <2>2
    <3>2. CASE i = j /\ f = g
      <4>1. buffer'[i][f] = Append(buffer[i][f], c)
        BY <2>3, <3>2
      <4>. QED  BY <3>1, <3>2, <4>1, AppendPlaces DEF Queued
    <3>3. CASE ~(i = j /\ f = g)
      BY <2>3, <3>3 DEF Queued
    <3>. QED  BY <3>2, <3>3
  <2>5. CallTypes'
    BY <1>1, <1>3, <2>3 DEF Invoke, CallInv, CallTypes
  <2>6. \A i \in Instances, f \in Functions : \A k \in Nat : ~Queued(c, i, f, k)
    BY <1>1 DEF CallInv, IdleIsNowhere
  <2>7. taken[c] = 0
    BY <1>1 DEF CallInv, IdleIsNowhere
  <2>8. IdleIsNowhere'
    BY <1>1, <1>3, <2>4 DEF CallInv, CallTypes, IdleIsNowhere
  <2>9. QueuedIsNew'
    BY <1>1, <2>4, <2>7 DEF CallInv, QueuedIsNew
  <2>10. QueuedOnce'
    BY <2>4, <2>6 DEF CallInv, QueuedOnce
  <2>11. HandledOnce'
    BY <1>1 DEF CallInv, HandledOnce
  <2>. QED  BY <2>5, <2>8, <2>9, <2>10, <2>11 DEF CallInv
<1>. QED  BY <1>2, <1>3 DEF Invoke

\* The first call of a buffer leaves it and is accepted.
LEMMA AcceptStep ==
  ASSUME CallInv, NEW j \in Instances, NEW g \in Functions, Accept(j, g)
  PROVE  CallInv'
<1>1. /\ buffer \in [Instances -> [Functions -> Seq(Calls)]]
      /\ buffer[j][g] \in Seq(Calls) /\ buffer[j][g] # <<>>
  BY DEF Accept, CallInv, CallTypes
<1>2. PICK c \in Calls : c = Head(buffer[j][g]) /\ Queued(c, j, g, 1)
  BY <1>1 DEF Queued
<1>3. /\ taken' = [taken EXCEPT ![c] = @ + 1]
      /\ buffer' = [buffer EXCEPT ![j][g] = Tail(@)]
      /\ UNCHANGED <<client, serving>>
  BY <1>2 DEF Accept
<1>4. CallTypes'
  BY <1>1, <1>2, <1>3 DEF CallInv, CallTypes
<1>5. \A d \in Calls, i \in Instances, f \in Functions : \A k \in Nat :
        Queued(d, i, f, k)' =>
          IF i = j /\ f = g THEN k > 0 /\ Queued(d, i, f, k + 1) ELSE Queued(d, i, f, k)
  <2>. TAKE d \in Calls, i \in Instances, f \in Functions
  <2>1. buffer[i][f] \in Seq(Calls)
    BY <1>1
  <2>2. buffer'[i][f] = IF i = j /\ f = g THEN Tail(buffer[i][f]) ELSE buffer[i][f]
    BY <1>1, <1>3
  <2>3. CASE i = j /\ f = g
    BY <1>1, <2>2, <2>3, TailPlaces DEF Queued
  <2>4. CASE ~(i = j /\ f = g)
    BY <2>2, <2>4 DEF Queued
  <2>. QED  BY <2>3, <2>4
<1>6. ASSUME NEW i \in Instances, NEW f \in Functions, NEW k \in Nat
      PROVE  ~Queued(c, i, f, k)'
  <2>1. CASE i = j /\ f = g
    <3>1. k > 0 => ~Queued(c, i, f, k + 1)
      BY <1>2, <2>1 DEF CallInv, QueuedOnce
    <3>. QED  BY <1>2, <1>5, <2>1, <3>1
  <2>2. CASE ~(i = j /\ f = g)
    <3>1. ~Queued(c, i, f, k)
      BY <1>2, <2>2 DEF CallInv, QueuedOnce
    <3>. QED  BY <1>2, <1>5, <2>2, <3>1
  <2>. QED  BY <2>1, <2>2
<1>7. taken[c] = 0 /\ client[c] # "idle"
  BY <1>2 DEF CallInv, QueuedIsNew, IdleIsNowhere
<1>8. \A d \in Calls : taken'[d] = IF d = c THEN 1 ELSE taken[d]
  BY <1>2, <1>3, <1>7 DEF CallInv, CallTypes
<1>9. IdleIsNowhere'
  BY <1>3, <1>5, <1>7, <1>8 DEF CallInv, IdleIsNowhere
<1>10. QueuedIsNew'
  BY <1>5, <1>6, <1>8 DEF CallInv, QueuedIsNew
<1>11. QueuedOnce'
  BY <1>5 DEF CallInv, QueuedOnce
<1>12. HandledOnce'
  BY <1>8 DEF CallInv, HandledOnce
<1>. QED  BY <1>4, <1>9, <1>10, <1>11, <1>12 DEF CallInv

LEMMA CallInvStep ==
  ASSUME CallInv, Next
  PROVE  CallInv'
<1>1. ASSUME NEW i \in Instances, DropCalls(i) PROVE CallInv'
  <2>1. CallTypes'
    BY <1>1 DEF DropCalls, Idle, CallInv, CallTypes
  <2>2. \A c \in Calls, j \in Instances, f \in Functions : \A k \in Nat :
          Queued(c, j, f, k)' => Queued(c, j, f, k)
    BY <1>1 DEF DropCalls, Idle, Queued, CallInv, CallTypes
  <2>. QED  BY <1>1, <2>1, <2>2, FewerWait DEF DropCalls
<1>2. ASSUME UNCHANGED <<buffer, client, taken>>, serving' \subseteq Instances
      PROVE  CallInv'
  BY <1>2, FewerWait DEF CallInv, CallTypes, Queued
<1>3. ASSUME NEW i \in Instances, NEW c \in Calls, Finish(i, c) \/ Fails(i, c)
      PROVE  CallInv'
  <2>1. CallTypes'
    BY <1>3 DEF Leave, Finish, Fails, CallInv, CallTypes
  <2>. QED  BY <1>3, <2>1, FewerWait DEF Leave, Finish, Fails, CallInv, CallTypes, Queued
<1>4. ASSUME NEW i \in Instances, NEW c \in Calls, EnterComponent(i, c) PROVE CallInv'
  BY <1>2, <1>4 DEF EnterComponent, CallInv, CallTypes
<1>5. ASSUME UNCHANGED dispatchVars PROVE CallInv'
  BY <1>2, <1>5 DEF dispatchVars, CallInv, CallTypes
<1>6. ASSUME NEW i \in Instances, Serve(i) \/ LeaveComponent(i) PROVE CallInv'
  BY <1>2, <1>6 DEF Serve, LeaveComponent, CallInv, CallTypes
<1>. QED
  BY <1>1, <1>3, <1>4, <1>5, <1>6, InvokeStep, AcceptStep DEF Next

\* No call is handled twice: not by two instances, and not again after the
\* instance that had it died.
THEOREM OnceCorrect == Spec => []HandledOnce
<1>1. CallInv /\ [Next]_vars => CallInv'
  <2>1. CallInv /\ UNCHANGED vars => CallInv'
    BY DEF vars, dispatchVars, CallInv, CallTypes, IdleIsNowhere, QueuedIsNew,
           QueuedOnce, HandledOnce, Queued
  <2>. QED  BY <2>1, CallInvStep
<1>2. CallInv => HandledOnce
  BY DEF CallInv
<1>. QED  BY <1>1, <1>2, CallInvInit, PTL DEF Spec

-----------------------------------------------------------------------------
(* The types. *)

\* The tasks main has built when it is at a place.
BuiltBefore ==
  [off |-> {}, bucket |-> {}, create |-> {}, host |-> {},
   user |-> {"host"}, lattice |-> Callouts, join |-> Tasks]

\* main builds the tasks in their order: only those before the one it is at can
\* run or have ended.
PlaceInv ==
  /\ config \in Configs
  /\ bucket \in BOOLEAN
  /\ StartupInv
  /\ \A i \in Instances :
       proc[i].running \cup proc[i].ended \subseteq BuiltBefore[proc[i].at]

LEMMA PlaceInvInit == StartupInit => PlaceInv
<1>. SUFFICES ASSUME StartupInit PROVE PlaceInv
  OBVIOUS
<1>1. \A i \in Instances : proc[i].running \cup proc[i].ended = {}
  BY DEF StartupInit, Off
<1>. QED  BY <1>1, StartupInvInit DEF StartupInit, PlaceInv

LEMMA PlaceTypes == PlaceInv => StartupTypeOK
BY DEF PlaceInv, StartupTypeOK, StartupInv, Process, BuiltBefore, Tasks, Callouts

\* One process moves to a place where its tasks are behind it.
LEMMA OneMoves ==
  ASSUME PlaceInv, StartupInv', UNCHANGED config, bucket' \in BOOLEAN,
         NEW i \in Instances, NEW p,
         proc' = [proc EXCEPT ![i] = p],
         p.running \cup p.ended \subseteq BuiltBefore[p.at]
  PROVE  PlaceInv'
BY DEF PlaceInv, StartupInv

LEMMA PlaceInvStep ==
  ASSUME PlaceInv,
         NEW i \in Instances, ProcessStep(i) \/ LatticeTaskGone(i)
  PROVE  PlaceInv'
<1>. StartupInv /\ proc[i] \in Process
  BY DEF PlaceInv, StartupInv
<1>. StartupInv'
  BY StartupInvStep
<1>b. proc[i].running \cup proc[i].ended \subseteq BuiltBefore[proc[i].at]
  BY DEF PlaceInv
<1>0. ASSUME NEW from \in {"off", "bucket", "create"},
             NEW place \in {"bucket", "create", "host", "lattice"},
             Go(i, from, place), UNCHANGED config, bucket' \in BOOLEAN
      PROVE  PlaceInv'
  <2>. DEFINE p == [proc[i] EXCEPT !.at = place]
  <2>1. p.running \cup p.ended = {}
    BY <1>b, <1>0 DEF Go, At, BuiltBefore, Process
  <2>2. proc' = [proc EXCEPT ![i] = p]
    BY <1>0 DEF Go
  <2>. QED  BY <1>0, <2>1, <2>2, OneMoves
<1>1. CASE Start(i) \/ GetBucket(i) \/ GetBucketFails(i) \/ CreateBucket(i)
  BY <1>0, <1>1
     DEF Start, GetBucket, GetBucketFails, CreateBucket, AfterBucket, PlaceInv
<1>2. CASE CreateBucketUnknown(i) \/ Exit(i) \/ Dies(i)
  <2>1. Off.running \cup Off.ended \subseteq BuiltBefore[Off.at]
    BY DEF Off, BuiltBefore
  <2>. QED  BY <1>2, <2>1, OneMoves DEF CreateBucketUnknown, Exit, Dies, PlaceInv
<1>3. ASSUME NEW t \in Tasks, NEW having, At(i, t), Spawn(i, t, having) PROVE PlaceInv'
  <2>. DEFINE p == [proc[i] EXCEPT !.at = After[t], !.load = "no",
                                   !.component = having, !.running = @ \cup {t}]
  <2>1. BuiltBefore[t] \cup {t} \subseteq BuiltBefore[After[t]]
    BY DEF BuiltBefore, After, Tasks, Callouts
  <2>2. /\ p.running = proc[i].running \cup {t}
        /\ p.ended = proc[i].ended
        /\ p.at = After[t]
    BY DEF Process
  <2>3. p.running \cup p.ended \subseteq BuiltBefore[p.at]
    BY <1>b, <1>3, <2>1, <2>2 DEF At
  <2>4. proc' = [proc EXCEPT ![i] = p] /\ UNCHANGED <<config, bucket>>
    BY <1>3 DEF Spawn
  <2>. QED  BY <2>3, <2>4, OneMoves DEF PlaceInv
<1>4. ASSUME NEW t \in Tasks, BuildPlain(i, t) \/ Compile(i, t) PROVE PlaceInv'
  BY <1>3, <1>4 DEF BuildPlain, Compile
<1>5. ASSUME NEW t \in Tasks, NEW from, NEW to, Load(i, t, from, to) PROVE PlaceInv'
  <2>. DEFINE p == [proc[i] EXCEPT !.load = to]
  <2>1. p.running \cup p.ended \subseteq BuiltBefore[p.at]
    BY <1>b DEF Process
  <2>2. proc' = [proc EXCEPT ![i] = p] /\ UNCHANGED <<config, bucket>>
    BY <1>5 DEF Load
  <2>. QED  BY <2>1, <2>2, OneMoves DEF PlaceInv
<1>6. ASSUME NEW t \in Tasks,
             BuildBegin(i, t) \/ OpenObject(i, t) \/ PullImage(i, t) \/ ReadEnds(i, t)
      PROVE  PlaceInv'
  BY <1>5, <1>6 DEF BuildBegin, OpenObject, PullImage, ReadEnds
<1>7. ASSUME NEW t \in Tasks, TaskEnds(i, t) PROVE PlaceInv'
  <2>. DEFINE p == [proc[i] EXCEPT !.running = @ \ {t}, !.ended = @ \cup {t}]
  <2>1. p.running \cup p.ended \subseteq BuiltBefore[p.at]
    BY <1>b, <1>7 DEF TaskEnds, Process
  <2>2. proc' = [proc EXCEPT ![i] = p] /\ UNCHANGED <<config, bucket>>
    BY <1>7 DEF TaskEnds
  <2>. QED  BY <2>1, <2>2, OneMoves DEF PlaceInv
<1>. QED
  BY <1>1, <1>2, <1>4, <1>6, <1>7 DEF ProcessStep, LatticeTaskGone, Proceed, Fetch, Tasks

\* The slots of a function hold finitely many calls, and no more than there are.
SlotInv ==
  /\ slots \in [Instances -> [Functions -> SUBSET Calls]]
  /\ guest \in [Instances -> Calls \cup {Nothing}]
  /\ generated \subseteq Calls
  /\ \A i \in Instances, f \in Functions :
       IsFiniteSet(slots[i][f]) /\ Cardinality(slots[i][f]) <= Slots

LEMMA SlotInvInit == Init => SlotInv
<1>. IsFiniteSet({}) /\ Cardinality({}) = 0
  BY FS_EmptySet
<1>. QED  BY DispatchAssumption DEF Init, SlotInv, Free

\* A step that changes the slots of one function at one instance.
LEMMA OneSlotSet ==
  ASSUME SlotInv, NEW j \in Instances, NEW g \in Functions, NEW C \in SUBSET Calls,
         slots' = [slots EXCEPT ![j][g] = C],
         IsFiniteSet(C), Cardinality(C) <= Slots,
         UNCHANGED <<guest, generated>>
  PROVE  SlotInv'
<1>1. slots' \in [Instances -> [Functions -> SUBSET Calls]]
  BY DEF SlotInv
<1>2. \A i \in Instances, f \in Functions :
        slots'[i][f] = IF i = j /\ f = g THEN C ELSE slots[i][f]
  BY DEF SlotInv
<1>. QED  BY <1>1, <1>2 DEF SlotInv

LEMMA SlotInvStep ==
  ASSUME SlotInv, CallInv, Next
  PROVE  SlotInv'
<1>. USE DispatchAssumption
<1>1. ASSUME NEW i \in Instances, DropCalls(i) PROVE SlotInv'
  <2>1. IsFiniteSet({}) /\ Cardinality({}) = 0
    BY FS_EmptySet
  <2>. QED  BY <1>1, <2>1 DEF DropCalls, Free, SlotInv
<1>2. ASSUME UNCHANGED slots, guest' \in [Instances -> Calls \cup {Nothing}],
             generated' \subseteq Calls
      PROVE  SlotInv'
  BY <1>2 DEF SlotInv
<1>3. ASSUME NEW i \in Instances, NEW f \in Functions, Accept(i, f) PROVE SlotInv'
  <2>. DEFINE C == slots[i][f]
              c == Head(buffer[i][f])
  <2>1. buffer[i][f] \in Seq(Calls) /\ buffer[i][f] # <<>>
    BY <1>3 DEF Accept, CallInv, CallTypes
  <2>2. c \in Calls /\ C \in SUBSET Calls /\ IsFiniteSet(C) /\ Cardinality(C) <= Slots
    BY <2>1 DEF SlotInv
  <2>3. Cardinality(C) \in Nat
    BY <2>2, FS_CardinalityType
  <2>4. Cardinality(C) < Slots
    BY <1>3, <2>3 DEF Accept, Room, Full
  <2>5. IsFiniteSet(C \cup {c}) /\ Cardinality(C \cup {c}) <= Cardinality(C) + 1
    <3>. HIDE DEF C, c
    <3>. QED  BY <2>2, <2>3, FS_AddElement
  <2>6. slots' = [slots EXCEPT ![i][f] = C \cup {c}] /\ UNCHANGED <<guest, generated>>
    BY <1>3 DEF Accept
  <2>7. Cardinality(C \cup {c}) \in Nat
    BY <2>5, FS_CardinalityType
  <2>8. Cardinality(C \cup {c}) <= Slots
    BY <2>3, <2>4, <2>5, <2>7
  <2>. QED  BY <2>2, <2>5, <2>6, <2>8, OneSlotSet
<1>4. ASSUME NEW i \in Instances, NEW c \in Calls, Leave(i, c) PROVE SlotInv'
  <2>. DEFINE f == Function[c]
              C == slots[i][f]
  <2>1. f \in Functions
    BY DEF Functions
  <2>2. C \in SUBSET Calls /\ IsFiniteSet(C) /\ Cardinality(C) <= Slots
    BY <2>1 DEF SlotInv
  <2>3. Cardinality(C) \in Nat
    BY <2>2, FS_CardinalityType
  <2>4. IsFiniteSet(C \ {c}) /\ Cardinality(C \ {c}) <= Cardinality(C)
    <3>. HIDE DEF C, f
    <3>1. /\ IsFiniteSet(C \ {c})
          /\ Cardinality(C \ {c}) = IF c \in C THEN Cardinality(C) - 1 ELSE Cardinality(C)
      BY <2>2, FS_RemoveElement
    <3>. QED  BY <2>3, <3>1
  <2>5. slots' = [slots EXCEPT ![i][f] = C \ {c}] /\ UNCHANGED <<guest, generated>>
    BY <1>4 DEF Leave
  <2>6. Cardinality(C \ {c}) \in Nat
    BY <2>4, FS_CardinalityType
  <2>7. Cardinality(C \ {c}) <= Slots
    BY <2>2, <2>3, <2>4, <2>6
  <2>. QED  BY <2>1, <2>2, <2>4, <2>5, <2>7, OneSlotSet
<1>5. ASSUME NEW i \in Instances, NEW c \in Calls, EnterComponent(i, c) PROVE SlotInv'
  BY <1>2, <1>5 DEF EnterComponent, SlotInv
<1>6. ASSUME NEW i \in Instances, Serve(i) \/ LeaveComponent(i) PROVE SlotInv'
  BY <1>2, <1>6 DEF Serve, LeaveComponent, SlotInv
<1>7. ASSUME NEW c \in Calls, Invoke(c) PROVE SlotInv'
  BY <1>2, <1>7 DEF Invoke, SlotInv
<1>8. ASSUME UNCHANGED dispatchVars PROVE SlotInv'
  BY <1>2, <1>8 DEF dispatchVars, SlotInv
<1>. QED  BY <1>1, <1>3, <1>4, <1>5, <1>6, <1>7, <1>8 DEF Next, Finish, Fails

\* The types, for any number of instances, calls and slots; in particular main
\* never builds a task it has already spawned, and no function has more
\* invocations than slots, whatever ends and starts again.
THEOREM TypeCorrect == Spec => []TypeOK
<1>. DEFINE Inv == PlaceInv /\ CallInv /\ SlotInv
<1>1. Init => Inv
  BY PlaceInvInit, CallInvInit, SlotInvInit DEF Init
<1>2. Inv /\ [Next]_vars => Inv'
  <2>. SUFFICES ASSUME Inv, [Next]_vars PROVE Inv'
    OBVIOUS
  <2>1. PlaceInv'
    <3>1. CASE UNCHANGED startupVars
      BY <3>1 DEF startupVars, PlaceInv, StartupInv, NeverWithoutComponent, Source
    <3>2. CASE \E i \in Instances : ProcessStep(i) \/ LatticeTaskGone(i)
      BY <3>2, PlaceInvStep
    <3>. QED  BY <3>1, <3>2, DispatchLeavesStartup
  <2>2. CASE Next
    BY <2>1, <2>2, CallInvStep, SlotInvStep
  <2>3. CASE UNCHANGED vars
    BY <2>1, <2>3 DEF vars, dispatchVars, SlotInv, CallInv, CallTypes, IdleIsNowhere,
           QueuedIsNew, QueuedOnce, HandledOnce, Queued
  <2>. QED  BY <2>2, <2>3
<1>3. Inv => TypeOK
  BY PlaceTypes DEF CallInv, CallTypes, SlotInv, TypeOK
<1>. QED  BY <1>1, <1>2, <1>3, PTL DEF Spec

-----------------------------------------------------------------------------
(* The instances together implement LatticeCalls. *)

\* A call that waits is queued, being handled, or lost; the slots it is in are
\* those of its function at one instance, and it is in no buffer then.
TrackInv ==
  /\ \A c \in Calls, i \in Instances, f \in Functions : \A k \in Nat :
       Queued(c, i, f, k) =>
         f = Function[c] /\ Waiting(c) /\ \A j \in Instances : c \notin slots[j][f]
  /\ \A c \in Calls, i \in Instances, f \in Functions :
       c \in slots[i][f] => f = Function[c] /\ Waiting(c)
  /\ \A c \in Calls, i, j \in Instances :
       c \in slots[i][Function[c]] /\ c \in slots[j][Function[c]] => i = j

IsQueued(c) == \E i \in Instances : \E k \in Nat : Queued(c, i, Function[c], k)
IsHandled(c) == \E i \in Instances : c \in slots[i][Function[c]]

LEMMA TrackInvInit == Init => TrackInv
BY DEF Init, TrackInv, Queued, Idle, Free, Functions

LEMMA HeldByQueued ==
  ASSUME CallInv, NEW c \in Calls, ~IsHandled(c)
  PROVE  HeldBy(c) # {} <=> IsQueued(c)
<1>1. ASSUME NEW i \in Instances
      PROVE  c \in ToSet(buffer[i][Function[c]]) <=> \E k \in Nat : Queued(c, i, Function[c], k)
  <2>1. buffer[i][Function[c]] \in Seq(Calls)
    BY DEF CallInv, CallTypes, Functions
  <2>2. DOMAIN buffer[i][Function[c]] \subseteq Nat
    BY <2>1
  <2>. QED  BY <2>2 DEF ToSet, Queued
<1>. QED  BY <1>1 DEF HeldBy, IsQueued, IsHandled

\* The states in terms of places.
LEMMA CallStates ==
  ASSUME CallInv, NEW c \in Calls
  PROVE  CallState(c) = IF ~Waiting(c) THEN client[c]
                        ELSE IF IsHandled(c) THEN "handled"
                        ELSE IF IsQueued(c) THEN "queued" ELSE "lost"
BY HeldByQueued DEF CallState, IsHandled

LEMMA CallStatesNext ==
  ASSUME CallInv', NEW c \in Calls
  PROVE  CallState(c)' = IF ~Waiting(c)' THEN client'[c]
                         ELSE IF IsHandled(c)' THEN "handled"
                         ELSE IF IsQueued(c)' THEN "queued" ELSE "lost"
<1>1. ~IsHandled(c)' => (HeldBy(c)' # {} <=> IsQueued(c)')
  <2>1. ASSUME NEW i \in Instances
        PROVE  c \in ToSet(buffer'[i][Function[c]]) <=> \E k \in Nat : Queued(c, i, Function[c], k)'
    <3>1. buffer'[i][Function[c]] \in Seq(Calls)
      BY DEF CallInv, CallTypes, Functions
    <3>2. DOMAIN buffer'[i][Function[c]] \subseteq Nat
      BY <3>1
    <3>. QED  BY <3>2 DEF ToSet, Queued
  <2>. QED  BY <2>1 DEF HeldBy, IsQueued, IsHandled
<1>. QED  BY <1>1 DEF CallState, IsHandled

\* One call goes from one state of the abstract service to another, the others stay.
LEMMA OneCallMoves ==
  ASSUME NEW c \in Calls, NEW from, NEW to, CallState(c) = from, CallState(c)' = to,
         \A d \in Calls \ {c} : CallState(d)' = CallState(d)
  PROVE  ClientCalls!Moves(c, from, to)
BY DEF ClientCalls!Moves

\* What the first call of a buffer, or a new one, leaves where it was.
LEMMA AcceptTracks ==
  ASSUME CallInv, CallInv', TrackInv, SlotInv, NEW j \in Instances, NEW g \in Functions, Accept(j, g)
  PROVE  TrackInv' /\ \E c \in Calls : ClientCalls!Take(c)
<1>1. /\ buffer \in [Instances -> [Functions -> Seq(Calls)]]
      /\ buffer[j][g] \in Seq(Calls) /\ buffer[j][g] # <<>>
      /\ slots \in [Instances -> [Functions -> SUBSET Calls]]
  BY DEF Accept, CallInv, CallTypes, SlotInv
<1>2. PICK c \in Calls : c = Head(buffer[j][g]) /\ Queued(c, j, g, 1)
  BY <1>1 DEF Queued
<1>3. /\ taken' = [taken EXCEPT ![c] = @ + 1]
      /\ buffer' = [buffer EXCEPT ![j][g] = Tail(@)]
      /\ slots' = [slots EXCEPT ![j][g] = @ \cup {c}]
      /\ UNCHANGED <<client, serving>>
  BY <1>2 DEF Accept
<1>4. g = Function[c] /\ Waiting(c) /\ \A i \in Instances : c \notin slots[i][g]
  BY <1>2 DEF TrackInv
<1>5. \A i \in Instances, f \in Functions :
        slots'[i][f] = IF i = j /\ f = g THEN slots[i][f] \cup {c} ELSE slots[i][f]
  BY <1>1, <1>3
<1>6. \A d \in Calls, i \in Instances, f \in Functions : \A k \in Nat :
        /\ Queued(d, i, f, k)' =>
             IF i = j /\ f = g THEN k > 0 /\ Queued(d, i, f, k + 1) ELSE Queued(d, i, f, k)
        /\ Queued(d, i, f, k) /\ d # c =>
             IF i = j /\ f = g THEN k - 1 \in Nat /\ Queued(d, i, f, k - 1)' ELSE Queued(d, i, f, k)'
  <2>. TAKE d \in Calls, i \in Instances, f \in Functions
  <2>1. buffer[i][f] \in Seq(Calls)
    BY <1>1
  <2>2. buffer'[i][f] = IF i = j /\ f = g THEN Tail(buffer[i][f]) ELSE buffer[i][f]
    BY <1>1, <1>3
  <2>3. CASE i = j /\ f = g
    <3>1. ASSUME NEW k \in Nat, Queued(d, i, f, k), d # c
          PROVE  k - 1 \in DOMAIN Tail(buffer[i][f]) /\ Tail(buffer[i][f])[k - 1] = d /\ k - 1 \in Nat
      <4>1. k # 1 /\ k \in 1 .. Len(buffer[i][f])
        BY <1>2, <2>1, <2>3, <3>1 DEF Queued
      <4>. QED  BY <1>1, <2>1, <2>3, <3>1, <4>1 DEF Queued
    <3>. QED  BY <1>1, <2>2, <2>3, <3>1, TailPlaces DEF Queued
  <2>4. CASE ~(i = j /\ f = g)
    BY <2>2, <2>4 DEF Queued
  <2>. QED  BY <2>3, <2>4
<1>7. \A i \in Instances, f \in Functions : \A k \in Nat : ~Queued(c, i, f, k)'
  <2>. SUFFICES ASSUME NEW i \in Instances, NEW f \in Functions, NEW k \in Nat, Queued(c, i, f, k)'
                PROVE  FALSE
    OBVIOUS
  <2>1. CASE i = j /\ f = g
    <3>1. k > 0 /\ Queued(c, j, g, k + 1) /\ k + 1 \in Nat
      BY <1>6, <2>1
    <3>2. k + 1 = 1
      BY <1>2, <3>1 DEF CallInv, QueuedOnce
    <3>. QED  BY <3>1, <3>2
  <2>2. CASE ~(i = j /\ f = g)
    BY <1>2, <1>6, <2>2 DEF CallInv, QueuedOnce
  <2>. QED  BY <2>1, <2>2
<1>8. \A d \in Calls : Waiting(d)' <=> Waiting(d)
  BY <1>3 DEF Waiting
<1>9. \A d \in Calls \ {c}, i \in Instances, f \in Functions : d \in slots'[i][f] <=> d \in slots[i][f]
  BY <1>5
<1>10. \A d \in Calls, i \in Instances, f \in Functions : \A k \in Nat :
         Queued(d, i, f, k)' => d # c /\ \E l \in Nat : Queued(d, i, f, l)
  BY <1>6, <1>7
<1>11. TrackInv'
  <2>1. \A d \in Calls, i \in Instances, f \in Functions : \A k \in Nat :
          Queued(d, i, f, k)' =>
            f = Function[d] /\ Waiting(d)' /\ \A l \in Instances : d \notin slots'[l][f]
    BY <1>8, <1>9, <1>10 DEF TrackInv
  <2>0. \A d \in Calls, i \in Instances, f \in Functions :
          d \in slots'[i][f] =>
            (d # c /\ d \in slots[i][f]) \/ (d = c /\ i = j /\ f = g)
    <3>1. \A i \in Instances, f \in Functions : c \notin slots[i][f]
      BY <1>4 DEF TrackInv
    <3>. QED  BY <1>5, <3>1
  <2>2. \A d \in Calls, i \in Instances, f \in Functions :
          d \in slots'[i][f] => f = Function[d] /\ Waiting(d)'
    BY <1>4, <1>8, <2>0 DEF TrackInv
  <2>4. \A d \in Calls : Function[d] \in Functions
    BY DEF Functions
  <2>3. \A d \in Calls, i, l \in Instances :
          d \in slots'[i][Function[d]] /\ d \in slots'[l][Function[d]] => i = l
    BY <2>0, <2>4 DEF TrackInv
  <2>. QED  BY <2>1, <2>2, <2>3 DEF TrackInv
<1>12. CallState(c) = "queued"
  BY <1>2, <1>4, CallStates DEF IsHandled, IsQueued
<1>13. IsHandled(c)'
  BY <1>4, <1>5 DEF IsHandled
<1>14. CallState(c)' = "handled"
  BY <1>4, <1>8, <1>13, CallStatesNext
<1>15. ASSUME NEW d \in Calls \ {c} PROVE CallState(d)' = CallState(d)
  <2>1. IsHandled(d)' <=> IsHandled(d)
    BY <1>9 DEF IsHandled, Functions
  <2>2. IsQueued(d)' <=> IsQueued(d)
    BY <1>6, <1>10 DEF IsQueued, Functions
  <2>. QED  BY <1>3, <1>8, <2>1, <2>2, CallStates, CallStatesNext
<1>16. ClientCalls!Moves(c, "queued", "handled")
  BY <1>12, <1>14, <1>15, OneCallMoves
<1>17. ClientCalls!Take(c)
  BY <1>3, <1>16 DEF ClientCalls!Take
<1>. QED  BY <1>11, <1>17

LEMMA InvokeTracks ==
  ASSUME CallInv, CallInv', TrackInv, SlotInv, NEW c \in Calls, Invoke(c)
  PROVE  TrackInv' /\ (ClientCalls!Refuse(c) \/ ClientCalls!Queue(c))
<1>1. /\ client[c] = "idle" /\ Function[c] \in Functions /\ UNCHANGED <<taken, slots>>
      /\ client \in [Calls -> {"idle", "waiting", "answered", "refused"}]
  BY DEF Invoke, Functions, CallInv, CallTypes
<1>2. /\ ~Waiting(c) /\ CallState(c) = "idle"
      /\ \A i \in Instances, f \in Functions : c \notin slots[i][f]
      /\ \A i \in Instances, f \in Functions : \A k \in Nat : ~Queued(c, i, f, k)
  BY <1>1 DEF Waiting, CallState, TrackInv
<1>3. CASE UNCHANGED buffer /\ client' = [client EXCEPT ![c] = "refused"]
  <2>1. \A d \in Calls, i \in Instances, f \in Functions : \A k \in Nat :
          Queued(d, i, f, k)' <=> Queued(d, i, f, k)
    BY <1>3 DEF Queued
  <2>2. \A d \in Calls : /\ Waiting(d)' <=> Waiting(d)
                         /\ d # c => client'[d] = client[d]
    BY <1>1, <1>2, <1>3 DEF Waiting
  <2>3. TrackInv'
    BY <1>1, <2>1, <2>2 DEF TrackInv
  <2>4. \A d \in Calls : (IsHandled(d)' <=> IsHandled(d)) /\ (IsQueued(d)' <=> IsQueued(d))
    BY <1>1, <2>1 DEF IsHandled, IsQueued, Functions
  <2>5. \A d \in Calls \ {c} : CallState(d)' = CallState(d)
    BY <2>2, <2>4, CallStates, CallStatesNext
  <2>6. CallState(c)' = "refused"
    BY <1>1, <1>2, <1>3, <2>2, CallStatesNext
  <2>7. ClientCalls!Moves(c, "idle", "refused")
    BY <1>2, <2>5, <2>6, OneCallMoves
  <2>. QED  BY <1>1, <2>3, <2>7 DEF ClientCalls!Refuse
<1>4. CASE Deliver(c) /\ client' = [client EXCEPT ![c] = "waiting"]
  <2>1. PICK j \in serving : Enqueue({j}, c)
    BY <1>4 DEF Deliver
  <2>. DEFINE g == Function[c]
  <2>2. /\ buffer \in [Instances -> [Functions -> Seq(Calls)]]
        /\ j \in Instances
        /\ buffer[j][g] \in Seq(Calls)
    BY <1>1 DEF CallInv, CallTypes
  <2>3. \A i \in Instances, f \in Functions :
          buffer'[i][f] = IF i = j /\ f = g THEN Append(buffer[i][f], c) ELSE buffer[i][f]
    BY <1>1, <2>1, <2>2 DEF Enqueue
  <2>4. \A d \in Calls, i \in Instances, f \in Functions : \A k \in Nat :
          /\ Queued(d, i, f, k)' =>
               Queued(d, i, f, k) \/ (d = c /\ f = g)
          /\ Queued(d, i, f, k) => Queued(d, i, f, k)'
    <3>. TAKE d \in Calls, i \in Instances, f \in Functions
    <3>1. buffer[i][f] \in Seq(Calls)
      BY <2>2
    <3>2. CASE i = j /\ f = g
      <4>1. buffer'[i][f] = Append(buffer[i][f], c)
        BY <2>3, <3>2
      <4>2. \A k \in DOMAIN buffer[i][f] :
              k \in DOMAIN Append(buffer[i][f], c) /\ Append(buffer[i][f], c)[k] = buffer[i][f][k]
        BY <3>1
      <4>. QED  BY <3>1, <3>2, <4>1, <4>2, AppendPlaces DEF Queued
    <3>3. CASE ~(i = j /\ f = g)
      BY <2>3, <3>3 DEF Queued
    <3>. QED  BY <3>2, <3>3
  <2>5. \E k \in Nat : Queued(c, j, g, k)'
    <3>1. /\ Len(buffer[j][g]) + 1 \in Nat
          /\ Len(buffer[j][g]) + 1 \in DOMAIN Append(buffer[j][g], c)
          /\ Append(buffer[j][g], c)[Len(buffer[j][g]) + 1] = c
      BY <2>2
    <3>2. buffer'[j][g] = Append(buffer[j][g], c)
      BY <1>1, <2>2, <2>3
    <3>. QED  BY <3>1, <3>2 DEF Queued
  <2>6. \A d \in Calls : /\ Waiting(d)' <=> Waiting(d) \/ d = c
                         /\ d # c => client'[d] = client[d]
    BY <1>1, <1>4 DEF Waiting
  <2>7. TrackInv'
    <3>1. \A d \in Calls, i \in Instances, f \in Functions : \A k \in Nat :
            Queued(d, i, f, k)' =>
              f = Function[d] /\ Waiting(d)' /\ \A l \in Instances : d \notin slots'[l][f]
      BY <1>1, <1>2, <2>4, <2>6 DEF TrackInv
    <3>. QED  BY <1>1, <2>6, <3>1 DEF TrackInv
  <2>8. \A d \in Calls \ {c} : (IsHandled(d)' <=> IsHandled(d)) /\ (IsQueued(d)' <=> IsQueued(d))
    BY <1>1, <2>4 DEF IsHandled, IsQueued, Functions
  <2>9. \A d \in Calls \ {c} : CallState(d)' = CallState(d)
    BY <2>6, <2>8, CallStates, CallStatesNext
  <2>10. ~IsHandled(c)' /\ IsQueued(c)' /\ Waiting(c)'
    BY <1>1, <1>2, <2>2, <2>5, <2>6 DEF IsHandled, IsQueued
  <2>11. CallState(c)' = "queued"
    BY <2>10, CallStatesNext
  <2>12. ClientCalls!Moves(c, "idle", "queued")
    BY <1>2, <2>9, <2>11, OneCallMoves
  <2>. QED  BY <1>1, <2>7, <2>12 DEF ClientCalls!Queue
<1>. QED  BY <1>3, <1>4 DEF Invoke

\* A handler is done with call c: the call is nowhere, the others stay where they are.
LEMMA LeaveTracks ==
  ASSUME CallInv, CallInv', TrackInv, SlotInv, NEW j \in Instances, NEW c \in Calls, Leave(j, c),
         client' \in {client, [client EXCEPT ![c] = "answered"]}
  PROVE  /\ TrackInv' /\ UNCHANGED taken
         /\ CallState(c) = "handled"
         /\ CallState(c)' = IF client' = client THEN "lost" ELSE "answered"
         /\ \A d \in Calls \ {c} : CallState(d)' = CallState(d)
<1>. DEFINE g == Function[c]
<1>1. /\ c \in slots[j][g] /\ g \in Functions /\ UNCHANGED <<taken, buffer>>
      /\ slots \in [Instances -> [Functions -> SUBSET Calls]]
      /\ slots' = [slots EXCEPT ![j][g] = @ \ {c}]
      /\ client \in [Calls -> {"idle", "waiting", "answered", "refused"}]
  BY DEF Leave, Functions, SlotInv, CallInv, CallTypes
<1>2. \A i \in Instances, f \in Functions :
        slots'[i][f] = IF i = j /\ f = g THEN slots[i][f] \ {c} ELSE slots[i][f]
  BY <1>1
<1>3. \A d \in Calls, i \in Instances, f \in Functions : \A k \in Nat :
        Queued(d, i, f, k)' <=> Queued(d, i, f, k)
  BY <1>1 DEF Queued
<1>4. Waiting(c) /\ \A i \in Instances, f \in Functions : c \in slots[i][f] => i = j /\ f = g
  BY <1>1 DEF TrackInv
<1>5. \A i \in Instances, f \in Functions : \A k \in Nat : ~Queued(c, i, f, k)
  BY <1>1 DEF TrackInv
<1>6. \A d \in Calls \ {c} : (Waiting(d)' <=> Waiting(d)) /\ client'[d] = client[d]
  BY <1>1 DEF Waiting
<1>7. \A i \in Instances, f \in Functions : c \notin slots'[i][f]
  BY <1>2, <1>4
<1>8. TrackInv'
  <2>0. \A d \in Calls, i \in Instances, f \in Functions :
          d \in slots'[i][f] => d # c /\ d \in slots[i][f]
    BY <1>2, <1>7
  <2>1. \A d \in Calls, i \in Instances, f \in Functions : \A k \in Nat :
          Queued(d, i, f, k)' =>
            f = Function[d] /\ Waiting(d)' /\ \A l \in Instances : d \notin slots'[l][f]
    BY <1>3, <1>5, <1>6, <2>0 DEF TrackInv
  <2>2. \A d \in Calls, i \in Instances, f \in Functions :
          d \in slots'[i][f] => f = Function[d] /\ Waiting(d)'
    BY <1>6, <2>0 DEF TrackInv
  <2>4. \A d \in Calls : Function[d] \in Functions
    BY DEF Functions
  <2>3. \A d \in Calls, i, l \in Instances :
          d \in slots'[i][Function[d]] /\ d \in slots'[l][Function[d]] => i = l
    BY <2>0, <2>4 DEF TrackInv
  <2>. QED  BY <2>1, <2>2, <2>3 DEF TrackInv
<1>9. CallState(c) = "handled"
  BY <1>1, <1>4, CallStates DEF IsHandled
<1>10. CallState(c)' = IF client' = client THEN "lost" ELSE "answered"
  <2>1. CASE client' = client
    <3>1. Waiting(c)' /\ ~IsHandled(c)' /\ ~IsQueued(c)'
      BY <1>1, <1>3, <1>4, <1>5, <1>7, <2>1 DEF Waiting, IsHandled, IsQueued
    <3>. QED  BY <2>1, <3>1, CallStatesNext
  <2>2. CASE client' # client
    <3>1. client'[c] = "answered"
      BY <1>1, <2>2
    <3>. QED  BY <2>2, <3>1, CallStatesNext DEF Waiting
  <2>. QED  BY <2>1, <2>2
<1>11. ASSUME NEW d \in Calls \ {c} PROVE CallState(d)' = CallState(d)
  <2>1. (IsHandled(d)' <=> IsHandled(d)) /\ (IsQueued(d)' <=> IsQueued(d))
    BY <1>2, <1>3 DEF IsHandled, IsQueued, Functions
  <2>. QED  BY <1>6, <2>1, CallStates, CallStatesNext
<1>. QED  BY <1>1, <1>8, <1>9, <1>10, <1>11

LEMMA FinishTracks ==
  ASSUME CallInv, CallInv', TrackInv, SlotInv, NEW j \in Instances, NEW c \in Calls, Finish(j, c)
  PROVE  TrackInv' /\ ClientCalls!Answer(c)
<1>1. /\ Leave(j, c) /\ c \in slots[j][Function[c]] /\ Function[c] \in Functions
      /\ client' = [client EXCEPT ![c] = "answered"]
      /\ client \in [Calls -> {"idle", "waiting", "answered", "refused"}]
  BY DEF Finish, Leave, Functions, CallInv, CallTypes
<1>2. client[c] = "waiting"
  BY <1>1 DEF TrackInv, Waiting
<1>3. client' # client
  BY <1>1, <1>2
<1>4. /\ TrackInv' /\ UNCHANGED taken
      /\ CallState(c) = "handled" /\ CallState(c)' = "answered"
      /\ \A d \in Calls \ {c} : CallState(d)' = CallState(d)
  BY <1>1, <1>3, LeaveTracks
<1>5. ClientCalls!Moves(c, "handled", "answered")
  BY <1>4, OneCallMoves
<1>. QED  BY <1>4, <1>5 DEF ClientCalls!Answer

\* Its client waits on for a call whose handler failed: the call is lost.
LEMMA FailsTracks ==
  ASSUME CallInv, CallInv', TrackInv, SlotInv, NEW j \in Instances, NEW c \in Calls, Fails(j, c)
  PROVE  TrackInv' /\ ClientCalls!Lose
<1>1. /\ TrackInv' /\ UNCHANGED taken
      /\ CallState(c) = "handled" /\ CallState(c)' = "lost"
      /\ \A d \in Calls \ {c} : CallState(d)' = CallState(d)
  BY LeaveTracks DEF Fails
<1>2. {c} \in SUBSET {d \in Calls : [e \in Calls |-> CallState(e)][d] \in {"queued", "handled"}}
  BY <1>1
<1>3. [d \in Calls |-> CallState(d)]' =
        [d \in Calls |-> IF d \in {c} THEN "lost" ELSE [e \in Calls |-> CallState(e)][d]]
  BY <1>1
<1>. QED  BY <1>1, <1>2, <1>3 DEF ClientCalls!Lose

LEMMA DropTracks ==
  ASSUME CallInv, CallInv', TrackInv, SlotInv, NEW j \in Instances, DropCalls(j)
  PROVE  TrackInv' /\ ClientCalls!Lose
<1>1. /\ buffer \in [Instances -> [Functions -> Seq(Calls)]]
      /\ slots \in [Instances -> [Functions -> SUBSET Calls]]
      /\ buffer' = [buffer EXCEPT ![j] = Idle] /\ slots' = [slots EXCEPT ![j] = Free]
      /\ UNCHANGED <<client, taken>>
  BY DEF DropCalls, CallInv, CallTypes, SlotInv
<1>2. \A i \in Instances, f \in Functions :
        slots'[i][f] = IF i = j THEN {} ELSE slots[i][f]
  BY <1>1 DEF Free
<1>3. \A d \in Calls, i \in Instances, f \in Functions : \A k \in Nat :
        Queued(d, i, f, k)' <=> i # j /\ Queued(d, i, f, k)
  BY <1>1 DEF Queued, Idle
<1>4. \A d \in Calls : Waiting(d)' <=> Waiting(d)
  BY <1>1 DEF Waiting
<1>5. TrackInv'
  <2>1. \A d \in Calls, i \in Instances, f \in Functions : \A k \in Nat :
          Queued(d, i, f, k)' =>
            f = Function[d] /\ Waiting(d)' /\ \A l \in Instances : d \notin slots'[l][f]
    BY <1>2, <1>3, <1>4 DEF TrackInv
  <2>2. \A d \in Calls, i \in Instances, f \in Functions :
          d \in slots'[i][f] => f = Function[d] /\ Waiting(d)'
    BY <1>2, <1>4 DEF TrackInv
  <2>3. \A d \in Calls, i, l \in Instances :
          d \in slots'[i][Function[d]] /\ d \in slots'[l][Function[d]] => i = l
    BY <1>2 DEF TrackInv, Functions
  <2>. QED  BY <2>1, <2>2, <2>3 DEF TrackInv
<1>. DEFINE gone == {c \in Calls : CallState(c)' # CallState(c)}
<1>6. ASSUME NEW d \in gone PROVE CallState(d) \in {"queued", "handled"} /\ CallState(d)' = "lost"
  <2>1. Waiting(d) /\ Waiting(d)'
    BY <1>1, <1>4, CallStates, CallStatesNext
  <2>2. CASE IsHandled(d)
    <3>1. PICK i \in Instances : d \in slots[i][Function[d]]
      BY <2>2 DEF IsHandled
    <3>2. CallState(d) = "handled" /\ ~IsHandled(d)'
      BY <2>1, <2>2, CallStates, CallStatesNext
    <3>3. i = j
      BY <1>2, <3>1, <3>2 DEF IsHandled, Functions
    <3>4. \A l \in Instances : \A k \in Nat : ~Queued(d, l, Function[d], k)
      BY <3>1 DEF TrackInv, Functions
    <3>5. ~IsQueued(d)'
      BY <1>3, <3>4 DEF IsQueued, Functions
    <3>. QED  BY <2>1, <3>2, <3>5, CallStatesNext
  <2>3. CASE ~IsHandled(d)
    <3>1. ~IsHandled(d)'
      BY <1>2, <2>3 DEF IsHandled, Functions
    <3>2. IsQueued(d)' => IsQueued(d)
      BY <1>3 DEF IsQueued, Functions
    <3>. QED  BY <2>1, <2>3, <3>1, <3>2, CallStates, CallStatesNext
  <2>. QED  BY <2>2, <2>3
<1>7. gone \in SUBSET {c \in Calls : [d \in Calls |-> CallState(d)][c] \in {"queued", "handled"}}
  BY <1>6
<1>8. [c \in Calls |-> CallState(c)]' =
        [c \in Calls |-> IF c \in gone THEN "lost" ELSE [d \in Calls |-> CallState(d)][c]]
  BY <1>6
<1>. HIDE DEF gone
<1>. QED  BY <1>1, <1>5, <1>7, <1>8 DEF ClientCalls!Lose

\* Nothing happens to any call.
LEMMA CallsStay ==
  ASSUME CallInv, CallInv', TrackInv, UNCHANGED <<buffer, slots, client, taken>>
  PROVE  TrackInv' /\ UNCHANGED ClientCalls!callVars
<1>1. \A c \in Calls, i \in Instances, f \in Functions : \A k \in Nat :
        Queued(c, i, f, k)' <=> Queued(c, i, f, k)
  BY DEF Queued
<1>2. \A c \in Calls : /\ Waiting(c)' <=> Waiting(c)
                       /\ IsHandled(c)' <=> IsHandled(c)
                       /\ IsQueued(c)' <=> IsQueued(c)
  BY <1>1 DEF Waiting, IsHandled, IsQueued, Functions
<1>3. TrackInv'
  BY <1>1, <1>2 DEF TrackInv
<1>4. \A c \in Calls : CallState(c)' = CallState(c)
  BY <1>2, CallStates, CallStatesNext
<1>. QED  BY <1>3, <1>4 DEF ClientCalls!callVars

\* However many instances share the queue group, and whenever they end and start
\* again, a call is taken up at most once, only what is being handled is answered,
\* and what an instance lost is not taken up by another.
THEOREM CallsCorrect == Spec => FollowsCalls
<1>. DEFINE Inv == CallInv /\ SlotInv /\ TrackInv
<1>1. Init => Inv
  BY CallInvInit, SlotInvInit, TrackInvInit
<1>2. Inv /\ [Next]_vars => Inv' /\ [ClientCalls!Next]_(ClientCalls!callVars)
  <2>. SUFFICES ASSUME Inv, [Next]_vars PROVE Inv' /\ [ClientCalls!Next]_(ClientCalls!callVars)
    OBVIOUS
  <2>1. CASE UNCHANGED vars
    <3>1. CallInv' /\ SlotInv'
      BY <2>1 DEF vars, dispatchVars, SlotInv, CallInv, CallTypes, IdleIsNowhere,
             QueuedIsNew, QueuedOnce, HandledOnce, Queued
    <3>. QED  BY <2>1, <3>1, CallsStay DEF vars, dispatchVars
  <2>2. CASE Next
    <3>1. CallInv' /\ SlotInv'
      BY <2>2, CallInvStep, SlotInvStep
    <3>2. ASSUME NEW i \in Instances, DropCalls(i) PROVE TrackInv' /\ ClientCalls!Next
      BY <3>1, <3>2, DropTracks DEF ClientCalls!Next
    <3>3. ASSUME NEW i \in Instances, NEW f \in Functions, Accept(i, f)
          PROVE  TrackInv' /\ ClientCalls!Next
      BY <3>1, <3>3, AcceptTracks DEF ClientCalls!Next
    <3>4. ASSUME NEW i \in Instances, NEW c \in Calls, Finish(i, c)
          PROVE  TrackInv' /\ ClientCalls!Next
      BY <3>1, <3>4, FinishTracks DEF ClientCalls!Next
    <3>7. ASSUME NEW i \in Instances, NEW c \in Calls, Fails(i, c)
          PROVE  TrackInv' /\ ClientCalls!Next
      BY <3>1, <3>7, FailsTracks DEF ClientCalls!Next
    <3>5. ASSUME NEW c \in Calls, Invoke(c) PROVE TrackInv' /\ ClientCalls!Next
      BY <3>1, <3>5, InvokeTracks DEF ClientCalls!Next
    <3>6. ASSUME UNCHANGED <<buffer, slots, client, taken>>
          PROVE  TrackInv' /\ UNCHANGED ClientCalls!callVars
      BY <3>1, <3>6, CallsStay
    <3>. QED
      BY <2>2, <3>1, <3>2, <3>3, <3>4, <3>5, <3>6, <3>7
         DEF Next, Serve, LeaveComponent, EnterComponent, dispatchVars
  <2>. QED  BY <2>1, <2>2
<1>3. Init => ClientCalls!Init
  BY DEF Init, ClientCalls!Init, CallState, Waiting
<1>. QED  BY <1>1, <1>2, <1>3, PTL DEF Spec, FollowsCalls, ClientCalls!Spec

=============================================================================
