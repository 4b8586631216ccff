-------------------------- MODULE LatticeDispatch --------------------------
(***************************************************************************)
(* run of src/src/lattice_wrpc.rs, in every instance that Startup starts:  *)
(* the service subscribes to its functions in the queue group "lattices"   *)
(* and polls, in one task, up to sixteen invocations of each function.     *)
(*                                                                         *)
(* NATS is external: a call goes to one subscriber of the group, waits in  *)
(* the buffer of its subscription, and is lost with it.  The clients are   *)
(* those of lattice-ctl: one call each, one answer.                        *)
(*                                                                         *)
(* All invocations of an instance are polled by the one task, the          *)
(* generator component included: while it computes, nothing else of the    *)
(* task moves.                                                             *)
(***************************************************************************)
EXTENDS Startup, Sequences, Integers, SequencesExt

CONSTANTS
  Calls,      \* the invocations clients make
  Function,   \* Function[c]: the function call c invokes
  Slots,      \* invocations of one function polled at once (16 in the code)
  Nothing

Functions == {Function[c] : c \in Calls}

ASSUME DispatchAssumption ==
  /\ Function \in [Calls -> {"add", "update", "delete", "get", "list", "watch"}]
  /\ Slots \in Nat \ {0}
  /\ Nothing \notin Calls

VARIABLES
  serving,    \* the instances whose run has subscribed
  buffer,     \* buffer[i][f]: calls received and not yet accepted
  slots,      \* slots[i][f]: calls being polled
  guest,      \* guest[i]: the call whose component is computing
  generated,  \* the calls whose component has been called
  client,     \* client[c]: the client's side of the call
  taken       \* history: taken[c] is how often c was accepted

dispatchVars == <<serving, buffer, slots, guest, generated, client, taken>>
vars == <<startupVars, dispatchVars>>

Idle == [f \in Functions |-> <<>>]
Free == [f \in Functions |-> {}]

Init ==
  /\ StartupInit
  /\ serving = {}
  /\ buffer = [i \in Instances |-> Idle]
  /\ slots = [i \in Instances |-> Free]
  /\ guest = [i \in Instances |-> Nothing]
  /\ generated = {}
  /\ client = [c \in Calls |-> "idle"]
  /\ taken = [c \in Calls |-> 0]

-----------------------------------------------------------------------------
\* serve: one subscription per function.
Serve(i) ==
  /\ "lattice" \in proc[i].running
  /\ i \notin serving
  /\ serving' = serving \cup {i}
  /\ UNCHANGED <<startupVars, buffer, slots, guest, generated, client, taken>>

Enqueue(group, c) ==
  buffer' = [i \in Instances |->
    IF i \in group THEN [buffer[i] EXCEPT ![Function[c]] = Append(@, c)] ELSE buffer[i]]

\* Variant: the subscriptions are not in a queue group.
Deliver_NoGroup(c) == Enqueue(serving, c)

\* The queue group: one of the subscribers gets the message.
Deliver(c) == \E i \in serving : Enqueue({i}, c)

\* A client calls; without a subscriber the server tells it so.
Invoke(c) ==
  /\ client[c] = "idle"
  /\ \/ Deliver(c) /\ client' = [client EXCEPT ![c] = "waiting"]
     \/ serving = {} /\ client' = [client EXCEPT ![c] = "refused"] /\ UNCHANGED buffer
  /\ UNCHANGED <<startupVars, serving, slots, guest, generated, taken>>

\* The task of instance i can be polled.
Awake(i) == guest[i] = Nothing

Full(i, f) == Cardinality(slots[i][f]) >= Slots

\* Variant: one buffer of invocations for all functions.
Room_OneBuffer(i, f) == Cardinality(UNION {slots[i][g] : g \in Functions}) < Slots

\* Variant: one invocation too many.
Room_OffByOne(i, f) == Cardinality(slots[i][f]) <= Slots

\* try_buffer_unordered takes another invocation of the function.
Room(i, f) == ~Full(i, f)

Accept(i, f) ==
  /\ Awake(i)
  /\ buffer[i][f] # <<>>
  /\ Room(i, f)
  /\ LET c == Head(buffer[i][f]) IN
       /\ slots' = [slots EXCEPT ![i][f] = @ \cup {c}]
       /\ taken' = [taken EXCEPT ![c] = @ + 1]
  /\ buffer' = [buffer EXCEPT ![i][f] = Tail(@)]
  /\ UNCHANGED <<startupVars, serving, guest, generated, client>>

\* An add gets to its component, which starts to compute.
EnterComponent(i, c) ==
  /\ Awake(i)
  /\ Function[c] = "add"
  /\ c \in slots[i]["add"] \ generated
  /\ "lattice" \in proc[i].component
  /\ guest' = [guest EXCEPT ![i] = c]
  /\ generated' = generated \cup {c}
  /\ UNCHANGED <<startupVars, serving, buffer, slots, client, taken>>

\* It returns, or calls the host and lets the task go on.
LeaveComponent(i) ==
  /\ guest[i] # Nothing
  /\ guest' = [guest EXCEPT ![i] = Nothing]
  /\ UNCHANGED <<startupVars, serving, buffer, slots, generated, client, taken>>

Leave(i, c) ==
  /\ Awake(i)
  /\ c \in slots[i][Function[c]]
  /\ slots' = [slots EXCEPT ![i][Function[c]] = @ \ {c}]
  /\ UNCHANGED <<startupVars, serving, buffer, guest, generated, taken>>

\* The handler returns and its answer is sent; for a watch, the stream has
\* ended or its client is gone.
Finish(i, c) == Leave(i, c) /\ client' = [client EXCEPT ![c] = "answered"]

\* The handler returns an Err, or its answer cannot be sent: run only warns.
Fails(i, c) == Leave(i, c) /\ UNCHANGED client

\* The lattice task is gone, its subscriptions and invocations with it.
DropCalls(i) ==
  /\ serving' = serving \ {i}
  /\ buffer' = [buffer EXCEPT ![i] = Idle]
  /\ slots' = [slots EXCEPT ![i] = Free]
  /\ guest' = [guest EXCEPT ![i] = Nothing]
  /\ UNCHANGED <<generated, client, taken>>

\* The process goes on, without or with its lattice task.
ProcessStep(i) ==
  \/ Start(i) \/ Proceed(i) \/ Fetch(i)
  \/ \E t \in Callouts : TaskEnds(i, t)

LatticeTaskGone(i) == TaskEnds(i, "lattice") \/ Exit(i) \/ Dies(i)

Next ==
  \/ \E i \in Instances :
       \/ ProcessStep(i) /\ UNCHANGED dispatchVars
       \/ LatticeTaskGone(i) /\ DropCalls(i)
       \/ Serve(i) \/ LeaveComponent(i)
       \/ \E f \in Functions : Accept(i, f)
       \/ \E c \in Calls : EnterComponent(i, c) \/ Finish(i, c) \/ Fails(i, c)
  \/ \E c \in Calls : Invoke(c)

Spec == Init /\ [][Next]_vars

\* Handlers end because what they await has time limits (EveryCallEnds of
\* LatticeService); a watch need not end, and the component need not return.
FairSpec ==
  /\ Spec
  /\ StartupFairness
  /\ \A i \in Instances :
       /\ WF_vars(Serve(i))
       /\ \A f \in Functions : WF_vars(Accept(i, f))
       /\ \A c \in {d \in Calls : Function[d] # "watch"} : WF_vars(Finish(i, c) \/ Fails(i, c))

-----------------------------------------------------------------------------
\* The types; no function has more than its slots.
TypeOK ==
  /\ StartupTypeOK
  /\ serving \subseteq Instances
  /\ buffer \in [Instances -> [Functions -> Seq(Calls)]]
  /\ slots \in [Instances -> [Functions -> SUBSET Calls]]
  /\ guest \in [Instances -> Calls \cup {Nothing}]
  /\ generated \subseteq Calls
  /\ client \in [Calls -> {"idle", "waiting", "answered", "refused"}]
  /\ taken \in [Calls -> Nat]
  /\ \A i \in Instances : \A f \in Functions : Cardinality(slots[i][f]) <= Slots

\* Adding instances does not repeat calls: each one is handled at most once,
\* also when the instance that had it dies.
HandledOnce == \A c \in Calls : taken[c] <= 1

Waiting(c) == client[c] = "waiting"
HeldBy(c) ==
  {i \in Instances : c \in ToSet(buffer[i][Function[c]]) \cup slots[i][Function[c]]}

\* What has become of call c.
CallState(c) ==
  IF ~Waiting(c) THEN client[c]
  ELSE IF \E i \in Instances : c \in slots[i][Function[c]] THEN "handled"
  ELSE IF HeldBy(c) # {} THEN "queued"
  ELSE "lost"

ClientCalls == INSTANCE LatticeCalls WITH call <- [c \in Calls |-> CallState(c)]

\* The instances together, their queue group, buffers and slots, are one service
\* that takes up every call at most once and answers only what it handles; what an
\* instance had when it died does not come back with another.
FollowsCalls == ClientCalls!Spec

\* The call is with an instance, and either its component computes or the slots
\* of this very function are taken by others.
Blocked(c) ==
  \E i \in HeldBy(c) :
    ~Awake(i) \/ (Full(i, Function[c]) /\ c \notin slots[i][Function[c]])

\* A call other than a watch is answered unless the instance that had it is
\* gone or its handler failed; watches that hold all their slots for ever do not
\* keep it waiting, and nothing else does but calls of its own function or a
\* component that computes.
AnsweredUnlessBlocked ==
  \A c \in {d \in Calls : Function[d] # "watch"} :
    \/ Waiting(c) ~> ~Waiting(c) \/ HeldBy(c) = {}
    \/ <>[]Blocked(c)

=============================================================================
