----------------------------- MODULE WorkQueue -----------------------------
(***************************************************************************)
(* The work-queue worker, src/src/worker.rs: every message the consumer    *)
(* delivers is handled by a task of its own, beside which a second task    *)
(* tells the server every three seconds that the work is in progress.      *)
(*                                                                         *)
(* The server side of the consumer is external and modelled from the       *)
(* configuration the code gives it: it delivers a message, waits for an    *)
(* acknowledgement, delivers it again when its ack wait elapses, and gives *)
(* it up after max_deliver deliveries.  The consumer has a name and is not *)
(* durable: all instances share it, and it is gone when none is there.     *)
(*                                                                         *)
(* The handler itself is still to be written; it takes the subject apart   *)
(* and acknowledges.                                                       *)
(***************************************************************************)
EXTENDS FiniteSets, Integers

CONSTANTS
  Instances,    \* the processes with a worker
  Messages,     \* the messages of the stream
  Short,        \* those whose subject names an entity and no action
  MaxDeliver,   \* deliveries of a message (10 in the code)
  MaxFaults,    \* bound: crashes and outages
  Nothing

ASSUME WorkQueueAssumption ==
  /\ Short \subseteq Messages
  /\ MaxDeliver \in Nat \ {0}
  /\ MaxFaults \in Nat
  /\ Nothing \notin Instances

Deliveries == 1..MaxDeliver

VARIABLES
  up,          \* the instances whose worker runs
  state,       \* state[m]: the message as the consumer has it
  deliveries,  \* deliveries[m]: how often the consumer delivered it
  handler,     \* handler[m][d]: the instance handling delivery d
  progress,    \* progress[m][d]: the instance acknowledging progress for it
  faults,      \* crashes and outages so far
  disturbed,   \* history: the messages whose instance crashed or was cut off
  unconfirmed  \* history: the messages whose last acknowledgement failed

vars == <<up, state, deliveries, handler, progress, faults, disturbed, unconfirmed>>
taskVars == <<handler, progress>>
historyVars == <<faults, disturbed, unconfirmed>>

NoTasks == [m \in Messages |-> [d \in Deliveries |-> Nothing]]

Init ==
  /\ up = {}
  /\ state = [m \in Messages |-> "ready"]
  /\ deliveries = [m \in Messages |-> 0]
  /\ handler = NoTasks
  /\ progress = NoTasks
  /\ faults = 0
  /\ disturbed = {}
  /\ unconfirmed = {}

-----------------------------------------------------------------------------
\* Worker::new creates the consumer or finds it, and run asks for messages.
Start(i) ==
  /\ i \notin up
  /\ up' = up \cup {i}
  /\ UNCHANGED <<state, deliveries, taskVars, historyVars>>

\* Variant: nothing acknowledges progress.
SpawnHandler_NoProgress(i, m, d) ==
  /\ handler' = [handler EXCEPT ![m][d] = i]
  /\ UNCHANGED progress

\* handle_message runs, and has spawned the progress task.
SpawnHandler(i, m, d) ==
  /\ handler' = [handler EXCEPT ![m][d] = i]
  /\ progress' = [progress EXCEPT ![m][d] = i]

\* The loop of run: a message arrives.  An error in its place is skipped.
Receive(i, m) ==
  /\ i \in up
  /\ state[m] = "ready"
  /\ state' = [state EXCEPT ![m] = "pending"]
  /\ deliveries' = [deliveries EXCEPT ![m] = @ + 1]
  /\ SpawnHandler(i, m, deliveries[m] + 1)
  /\ UNCHANGED <<up, historyVars>>

\* The select ends with the handler, and drops the handle of the progress task,
\* which goes on for as long as its process.
HandlerReturns(m, d) ==
  /\ handler[m][d] # Nothing
  /\ handler' = [handler EXCEPT ![m][d] = Nothing]
  /\ UNCHANGED <<up, deliveries, progress, faults, disturbed>>

\* Variant: the handler returns before it acknowledges.
Acked_Never(m, d) ==
  /\ HandlerReturns(m, d)
  /\ UNCHANGED <<state, unconfirmed>>

\* command_parts[1] is out of bounds: the task panics, the progress task does not.
HandlerPanics(m, d) ==
  /\ m \in Short
  /\ HandlerReturns(m, d)
  /\ UNCHANGED <<state, unconfirmed>>

\* double_ack is confirmed.  The server takes it for whichever delivery.
Acked(m, d) ==
  /\ m \notin Short
  /\ HandlerReturns(m, d)
  /\ state' = [state EXCEPT ![m] = "acked"]
  /\ UNCHANGED unconfirmed

\* double_ack fails, before or after the server has heard of it.
AckFails(m, d) ==
  /\ m \notin Short
  /\ HandlerReturns(m, d)
  /\ state' \in {state, [state EXCEPT ![m] = "acked"]}
  /\ unconfirmed' = unconfirmed \cup {m}

-----------------------------------------------------------------------------
InProgress(m) == \E d \in Deliveries : progress[m][d] # Nothing

\* Variant: one delivery more than the configuration allows.
AckWaitElapses_OffByOne(m) ==
  /\ state[m] = "pending"
  /\ state' = [state EXCEPT ![m] = IF deliveries[m] <= MaxDeliver THEN "ready" ELSE "spent"]
  /\ UNCHANGED <<up, deliveries, taskVars, unconfirmed>>

\* The server hears of a message for its whole ack wait neither an ack nor
\* progress: it delivers it again, or gives it up.
AckWaitElapses(m) ==
  /\ state[m] = "pending"
  /\ state' = [state EXCEPT ![m] = IF deliveries[m] < MaxDeliver THEN "ready" ELSE "spent"]
  /\ UNCHANGED <<up, deliveries, taskVars, unconfirmed>>

Expire(m) ==
  /\ ~InProgress(m)
  /\ AckWaitElapses(m)
  /\ UNCHANGED <<faults, disturbed>>

\* Progress is acknowledged and does not get through.
Outage(m) ==
  /\ faults < MaxFaults
  /\ InProgress(m)
  /\ AckWaitElapses(m)
  /\ faults' = faults + 1
  /\ disturbed' = disturbed \cup {m}

Without(i, tasks) ==
  [m \in Messages |-> [d \in Deliveries |->
    IF tasks[m][d] = i THEN Nothing ELSE tasks[m][d]]]

\* An instance goes away with its tasks, the last one with the consumer: the
\* next one starts with what is left in the stream.
Crash(i) ==
  /\ i \in up
  /\ faults < MaxFaults
  /\ faults' = faults + 1
  /\ up' = up \ {i}
  /\ handler' = Without(i, handler)
  /\ progress' = Without(i, progress)
  /\ disturbed' = disturbed \cup {m \in Messages : \E d \in Deliveries : progress[m][d] = i}
  /\ \/ up = {i}
        /\ deliveries' = [m \in Messages |-> 0]
        /\ state' = [m \in Messages |-> IF state[m] = "acked" THEN "acked" ELSE "ready"]
     \/ UNCHANGED <<state, deliveries>>
  /\ UNCHANGED unconfirmed

HandlerEnds(m) ==
  \E d \in Deliveries : HandlerPanics(m, d) \/ Acked(m, d) \/ AckFails(m, d)

Next ==
  \/ \E i \in Instances : Start(i) \/ Crash(i) \/ \E m \in Messages : Receive(i, m)
  \/ \E m \in Messages : HandlerEnds(m) \/ Expire(m) \/ Outage(m)

Spec == Init /\ [][Next]_vars

\* Workers are started again, run and the handlers are scheduled, double_ack has
\* a time limit, and the server's clock goes on.
FairSpec ==
  /\ Spec
  /\ \A i \in Instances : WF_vars(Start(i))
  /\ \A m \in Messages :
       /\ WF_vars(\E i \in Instances : Receive(i, m))
       /\ WF_vars(HandlerEnds(m))
       /\ WF_vars(Expire(m))

-----------------------------------------------------------------------------
\* The types; the tasks belong to instances that run.
TypeOK ==
  /\ up \subseteq Instances
  /\ state \in [Messages -> {"ready", "pending", "acked", "spent"}]
  /\ deliveries \in [Messages -> 0..MaxDeliver]
  /\ handler \in [Messages -> [Deliveries -> up \cup {Nothing}]]
  /\ progress \in [Messages -> [Deliveries -> up \cup {Nothing}]]
  /\ faults \in 0..MaxFaults
  /\ disturbed \subseteq Messages
  /\ unconfirmed \subseteq Messages

\* Two handlers never work on one message at a time, unless the server was cut
\* off from the instance that had it.
OneHandler ==
  \A m \in Messages \ disturbed :
    Cardinality({d \in Deliveries : handler[m][d] # Nothing}) <= 1

\* A message is delivered again only after a crash or an outage: not because it
\* takes long to handle, and not even when its handler failed.
RedeliveryHasCause == \A m \in Messages : deliveries[m] > 1 => m \in disturbed

\* The message waits for an acknowledgement that nobody will send, and its
\* progress task keeps the server from delivering it again.
Stuck(m) ==
  /\ state[m] = "pending"
  /\ m \in unconfirmed \cup Short
  /\ InProgress(m)
  /\ \A d \in Deliveries : handler[m][d] = Nothing

\* Every delivered message ends up acknowledged or given up, or its handler
\* panicked or could not acknowledge it, and the progress task that outlives the
\* handler keeps it from being delivered again.
MessagesSettle ==
  \A m \in Messages :
    (state[m] = "pending" ~> state[m] \in {"acked", "spent"}) \/ <>[]Stuck(m)

=============================================================================
