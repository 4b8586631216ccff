------------------------------ MODULE Startup ------------------------------
(***************************************************************************)
(* The start of the control plane, src/src/main.rs: main connects to NATS, *)
(* gets or creates the bucket of the lattices, builds the two auth         *)
(* callouts and the lattice service one after the other, spawns each as    *)
(* soon as it is built, and then waits for the first task to end.          *)
(*                                                                         *)
(* Several instances run this against one cluster, from one configuration. *)
(* Every await on the way may fail; main unwraps its error and the process *)
(* is gone, which Dies stands for, together with a crash or a kill.        *)
(***************************************************************************)
EXTENDS FiniteSets

CONSTANTS
  Instances,   \* the processes
  Configs      \* the configurations to be considered

Callouts == {"host", "user"}
Tasks == Callouts \cup {"lattice"}

\* The sections of the file that decide what is started: authorization, and
\* where the component of each task is loaded from.
Config == [authorization: BOOLEAN, component: [Tasks -> {"none", "nats", "oci"}]]

\* The callouts' components are named in the authorization section.
ASSUME ConfigsAssumption ==
  /\ Configs \subseteq Config
  /\ \A c \in Configs : ~c.authorization => \A t \in Callouts : c.component[t] = "none"

VARIABLES
  config,   \* the configuration the instances read
  bucket,   \* does WASMCLOUD_LATTICES exist?
  proc      \* proc[i]: the state of instance i

startupVars == <<config, bucket, proc>>

\* A process: where main is, how far it is with the component of the task it is
\* building, which tasks have their component, which run, and which have ended
\* without main having noticed.
Process ==
  [at: {"off", "bucket", "create", "join"} \cup Tasks,
   load: {"no", "open", "read", "pull", "compile"},
   component: SUBSET Tasks, running: SUBSET Tasks, ended: SUBSET Tasks]

Off == [at |-> "off", load |-> "no", component |-> {}, running |-> {}, ended |-> {}]

StartupInit ==
  /\ config \in Configs
  /\ bucket = FALSE
  /\ proc = [i \in Instances |-> Off]

-----------------------------------------------------------------------------
At(i, place) == proc[i].at = place

Go(i, from, to) ==
  /\ At(i, from)
  /\ proc' = [proc EXCEPT ![i].at = to]

\* The arguments, the configuration, the connections and the engine.
Start(i) ==
  /\ Go(i, "off", "bucket")
  /\ UNCHANGED <<config, bucket>>

AfterBucket == IF config.authorization THEN "host" ELSE "lattice"

\* get_key_value finds the bucket.
GetBucket(i) ==
  /\ Go(i, "bucket", AfterBucket)
  /\ bucket
  /\ UNCHANGED <<config, bucket>>

\* It fails with GetBucket, for want of a bucket or because the request failed.
GetBucketFails(i) ==
  /\ Go(i, "bucket", "create")
  /\ UNCHANGED <<config, bucket>>

\* Variant: the bucket is looked for again after it was created.
CreateBucket_LooksAgain(i) ==
  /\ Go(i, "create", "bucket")
  /\ bucket' = TRUE
  /\ UNCHANGED config

\* create_key_value succeeds when another instance created it meanwhile.
CreateBucket(i) ==
  /\ Go(i, "create", AfterBucket)
  /\ bucket' = TRUE
  /\ UNCHANGED config

\* The bucket is created and the answer lost: the `?` and then main's unwrap.
CreateBucketUnknown(i) ==
  /\ At(i, "create")
  /\ bucket' = TRUE
  /\ proc' = [proc EXCEPT ![i] = Off]
  /\ UNCHANGED config

-----------------------------------------------------------------------------
\* new_from_config and LatticeWrpcApi::new have the same shape; At(i, t) is
\* main awaiting the one that builds task t.
Source(t) == config.component[t]

\* The key of the account key store is read from its file on the way to the
\* lattice service.
After == [host |-> "user", user |-> "lattice", lattice |-> "join"]

\* The task is built, with the components in `having`, and spawned.
Spawn(i, t, having) ==
  /\ proc' = [proc EXCEPT ![i] =
       [proc[i] EXCEPT !.at = After[t], !.load = "no",
                       !.component = having, !.running = @ \cup {t}]]
  /\ UNCHANGED <<config, bucket>>

Load(i, t, from, to) ==
  /\ At(i, t)
  /\ proc[i].load = from
  /\ Source(t) # "none"
  /\ proc' = [proc EXCEPT ![i].load = to]
  /\ UNCHANGED <<config, bucket>>

\* No component is configured: the field stays None.
BuildPlain(i, t) ==
  /\ At(i, t)
  /\ Source(t) = "none"
  /\ Spawn(i, t, proc[i].component)

\* The callout's keys and its own connection come before its component, and
\* before BuildPlain.
BuildBegin(i, t) == Load(i, t, "no", IF Source(t) = "oci" THEN "pull" ELSE "open")

\* An object store and the object in it.
OpenObject(i, t) == Load(i, t, "open", "read")

\* A read gives no more bytes.  One that gives some, or fails, leads to the
\* next: the loop has no other exit, and nothing makes a read that fails
\* succeed later.
ReadEnds(i, t) == Load(i, t, "read", "compile")

\* The image is pulled in one call.  The client is the default one, which sets no
\* limit: a registry that does not answer keeps the pull waiting.
PullImage(i, t) == Load(i, t, "pull", "compile")

\* Variant: a component that fails to compile or to link is left out.
Compile_IgnoresError(i, t) ==
  /\ At(i, t)
  /\ proc[i].load = "compile"
  /\ \/ Spawn(i, t, proc[i].component \cup {t})
     \/ Spawn(i, t, proc[i].component)

Compile(i, t) ==
  /\ At(i, t)
  /\ proc[i].load = "compile"
  /\ Spawn(i, t, proc[i].component \cup {t})

-----------------------------------------------------------------------------
\* A task returns or panics.  While main is still building the next one, nobody
\* looks.
TaskEnds(i, t) ==
  /\ t \in proc[i].running
  /\ proc' = [proc EXCEPT ![i] =
       [proc[i] EXCEPT !.running = @ \ {t}, !.ended = @ \cup {t}]]
  /\ UNCHANGED <<config, bucket>>

\* Variant: main waits for all tasks to end.
Exit_WaitsForAll(i) ==
  /\ At(i, "join")
  /\ proc[i].running = {}
  /\ proc' = [proc EXCEPT ![i] = Off]
  /\ UNCHANGED <<config, bucket>>

\* join_next answers with the first task that ended: process::exit.
Exit(i) ==
  /\ At(i, "join")
  /\ proc[i].ended # {}
  /\ proc' = [proc EXCEPT ![i] = Off]
  /\ UNCHANGED <<config, bucket>>

Dies(i) ==
  /\ ~At(i, "off")
  /\ proc' = [proc EXCEPT ![i] = Off]
  /\ UNCHANGED <<config, bucket>>

\* main's own steps on the way to join_next.
Proceed(i) ==
  \/ GetBucket(i) \/ GetBucketFails(i)
  \/ CreateBucket(i) \/ CreateBucketUnknown(i)
  \/ BuildPlain(i, "lattice") \/ BuildBegin(i, "lattice")
  \/ \E t \in Tasks : OpenObject(i, t) \/ Compile(i, t)

\* What may keep main waiting: a callout's connection, whose server need not greet
\* it, and the bytes of a component.
Fetch(i) ==
  \/ \E t \in Callouts : BuildPlain(i, t) \/ BuildBegin(i, t)
  \/ \E t \in Tasks : ReadEnds(i, t) \/ PullImage(i, t)

\* A step of Proceed ends: a request to NATS has a time limit, after which main
\* goes on or dies, and the rest is local.  A JoinSet hears of its tasks.  Fetch
\* need not end.
StartupFairness ==
  \A i \in Instances : WF_startupVars(Proceed(i)) /\ WF_startupVars(Exit(i))

-----------------------------------------------------------------------------
\* The types; a task that is being built is neither running nor ended.
StartupTypeOK ==
  /\ config \in Configs
  /\ bucket \in BOOLEAN
  /\ proc \in [Instances -> Process]
  /\ \A i \in Instances : proc[i].at \notin proc[i].running \cup proc[i].ended

\* No task of a configured component ever runs without it.  (A callout without
\* its authorizer would allow every request.)
NeverWithoutComponent ==
  \A i \in Instances : \A t \in proc[i].running :
    Source(t) # "none" => t \in proc[i].component

FetchesForever(i) ==
  <>[](\/ proc[i].load \in {"read", "pull"}
       \/ proc[i].at \in Callouts /\ proc[i].load = "no")

\* Every start comes to an end, up or down, or waits for ever for a callout's
\* connection or a component: no race for the bucket leaves an instance looking
\* for it.
StartsOrStops ==
  \A i \in Instances : []<>(proc[i].at \in {"join", "off"}) \/ FetchesForever(i)

\* When one task has ended, its process goes down, the other tasks with it,
\* unless it is still starting and waits for ever for the connection or the
\* component of a later task.
EndedTaskStops ==
  \A i \in Instances : (proc[i].ended # {} ~> At(i, "off")) \/ FetchesForever(i)

=============================================================================
