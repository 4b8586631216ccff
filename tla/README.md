# Verification of the wasmCloud control plane

TLA+ models of the control plane in `src/`, TLC configurations that check them
on small instances, and TLAPS proofs of the properties that hold for every
instance. Paths below are relative to the repository root; the service's crate
is `src/src/`.

## 1. The system

The control plane is one Rust process that talks to a NATS cluster. `main`
starts up to three tasks (two auth callouts and the lattice service) in a
`JoinSet` and exits when any of them ends. Nothing is kept in memory between
calls: lattices live in the JetStream key-value bucket `WASMCLOUD_LATTICES`, the seeds of
NATS accounts in the bucket `WASMCLOUD_ACCOUNT_KEYS`. Several instances may run;
they share the wRPC queue group `lattices` and those two buckets.

| Component | Code | State | Operations | Talks to |
| --- | --- | --- | --- | --- |
| Lattice service | `lattice_wrpc.rs` | bucket `WASMCLOUD_LATTICES`; the locals of each running handler | add, update, delete, get, list, watch | the buckets, wadm (`model.list`), the generator component |
| Watch task | `lattice_wrpc.rs:553` | merged watch streams, a channel of 16 | poll, send, end | the bucket, the caller's result stream |
| Dispatch | `lattice_wrpc.rs:250` | 16 running invocations per function | accept, run, finish | wRPC |
| Auth callout (host, user) | `auth.rs` | issuer keys (read only), the request in hand | take a request, ask the component, sign, respond | NATS servers, the authorizer component |
| Authorizer component | `components/authorizer` | none | authorized | called by the auth callout |
| Lattice generator and its host functions | `components/lattice-generator`, `vm.rs` | the keys it draws, the claims it builds | create (update and delete are no-ops) | the key store, `$SYS.REQ.CLAIMS.UPDATE` |
| Account key store | `secrets.rs` | bucket `WASMCLOUD_ACCOUNT_KEYS`, seeds sealed with an xkey | get, set | JetStream |
| `lattice-ctl` | `bin/lattice-ctl` | none | bootstrap, add, get, delete, watch | the key store, the lattice service |
| Work-queue worker | `worker.rs` | a pull consumer, one task per message and one for its progress acks | receive, handle, ack | JetStream (not started by `main` yet) |
| Startup | `main.rs`, `config.rs` | the set of tasks | connect, spawn, exit | all of the above |
| Hierarchy bootstrap | `tools/bootstrap-hierarchy` | files of keys and JWTs | create accounts, sign, write | the file system, nsc |

Where the difficulty lies:

* **Concurrent calls on one record.** Handlers of the lattice service read,
  await and write. Only the last write of an add is conditional (`update` with a
  revision); every other write is a blind `put` or `delete`.
* **Failures in the middle.** Every await can fail before or after it had its
  effect, the generator component can fail or never return, and an instance can
  die; nothing resumes a half-finished call.
* **Streams.** A watch merges ordered streams into a bounded channel, and ends
  where an item does not decode.
* **One request at a time.** An auth callout handles its requests in sequence,
  so anything one request waits for delays all others.
* **Several instances.** They start, serve, die and start again beside each
  other; each polls all its invocations in one task, on which the component
  computes too.
* **Tasks nobody owns.** The watch task and the worker's progress task are
  spawned and left alone; they end by themselves or not at all.
* **Two systems to keep consistent.** The generator pushes an account to the
  cluster, then the service stores the lattice.

What correctness means, per component:

* Lattice service: a lattice is not stored before its buckets exist; an answer
  describes something that was stored; a finishing add destroys nobody else's
  write; phases do not get stuck without a cause; versions identify contents.
* Watch: in order, without gaps that matter, and it does not end by itself.
* Reads: a list names what was there all the time; a get of several lattices never
  shows an effect without its cause.
* Startup and dispatch: nothing runs without the component it was configured
  with; a start ends; an ended task takes its process down; a call is handled
  at most once and answered unless its instance is gone or blocked.
* Work queue: one handler per message, no redelivery without a cause, every
  message settles.
* Auth callout: a user JWT only for a request that was allowed; exactly one
  answer; every request handled.
* Generator and key store: a Created lattice has its account pushed and its
  listed keys can sign; seeds are not lost by concurrent bootstraps.
* Hierarchy bootstrap: a run that succeeds leaves files that verify together,
  whatever earlier runs left.

`PROJECT.json` lists the hazards of the code line by line with the properties
that cover them.

## 2. Plan

Done in this order; all of it is here.

1. `LatticeBucket`, `LatticeService`, `LatticeLifecycle` - the concurrent calls
   on the lattice records, and what they amount to. Proofs.
2. `LatticeWatch` - streams of lattices (also on `LatticeBucket`).
3. `AuthCallout` - the request loop.
4. `SecretStore`, `LatticeGenerator` - provisioning (the second on the first).
5. `BootstrapHierarchy` - who signs whom, the order in which files are written,
   runs that fail and are repeated.
6. `Startup` - several instances start: the bucket, the components, the tasks of
   `main`, exit.
7. `LatticeReads` - get of several names and list, beside the calls of
   `LatticeService` (composed with it).
8. `LatticeDispatch` - the queue group and the slots per function, in the
   instances that `Startup` starts (composed with it), and `LatticeCalls`, what
   they amount to for a call.
9. `WorkQueue` - redelivery, the ack timer, and the progress task that outlives
   its message.

Every component also has its proofs (section 5), in one module per component:
of every invariant and every step property a run checks, of both refinements,
and of how the calls that read and those that write compose.

Left to do: that the bucket `LatticeService` writes is an environment
`LatticeWatch` allows, so that its theorems hold of watches beside the service's own
calls; and the safety halves of `MessagesSettle` and `AnsweredUnlessBlocked`, as
`QuietIsUpToDate` is for `CatchesUp`.

## 3. The modules

Each model keeps the control flow of the code - one action per await, with the
guard, the early returns and the order of the effects - and abstracts the data
to what the properties distinguish. The map in `PROJECT.json` gives the lines
behind each definition.

Definitions marked `Variant` directly before a definition are slightly broken
forms of it (a dropped guard, a swallowed error). They are not part of the
specifications; substituting one for the definition that follows must make TLC
report the property that it is paired with in `PROJECT.json`. They show that the
properties can fail.

### LatticeBucket

The bucket `WASMCLOUD_LATTICES` (external; modelled from the calls). Per name the last
message only, because the bucket is created with the default history of 1. A
delete is a message too, and takes a revision; `get` answers None both for a
marker and for a key never written; a conditional update compares with the
revision of the last message, marker or not.

### LatticeService

`Ops` are the calls, each made once; `pc[o]` is the await call `o` is at,
`lat[o]` and `rev[o]` are the handler's locals `lattice` and `revision`.

| Handler | Actions (await) |
| --- | --- |
| `add_lattice` | `AddRejected`, `AddBegin`, `AddCreateData`, `AddCreateConfig`, `AddPut`, `AddComponent`, `AddFinish` or `AddConflict` |
| `update_lattice` | `UpdateRejected`, `UpdateBegin`, `UpdateRead`, `UpdateRewrite` |
| `delete_lattice` | `DeleteBegin`, `DeleteFind`, `DeleteCheckApps`, `DeleteMark`, `DeleteRemove` |
| any | `CallFails` (the operation fails without effect, the component errs), the "failed" alternative of every write (it took effect, the acknowledgement was lost), `Crash` (an instance dies with any of the running calls) |

Abstractions. A fresh ULID or UUID is the call that draws it. A field's value is
the call that gave it, `Nothing` if it is None (for `deletable`, false). Names,
labels and annotations are data nobody computes with. On its way to the component and back a lattice
is copied field by field (`ToGenerator`, `FromGenerator`: `bindings.rs`); without
a component it makes the same way, which `CopiesAreFaithful` shows to change
nothing, and the step is left out. `get_key_value` reads only
the stream's configuration and is folded into the operation that follows. The
generator component appears as what it changes in the record; its inside is
`LatticeGenerator`. `written[n]`, every record ever stored under `n`, is a
history variable; no guard reads it. wadm is external: `apps` changes at will.

### LatticeLifecycle

The abstract specification: per name, whole operations in one step -
`Provision`, `Finish`, `Rewrite`, `MarkDeleting`, `Remove`. It is weaker than the
interface reads, since `Rewrite` and `MarkDeleting` may start from any past
record (the blind puts), and it says what is left: a record enters only with a
new uid; provisioning finishes in place, with the same version, and only the
component's fields may differ; a rewrite takes a version the lattice never had;
nothing else changes a record. `LatticeService` implements it under the mapping
"record of a name = value of its key if its last message is a put".

### LatticeReads

`get_lattices` (`GetBegin`, `GetNext` per name, `GetMissing`, `GetEnds`) and
`list_lattices` (`ListBegin`, `ListNext` per message), each await an action,
interleaved with every step of `LatticeService`. `log`, a history variable,
holds every message of the bucket by its revision, so that an answer can be
compared with what was true while the call ran; an answer of a get is
represented by the revisions it shows. `keys()` is external: an ordered consumer
of the last message of each key, deletions included, that ends when nothing is
pending. The bucket has one replica, so a get is never stale. A key that is
written again during a list is listed twice. `health_check` is a constant answer
and has no action.

### LatticeWatch

`watch_lattices` and the task it spawns: `ServerSends` (external: the stream
delivers, per stream in revision order, what has not been overwritten),
`PollLattice`/`PollMarker` (the task takes an item; a delete marker has an empty
value, `unpack` fails and the task returns), `Send` (waits for room),
`SendClosed` (the receiver is gone: the task ends, and only here does it notice),
`NothingToWatch`, `Receive` and `Hangup` (the client). An error
item of a stream is skipped by the code (`continue`), a step that changes
nothing.

### AuthCallout

One auth callout; the host callout and the user callout are two copies of it.
`component` records whether an authorizer was loaded at the start. A request is
its envelope (no headers, no xkey, sealed, bad xkey, unopenable) and its body (a
JWT, other text, not UTF-8): the distinctions `handle_message` makes. `Take*`
are its exits before the component is asked, `Component*` the component's
outcomes, `Sign` and `Respond*` the rest. `TakeBinary` and `RespondPanics` are
the `unwrap`s that panic the task, after which `main` exits (`pc = "dead"`):
any response may fail to encode (`auth.rs:408`), whatever its envelope.
`SilenceHasCause` names the only causes of a request without an answer and of
the end of the loop.
A header that is no xkey ends the handler before `respond` can meet it, so its
`unwrap` there is unreachable and has no action.

### SecretStore and LatticeGenerator

`SecretStore`: the two seeds that matter (operator signing key, system account),
each represented by the xkey it is sealed with; `lattice-ctl bootstrap` looks and
stores, seed by seed, and a failing `set` panics. `get` failing for any reason
counts as missing, as in the code. `LatticeGenerator`: `create` with its four
reads of the store (`store::get` reads the secret and throws it away, `reveal`
reads it again), the claims and the listed keys, the push, and the end of
`add_lattice`. `HasSysClient` depends on the instance that runs the creation. The
cluster (external) may refuse a JWT and still reply. The component's checks of
its two arguments have no action: `LatticeWrpcApi::new` loads the component only
from a configuration that has both.

### BootstrapHierarchy

The tool runs to the end or fails at any file; `pos` is the file it writes next
and `disk[f]` the run that wrote `f` (0 if it is missing, empty or torn: to a reader
they are the same). `os.WriteFile` empties a file that exists (`TruncateFile`)
before it fills it (`WriteFile`), and a reader may come between. The content of a file follows from its run: `AccountJwt`,
`UserJwt`, `Operator` and `Resolver` give its claims - subject, issuer, the keys
that may sign for it and their scopes, activation tokens, callout. `Files` is the
order of the writes, put together from the `writeToDir` methods. Names of
subjects, permissions and limits are left out. `lattice-ctl bootstrap` reads two
key files at any time; what it does with them is `SecretStore`.

### Startup

`main` of every instance, await by await: `GetBucket`, `GetBucketFails`,
`CreateBucket` (it succeeds if another instance was faster), `CreateBucketUnknown`
(the answer is lost and `unwrap` panics), then the host callout, the user
callout and the lattice service, each built (`BuildPlain`, or `BuildBegin`,
`OpenObject` or `PullImage`, `ReadEnds`, `Compile`) and spawned, and `Exit` when
`join_next` hears of the first task to end. `Dies` is every `unwrap` on the way, a
crash and a kill. A configuration is what decides which of these happen. The
functions of the callouts and of the lattice service have the same shape and
share their actions. `Fetch` is what need not end: a read of the object store
that fails is tried again for ever (`ReadEnds`), the client that pulls an image
sets no time limit (`PullImage`), and a server that took a callout's own
connection may never greet it (`BuildPlain` and `BuildBegin` of a callout).

### LatticeDispatch

`run` in every instance of `Startup`: `Serve` subscribes in the queue group,
`Invoke` is a client of `lattice-ctl` whose message NATS gives to one subscriber
(`Deliver`) or refuses, `Accept` takes it into one of the slots of its function,
`Finish` answers; `Fails` is a handler that returns an error, or whose answer
cannot be sent: `run` logs it and the client hears nothing. `guest[i]` is the call whose component computes: the task that
polls all invocations of the instance is then not polled itself (`Awake`). When
the lattice task ends, in whatever way, its buffers and slots go with it
(`DropCalls`). What the handlers do to the bucket is `LatticeService` and
`LatticeReads`; a watch is an invocation that need not finish.

### LatticeCalls

The abstract specification of the service as its clients see it, with one record
per call and no instances: a call is refused or queued, taken up at most once,
and answered only by what took it up; any number of calls may be lost together
(an instance is gone, or a handler failed), and a lost call stays lost. `LatticeDispatch` implements
it under `CallState`: a call is "handled" if it is in the slots of some instance,
"queued" if it is in a buffer, and "lost" if its client waits and it is in
neither.

### WorkQueue

`Worker` and its `MessageHandler`: `Receive` spawns a task per delivery, which
spawns a second one that acknowledges progress every three seconds
(`SpawnHandler`). `HandlerReturns` ends the first only: dropping the handle in the
`select!` does not stop the second (`worker.rs:91`). A message whose subject has
one part (`Short`) panics the handler at `worker.rs:101`. The consumer is
external: `Expire` when neither ack nor progress was heard for the ack wait,
`Outage` when progress was sent and did not arrive, delivery up to `MaxDeliver`
times; `Crash` of the last instance removes the consumer, which is not durable,
and with it its counts. Time is not modelled: while progress acks arrive, the
ack wait does not elapse.

### Modules for TLC

`MCLatticeService`, `MCLatticeReads`, `MCLatticeWatch`, `MCAuthCallout`,
`MCLatticeGenerator` and `MCLatticeDispatch` define the request sets, shapes and
functions the configurations name; `BootstrapHierarchy` and `WorkQueue` need none.

## 4. What TLC checks

| Run | Instance | Properties | Result |
| --- | --- | --- | --- |
| `service_races` | one name, three calls out of seven requests, a component | `TypeOK`, `AuxBeforeRecord`, `VersionIdentifiesData`, `AckedWasStored`, `OnlyRewritesResurrect`, `ProvisioningHasCause`, `DeletingHasCause`, `FinishReplacesOwnRecord`, `FollowsLifecycle` | hold |
| `service_names` | two names, two writing calls out of seven requests, no component, one get or list, fair | `GetIsCausal`, `ListIsAccurate`, `EveryCallEnds` | hold |
| `watch_order` | two names, one watch (everything, a list, a list that names one twice, an empty list), four writes, channel of 2, fair | `TypeOK`, `InOrder`, `EndsOnlyAtDeletion`, `QuietIsUpToDate`, `CatchesUp`, `HungUpTaskEnds` | hold |
| `auth_answers` | three requests of eight shapes, with and without a component, fair | `TypeOK`, `AllowedOnlyByVerdict`, `OneAnswer`, `SilenceHasCause`, `EveryRequestHandled` | hold |
| `generator` | two creations, one on an instance without a SYS connection, three bootstraps, two xkeys | `TypeOK`, `BootstrapLeavesSecrets`, `OrphanHasCause`, `ScopeKeysSign` | hold |
| `hierarchy` | three runs of the tool, 34 files, one `lattice-ctl` | `TypeOK`, `DoneVerifies`, `CtlReadsForward` | hold |
| `instances` | two instances, two configurations (a lattice component to pull; two callouts, the second with a component to pull), two adds and a watch, one slot per function, fair | `TypeOK`, `NeverWithoutComponent`, `FollowsCalls`, `StartsOrStops`, `EndedTaskStops`, `AnsweredUnlessBlocked` | hold |
| `work_queue` | two workers, two messages of which one panics the handler, three deliveries, three faults, fair | `TypeOK`, `OneHandler`, `RedeliveryHasCause`, `MessagesSettle` | hold |
| `delete_other_lattice` | one name, three calls | `DeleteTouchesItsLattice` | violated |
| `lost_update` | one name, an add and two updates with a mask each, no component | `UpdateKeepsOtherFields` | violated |
| `watch_ends_at_delete` | two names, one watch of everything | `LatestUpdateForEveryKey` | violated |
| `auth_guest_hangs` | two requests, a component that may not return | `EveryRequestHandled` | violated |

**Why the bounds are enough.** Every race the service can have on a record is
between a reader that writes later and one writer in between; with three calls a
run has an add that stores the record, such a reader and such a writer, each
with its failures and crashes. Calls of different names share nothing but the
revision counter; two names suffice to notice a mix-up. A watch with a channel
of 2 and four writes fills the channel, lets the task wait with an item in its
hands and overwrites a message that was not sent. Three auth requests give one
in hand and a queue of two. Three bootstraps have two of the same xkey and a
third of another. Three runs of the hierarchy tool let a file on disk be of the
current run, of the one before or of one that failed still earlier. One slot
per function is full with one call, so two adds make one wait and the watch
holds the only slot of its function; two instances race for the bucket, share
the calls, and one dies while the other lives. Three deliveries and three faults
use up the deliveries of a message, also across a restart of the consumer; the
messages share nothing else. Revisions are bounded by the number of calls in the service
and by `MaxSeq` in `LatticeWatch`; no other counter grows.

**Stronger and weaker.** Two invariants are stated and proved but have no run,
because a property of a run implies them: `CreatedWasPushed` follows from
`ScopeKeysSign`, and `HandledOnce` from `FollowsCalls`, in which a call can be
taken up only while it is queued and never becomes so again.
`QuietIsUpToDate` is the safety half of `CatchesUp`: nothing is lost between
bucket and client, whether or not anybody makes progress.

**A lattice named twice.** `watch_lattices` makes one stream per name of the
request, so that a list that names a lattice twice gets it from two streams,
which the merge may interleave: the client can see an older state after a newer
one. `InOrder` therefore speaks of names that are in one stream only (`Alone`).

**Symmetry.** The calls of `service_races` are interchangeable before they begin
and its temporal properties are step properties. Runs with liveness use none.

**Deadlock.** The service's runs check it: wadm can always change something, so
this says little there, and `EveryCallEnds` is what shows that no call hangs.
The other runs end where the bounded inputs are used up (or the process is dead)
and say `CHECK_DEADLOCK FALSE`.

**Fairness.** Each assumption is weak fairness of steps the code's own runtime
takes. *Service*: every remote operation a handler awaits has a client-side
timeout, so the handler's step is taken or fails; the component's is not fair,
for its only time limit is an epoch deadline and nothing increments the engine's
epoch. A call inside the component is therefore excluded from `EveryCallEnds`.
*Watch*: the runtime schedules the task, the server keeps sending, and the
client in `Readers` keeps reading; nobody has to write, watch or hang up.
*Instances*: a start's requests to NATS have a time limit and the rest of its steps
is local; what has none - a read of an object, the pull of an image, a callout's own
connection - is in `Fetch`, which is not fair, and an instance need not start at
all. Subscribing, accepting and handlers other than watches go on while their task
is polled, and the component need not return. *Work queue*: workers are started again, handlers are scheduled,
`double_ack` has a time limit, and the server's clock goes on.
*Auth*: the loop is polled and a publish completes or fails; `auth_answers` adds
that the component returns, `auth_guest_hangs` drops exactly that.

### What the violated runs show

Each checks a statement the repository makes of itself.

* `delete_other_lattice`: the uid is there "to distinguish between objects with
  the same name that may have existed in different points in time"
  (`src/wit/lattice.wit:28`); a delete writes and removes by name and hits the
  lattice that was added under the name after it looked.
* `lost_update`: the mask names the fields to update (`src/wit/lattice.wit:73`); an
  update puts back every field it read. Two updates read one lattice, the first
  stores the field of its mask and is acknowledged, the second stores its own field
  and takes the first one's back. (The run has no component. With one, the same put
  of an update that read a lattice still being provisioned reverts `account` and
  `signing_keys`, which the add's component set.)
* `watch_ends_at_delete`: "we get the latest update for every key"
  (`lattice_wrpc.rs:233`); a delete marker, even one from before the watch began,
  ends the stream without an error.
* `auth_guest_hangs`: the one-second limit of the component never applies
  (`auth.rs:195`, `auth.rs:213`), and one call that does not return stops the
  service for everybody.

What passing runs had to allow is just as telling: `StartsOrStops` and
`EndedTaskStops` except a component that is read for ever (`auth.rs:152`,
`lattice_wrpc.rs:136`) or pulled for ever (`auth.rs:174`, `lattice_wrpc.rs:158`) and
a callout's connection that is never greeted (`auth.rs:107`) - until then `main` is
not at `join_next` and a callout that ended goes unnoticed; `AnsweredUnlessBlocked` a
component that computes for ever and blocks every call of its instance, and a handler
that failed, after which no answer comes, and `MessagesSettle` a message behind a
progress task that nobody stops.

Seen while modelling and without a run, since a property would only repeat a
line of the code:

* `src/wit/lattice.wit:14` says `deletable` "needs to be true in order to delete the
  lattice"; `delete_lattice` (`lattice_wrpc.rs:503`) does not look at it.
* A reply to `$SYS.REQ.CLAIMS.UPDATE` that refuses the JWT is taken for success
  (`vm.rs:148`), and the lattice is Created, although `update` returns a result
  (`src/wit/lattice.wit:201`).

* A lattice lists the signing keys "associated with the NATS account"
  (`src/wit/lattice.wit:7`), but the unscoped signing key it lists
  (`lattice-generator/src/lib.rs:254`) is not in the account's JWT, which names
  the account's own key in its place (`:133`). `ScopeKeysSign` is therefore about
  the two other keys.
* The imports prepared at `lattice-generator/src/lib.rs:174` are never put into
  the claims: the loop at 233 sets tokens on moved copies.
* The seeds in the component's response are dropped at `lattice_wrpc.rs:357`.
* The hierarchy tool exports the events as a stream and imports them as a service
  (`bootstrap.go:307`, `:465`), and the watch of lattices the other way round
  (`:349`, `:497`).

## 5. What is proved

Every theorem holds for all values of the constants that satisfy the module's
assumptions, and TLC evaluates the assumptions in the runs.

| Module | Theorem | Says |
| --- | --- | --- |
| `LatticeServiceProofs` | `TypeCorrect` | `Spec => []TypeOK` |
| | `AuxCorrect` | `Spec => []AuxBeforeRecord` |
| | `AnswersCorrect` | `Spec => []AckedWasStored` |
| | `VersionsCorrect` | `Spec => []VersionIdentifiesData` |
| | `FinishCorrect` | `Spec => FinishReplacesOwnRecord` |
| | `LifecycleCorrect` | `Spec => FollowsLifecycle` |
| | `ResurrectCorrect` | `Spec => []OnlyRewritesResurrect` |
| | `ProvisioningCorrect` | `Spec => []ProvisioningHasCause` |
| | `DeletingCorrect` | `Spec => []DeletingHasCause` |
| `LatticeDispatchProofs` | `ComponentsCorrect` | `Spec => []NeverWithoutComponent` |
| | `OnceCorrect` | `Spec => []HandledOnce` |
| | `TypeCorrect` | `Spec => []TypeOK` |
| | `CallsCorrect` | `Spec => FollowsCalls` |
| `LatticeReadsProofs` | `GetCorrect` | `ReadsSpec => []GetIsCausal` |
| | `ListCorrect` | `ReadsSpec => ListIsAccurate` |
| | `ReadsWriteNothing` | `ReadsSpec => Spec` (of `LatticeService`) |
| | `LifecycleWithReads` | `ReadsSpec => FollowsLifecycle` |
| `LatticeWatchProofs` | `TypeCorrect` | `Spec => []TypeOK` |
| | `OrderCorrect` | `Spec => []InOrder` |
| | `EndsCorrect` | `Spec => []EndsOnlyAtDeletion` |
| | `NothingLost` | `Spec => []QuietIsUpToDate` |
| `LatticeGeneratorProofs` | `TypeCorrect` | `Spec => []TypeOK` |
| | `PushedCorrect` | `Spec => []CreatedWasPushed` |
| | `OrphanCorrect` | `Spec => []OrphanHasCause` |
| | `ScopeKeysCorrect` | `Spec => []ScopeKeysSign` |
| | `SecretsCorrect` | `Spec => []BootstrapLeavesSecrets` |
| `AuthCalloutProofs` | `TypeCorrect` | `Spec => []TypeOK` |
| | `AllowedCorrect` | `Spec => []AllowedOnlyByVerdict` |
| | `OneAnswerCorrect` | `Spec => []OneAnswer` |
| | `SilenceCorrect` | `Spec => []SilenceHasCause` |
| `WorkQueueProofs` | `RedeliveryCorrect` | `Spec => []RedeliveryHasCause` |
| | `OneHandlerCorrect` | `Spec => []OneHandler` |
| | `TypeCorrect` | `Spec => []TypeOK` |
| `BootstrapHierarchyProofs` | `TypeCorrect` | `Spec => []TypeOK` |
| | `DoneCorrect` | `Spec => []DoneVerifies` |
| | `CtlCorrect` | `Spec => []CtlReadsForward` |

### LatticeServiceProofs

For every set of names, calls, requests and client versions, with or without a
component. It assumes `NothingIsNoName`, `NothingIsNoLattice`,
`DistinctAssumption` (None and the empty name are no names, versions, requests
or lattices, and a client does not guess a ULID not yet drawn),
`RequestsAssumption` (requests have the shape the interface gives them) and
`HasComponentAssumption`.

No property but the types is inductive. The argument goes through `IInv`, a
conjunction whose parts build on each other, each proved with one step per
action:

* `TypeInv`: types, and that a call at a given await has a request of its kind
  and, from the assignment on, a lattice in hand. Without it the later parts
  could not speak of `lat[o].uid`.
* `StoredInv`: what is in the bucket was put there, and what a reading call holds
  was stored - the reason why a rewrite does not invent records.
* `AuxInv`: the auxiliary buckets exist once an add has passed their await.
* `OwnInv`: what an add between its put and its last write knows - revisions never
  exceed the counter, so that an unchanged revision means an untouched record.
  It gives `FinishReplacesOwnRecord`.
* `VersionInv`: a version that is a call's own is found only on records made by
  that call or derived from one without touching description and `deletable`.

Lemmas about the data it rests on: `CopiesAreFaithful` (a lattice survives both
conversions of `bindings.rs`), `GeneratedKeeps` (the component changes account
and signing keys alone), `DerivedLattices`.

*Refinement.* Under the same assumptions, `LatticeService` implements
`LatticeLifecycle`: initial states are initial states (`LifecycleInit`), and
each of the five steps that write is the abstract step of the same purpose
(`ProvisionStep`, `FinishStep`, `RewriteStep`, `MarkStep`, `RemoveStep`), all
others stutter. Beyond `IInv` this needs `DataInv`: while the key has the
revision of an add's put it has the record of that put, and the add's local
lattice differs from it by the component's work alone.

*Causes.* The three theorems about causes need `UidInv` in addition: a uid belongs to the
add of one name, so that what a call of another name does cannot bear on a
record. `CallMoves` and `NewRecord` say once what a step can do to a call and to
a record; the invariance of each property follows from these two.

### LatticeDispatchProofs

For every set of instances, configurations, calls and any number of slots
(`ConfigsAssumption`, `DispatchAssumption`). `StartupInv`: a task that runs has
its component or needs none; it is inductive because a task is spawned only by
`BuildPlain` and `Compile` (`SpawnStep`), and the dispatch does not touch the
processes (`DispatchLeavesStartup`). `CallInv`: a call that waits was not accepted
(`QueuedIsNew`), it waits at one place in one buffer (`QueuedOnce`), and one that
was not made is nowhere (`IdleIsNowhere`); `HandledOnce` is not inductive
without them. For the types, `PlaceInv` adds the order in which `main` builds the
tasks, without which a task could be built twice, and `SlotInv` that what is in
the slots is finite, without which its cardinality would mean nothing.

For the refinement of `LatticeCalls`, `TrackInv`: a call is in a buffer or a slot
only of its own function and only while its client waits, in the slots of one
instance at most, and in no buffer then. With it `CallState` has one value in
every state (`CallStates`), and each action that moves a call is the abstract
step of that call and leaves all others where they were; when an instance goes
(`DropCalls`), what it had is the set that `Lose` loses, because nothing else of
those calls is anywhere; when a handler fails (`Fails`), its call is.

### LatticeReadsProofs

For any names, any calls that write and any calls that read (the assumptions of
`LatticeService` and `ReadsAssumption`). It rests on `TypeCorrect`'s `TypeInv`
and on `OneMessage`: a step of the service adds one message to the bucket or
none. `LogInv`: the history has every revision given out, and the bucket the
last message of each name, so that "was there at revision s" and "has a value
now" can be compared (`LiveNow`, `LiveStays`). On it stand, per read, `GetInv`:
whatever an answer so far misses of its name came after the call began and
after everything read before it (`Causal`); and `ListInv`: what the consumer named
was there once since the call (`OnceLive`), and a lattice that has been there
all the time (`AlwaysLive`) is named or is still ahead of the consumer.

`ReadsWriteNothing` composes: a step of `LatticeReads` is a step of
`LatticeService` or leaves its variables alone, so every theorem of
`LatticeServiceProofs` also holds with readers beside the writers, the refinement
of `LatticeLifecycle` among them.

### LatticeWatchProofs

For any names, watches, requests and any capacity of the channel
(`WatchAssumption`). Once sent, the messages of one stream are in four
places: the stream's buffer, the task's hands, the channel, and what the client
has. `Line` reads these places as one line, in which revisions rise within each
place and from one to the next, and none exceeds the stream's cursor; `OrderInv`
says so of every stream. Every step moves a message from the head of one
place to the end of the next (`Move`, `MoveBetween`), takes a new one in at the
beginning (`LineGrows`), or concerns another watch (`OneWatchMoves`). `InOrder` is
the last place of the line; it is not inductive without the others.

`LossInv` looks along the same line for what must be in it (`KeptInv`): the last
message of every watched name is still to be sent, is on its way (`InPipe`), or
is the last the client has of that name. A write takes the place of a message not yet sent;
one that is on its way is overtaken, never dropped. Where nothing is on its
way, the third case is left, which is `QuietIsUpToDate`.

### LatticeGeneratorProofs

For any creations, bootstraps and xkeys (`GeneratorAssumption`, `SecretsAssumption`). `PushInv`: a
creation at its last await has sent its JWT, and one whose account the cluster
took came to the push; three of the properties follow from it. `SecretInv` does
the same for the bootstraps, seed by seed: past a seed, it is stored for the run's
own xkey or was overwritten by a run with another one.

### AuthCalloutProofs

For any number of requests of any shapes, with and without a component
(`NothingAssumption`: None is no request, shape or answer; `ShapesAssumption`).
`AuthInv` adds to the properties what
the loop knows of the requests it has not touched (`Waiting`: no answer, no
verdict, one place in the queue) and of the one in hand (`InHand`: at `sign` it
was read and allowed).

### WorkQueueProofs

For any instances, messages, delivery limits and numbers of faults
(`WorkQueueAssumption`). `QueueInv`: a message no crash and no outage touched
was delivered once at most and has a progress task, whatever became of its
handler (`Calm`). That the task is never stopped is thus what rules the second
delivery out, and the same fact is why a message can stay pending for ever.

`QueueBounds`, for the types: the server delivers a
message only while it has deliveries left.

### BootstrapHierarchyProofs

For any number of runs (`MaxRunsAssumption`), each of which may fail at any
file. The files and claims are fixed, so the proof has a static part and a
dynamic one. Static: `FilesHas`, that the order of the writes has every file that
is read, and the operator's key before the system account's (from `Before` over
the concatenations that make up `Files`); and `OneHierarchy`, that files of one
run verify together - from `AccountClaims`, `AccountTokens`, `UserClaims`,
`CalloutClaims` and `SeedEnds`, one per kind of claim. Dynamic: `DiskInv`, that
what the last run has come past is its own (a file just emptied aside), all of it
once it is done, which with `OneHierarchy` gives `DoneVerifies`; and `CtlInv`, that the operator's key is never older
than the system account's, on disk or against what `lattice-ctl` has already
read, except where the file is missing, which makes it panic.

### Only model-checked

Liveness (`EveryCallEnds`, `CatchesUp`, `HungUpTaskEnds`, `EveryRequestHandled`,
`StartsOrStops`, `EndedTaskStops`, `AnsweredUnlessBlocked`, `MessagesSettle`),
which is out of the prover's reach. Every other property of a passing run
has its theorem.

## 6. What is not modelled

* `store_key` and `delete_key` of `vm.rs` and the generator's `update` and
  `delete`: nothing calls the first two, the others do nothing.
* What `lattice-ctl` prints of an answer, and its panics on an error.
* `health_check`, a constant; the webhook of a callout's configuration, which no
  code reads.
* `import.sh`, a list of calls of `nsc`, and the parts of `nsc.go` that read a
  hierarchy back, which nothing calls.
* Loss and recovery of the connection to NATS; a failed request stands for it.
* The work a worker's handler is to do, which is not written yet.
* Wasm, wRPC encoding, JWT encoding and cryptography, except that a seed opens
  only with the xkey that sealed it.
