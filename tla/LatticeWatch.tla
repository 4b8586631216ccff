---------------------------- MODULE LatticeWatch ----------------------------
(***************************************************************************)
(* watch_lattices of src/src/lattice_wrpc.rs: a task merges the bucket's   *)
(* watch streams, unpacks each message and sends the lattice through a     *)
(* bounded channel whose receiver is the result stream of the call.        *)
(*                                                                         *)
(* A watch stream is an ordered push consumer on the bucket (external): it *)
(* is sent the messages that match its filter in the order of their        *)
(* revisions, from the last one of each key on.  A message that was        *)
(* overwritten before the server got to it is gone (the bucket keeps one   *)
(* message per key); one that was sent waits in the client, however old.   *)
(***************************************************************************)
EXTENDS LatticeBucket, Sequences

CONSTANTS
  Watches,      \* the calls of watch_lattices
  Requests,     \* what they ask for: sequences of filters, sets of names
  Readers,      \* the watches whose clients keep reading
  Cap,          \* the capacity of the channel (16 in the code)
  MaxSeq        \* bound: the number of writes to the bucket

ASSUME WatchAssumption ==
  /\ Requests \subseteq Seq(SUBSET Names)
  /\ Readers \subseteq Watches
  /\ Cap \in Nat \ {0}
  /\ MaxSeq \in Nat

VARIABLES
  task,     \* task[w]: the state of the spawned task
  streams,  \* streams[w]: the filters of the merged streams
  cursor,   \* cursor[w][i]: last revision the server sent on stream i
  buf,      \* buf[w][i]: messages sent on stream i and not yet polled
  item,     \* item[w]: the message in the task's hands
  chan,     \* chan[w]: the mpsc channel
  rx,       \* rx[w]: is the receiver still there?
  got       \* history: got[w] is what the client has received

watchVars == <<task, streams, cursor, buf, item, chan, rx, got>>
vars == <<kv, seq, watchVars>>

\* The message a key holds, as a stream delivers it.
MessageOf(n) == [name |-> n, rev |-> kv[n].rev, op |-> kv[n].op]
Messages == [name: Names, rev: 1..MaxSeq, op: {"put", "delete"}]

Init ==
  /\ BucketInit
  /\ task = [w \in Watches |-> "none"]
  /\ streams = [w \in Watches |-> <<>>]
  /\ cursor = [w \in Watches |-> <<>>]
  /\ buf = [w \in Watches |-> <<>>]
  /\ item = [w \in Watches |-> Nothing]
  /\ chan = [w \in Watches |-> <<>>]
  /\ rx = [w \in Watches |-> FALSE]
  /\ got = [w \in Watches |-> <<>>]

\* The Lattice service writes; what the record holds does not matter here.
Write(n) ==
  /\ seq < MaxSeq
  /\ Put(n, Nothing) \/ Delete(n)
  /\ UNCHANGED watchVars

\* None asks for the filter ">", a list for one stream per name.
Watch(w, filters) ==
  /\ task[w] = "none"
  /\ task' = [task EXCEPT ![w] = "polling"]
  /\ streams' = [streams EXCEPT ![w] = filters]
  /\ cursor' = [cursor EXCEPT ![w] = [i \in DOMAIN filters |-> 0]]
  /\ buf' = [buf EXCEPT ![w] = [i \in DOMAIN filters |-> <<>>]]
  /\ rx' = [rx EXCEPT ![w] = TRUE]
  /\ UNCHANGED <<kv, seq, item, chan, got>>

\* The keys of stream i with a message the server has not sent yet.
Unsent(w, i) == {n \in streams[w][i] : kv[n].rev > cursor[w][i]}

ServerSends(w, i) ==
  /\ task[w] \in {"polling", "sending"}
  /\ \E n \in Unsent(w, i) :
       /\ \A m \in Unsent(w, i) : kv[n].rev <= kv[m].rev
       /\ cursor' = [cursor EXCEPT ![w][i] = kv[n].rev]
       /\ buf' = [buf EXCEPT ![w][i] = Append(@, MessageOf(n))]
  /\ UNCHANGED <<kv, seq, task, streams, item, chan, rx, got>>

\* streams.next().await: some stream has a message.
Poll(w, i) ==
  /\ task[w] = "polling"
  /\ buf[w][i] # <<>>
  /\ item' = [item EXCEPT ![w] = Head(buf[w][i])]
  /\ buf' = [buf EXCEPT ![w][i] = Tail(@)]
  /\ UNCHANGED <<kv, seq, streams, cursor, chan, rx, got>>

\* A put's value unpacks to a lattice, which is to be sent.
PollLattice(w, i) ==
  /\ Poll(w, i)
  /\ Head(buf[w][i]).op = "put"
  /\ task' = [task EXCEPT ![w] = "sending"]

\* A delete marker has no value: unpack fails and the task returns.
PollMarker(w, i) ==
  /\ Poll(w, i)
  /\ Head(buf[w][i]).op = "delete"
  /\ task' = [task EXCEPT ![w] = "ended"]

\* Variant: try_send instead of send, the error being taken for a closed receiver.
Send_EndsWhenFull(w) ==
  /\ task[w] = "sending"
  /\ rx[w]
  /\ IF Len(chan[w]) < Cap
     THEN /\ chan' = [chan EXCEPT ![w] = Append(@, item[w])]
          /\ task' = [task EXCEPT ![w] = "polling"]
     ELSE task' = [task EXCEPT ![w] = "ended"] /\ UNCHANGED chan
  /\ UNCHANGED <<kv, seq, streams, cursor, buf, item, rx, got>>

\* Variant: try_send instead of send, the error being ignored.
Send_DropsWhenFull(w) ==
  /\ task[w] = "sending"
  /\ rx[w]
  /\ chan' = [chan EXCEPT ![w] = IF Len(@) < Cap THEN Append(@, item[w]) ELSE @]
  /\ task' = [task EXCEPT ![w] = "polling"]
  /\ UNCHANGED <<kv, seq, streams, cursor, buf, item, rx, got>>

\* Variant: an unbounded channel.
Send_Unbounded(w) ==
  /\ task[w] = "sending"
  /\ rx[w]
  /\ chan' = [chan EXCEPT ![w] = Append(@, item[w])]
  /\ task' = [task EXCEPT ![w] = "polling"]
  /\ UNCHANGED <<kv, seq, streams, cursor, buf, item, rx, got>>

\* Variant: the newest lattice overtakes those still in the channel.
Send_NewestFirst(w) ==
  /\ task[w] = "sending"
  /\ rx[w]
  /\ Len(chan[w]) < Cap
  /\ chan' = [chan EXCEPT ![w] = <<item[w]>> \o @]
  /\ task' = [task EXCEPT ![w] = "polling"]
  /\ UNCHANGED <<kv, seq, streams, cursor, buf, item, rx, got>>

\* tx.send waits for room in the channel.
Send(w) ==
  /\ task[w] = "sending"
  /\ rx[w]
  /\ Len(chan[w]) < Cap
  /\ chan' = [chan EXCEPT ![w] = Append(@, item[w])]
  /\ task' = [task EXCEPT ![w] = "polling"]
  /\ UNCHANGED <<kv, seq, streams, cursor, buf, item, rx, got>>

\* Variant: the task goes on without its receiver.
SendClosed_KeepsPolling(w) ==
  /\ task[w] = "sending"
  /\ ~rx[w]
  /\ task' = [task EXCEPT ![w] = "polling"]
  /\ UNCHANGED <<kv, seq, streams, cursor, buf, item, chan, rx, got>>

\* tx.send fails: the receiver is gone.
SendClosed(w) ==
  /\ task[w] = "sending"
  /\ ~rx[w]
  /\ task' = [task EXCEPT ![w] = "ended"]
  /\ UNCHANGED <<kv, seq, streams, cursor, buf, item, chan, rx, got>>

\* No stream at all (an empty list): next() answers None at once.
NothingToWatch(w) ==
  /\ task[w] = "polling"
  /\ streams[w] = <<>>
  /\ task' = [task EXCEPT ![w] = "ended"]
  /\ UNCHANGED <<kv, seq, streams, cursor, buf, item, chan, rx, got>>

\* The result stream is transmitted to the client.
Receive(w) ==
  /\ rx[w]
  /\ chan[w] # <<>>
  /\ got' = [got EXCEPT ![w] = Append(@, Head(chan[w]))]
  /\ chan' = [chan EXCEPT ![w] = Tail(@)]
  /\ UNCHANGED <<kv, seq, task, streams, cursor, buf, item, rx>>

\* The client goes away: the invocation, and with it the receiver, is dropped.
Hangup(w) ==
  /\ rx[w]
  /\ rx' = [rx EXCEPT ![w] = FALSE]
  /\ chan' = [chan EXCEPT ![w] = <<>>]
  /\ UNCHANGED <<kv, seq, task, streams, cursor, buf, item, got>>

\* The steps of the task and of the stream's server side.
TaskStep(w) ==
  \/ \E i \in DOMAIN streams[w] : PollLattice(w, i) \/ PollMarker(w, i)
  \/ Send(w) \/ SendClosed(w) \/ NothingToWatch(w)
ServerStep(w) == \E i \in DOMAIN streams[w] : ServerSends(w, i)

Next ==
  \/ \E n \in Names : Write(n)
  \/ \E w \in Watches :
       \/ \E filters \in Requests : Watch(w, filters)
       \/ ServerStep(w) \/ TaskStep(w) \/ Receive(w) \/ Hangup(w)

Spec == Init /\ [][Next]_vars

\* The runtime schedules the task, the server keeps sending, and the clients in
\* Readers keep reading.  Nobody has to write, to watch, or to hang up.
FairSpec ==
  /\ Spec
  /\ \A w \in Watches : WF_vars(TaskStep(w)) /\ WF_vars(ServerStep(w))
  /\ \A w \in Readers : WF_vars(Receive(w))

-----------------------------------------------------------------------------
\* The types of the variables, the channel within its capacity.
TypeOK ==
  /\ kv \in [Names -> Entry({})]
  /\ seq \in 0..MaxSeq
  /\ task \in [Watches -> {"none", "polling", "sending", "ended"}]
  /\ streams \in [Watches -> Requests \cup {<<>>}]
  /\ item \in [Watches -> Messages \cup {Nothing}]
  /\ rx \in [Watches -> BOOLEAN]
  /\ cursor \in [Watches -> Seq(0..MaxSeq)]
  /\ buf \in [Watches -> Seq(Seq(Messages))]
  /\ chan \in [Watches -> Seq(Messages)]
  /\ got \in [Watches -> Seq(Messages)]
  /\ \A w \in Watches :
       /\ DOMAIN cursor[w] = DOMAIN streams[w]
       /\ DOMAIN buf[w] = DOMAIN streams[w]
       /\ Len(chan[w]) <= Cap

\* No name of stream i is in another stream of the watch: a list of names may
\* name one twice.
Alone(w, i) == \A j \in DOMAIN streams[w] \ {i} : streams[w][i] \cap streams[w][j] = {}

\* A client never sees a lattice go back in time: what it receives of one name
\* (and, when it watches everything, of all names) comes in the order of the
\* writes and never twice, unless it named the lattice twice.
InOrder ==
  \A w \in Watches : \A i \in DOMAIN streams[w] : Alone(w, i) =>
    \A j, k \in DOMAIN got[w] :
      j < k /\ {got[w][j].name, got[w][k].name} \subseteq streams[w][i] =>
        got[w][j].rev < got[w][k].rev

\* While its client is there, a watch of something ends only at a deletion.
EndsOnlyAtDeletion ==
  \A w \in Watches :
    task[w] = "ended" /\ rx[w] /\ streams[w] # <<>> => item[w].op = "delete"

Watched(w) == UNION {streams[w][i] : i \in DOMAIN streams[w]}

\* What the client received last of name n.
LastSeen(w, n) ==
  LET revs == {got[w][k].rev : k \in {j \in DOMAIN got[w] : got[w][j].name = n}}
  IN  IF revs = {} THEN 0 ELSE CHOOSE r \in revs : \A s \in revs : s <= r

UpToDate(w) ==
  \A n \in Watched(w) : Live(n) => LastSeen(w, n) = kv[n].rev

\* A client that keeps reading ends up with the last state of every lattice it
\* watches, whatever the other clients do and however slow they are, unless a
\* deletion ended its watch or it hung up.
CatchesUp ==
  \A w \in Readers : <>[](task[w] \in {"polling", "sending"} /\ rx[w] => UpToDate(w))

\* Something is on its way to the task.
Coming(w) ==
  \/ task[w] = "sending"
  \/ \E i \in DOMAIN streams[w] : buf[w][i] # <<>> \/ Unsent(w, i) # {}

\* Between the bucket and a client that is there nothing is lost: when the server
\* has nothing more to send, the streams are drained and the channel is empty, the
\* client has the last state of every lattice it watches, however slowly it read.
QuietIsUpToDate ==
  \A w \in Watches :
    task[w] = "polling" /\ rx[w] /\ ~Coming(w) /\ chan[w] = <<>> => UpToDate(w)

\* A task whose client hung up is not kept for ever: the next write it would
\* have shown ends it, whether it was waiting for room or for the write.
HungUpTaskEnds ==
  \A w \in Watches :
    ~rx[w] /\ task[w] \in {"polling", "sending"} /\ Coming(w) ~> task[w] = "ended"

\* watch_all_lattices: "Using the '>' means we get the latest update for every
\* key": a client that stays and keeps reading ends up with all of them.
LatestUpdateForEveryKey ==
  \A w \in Readers : <>[](task[w] # "none" /\ rx[w] => UpToDate(w))

=============================================================================
